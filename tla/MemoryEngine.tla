---------------------------- MODULE MemoryEngine ----------------------------
(***************************************************************************)
(* core/memory_engine.py over storage/pgvector_store.py: memories are      *)
(* remembered, recalled, forgotten, moved between layers by consolidation  *)
(* and merged by deduplication.  The store's statements do not suspend, so *)
(* one action is the code between two waits for the language model; what   *)
(* an operation read before such a wait may be out of date after it.       *)
(*                                                                         *)
(* Abstractions.  Memories are numbered from the newest, the order of      *)
(* get_by_layer.  Importance counts twentieths, the 0.05 a merge adds.     *)
(* accesses stops at 2, "twice or more", and unused stands for a           *)
(* last_accessed older than 7 days, aged for a created_at older than the   *)
(* consolidation threshold.  Texts, tags and the knowledge graph are left  *)
(* out; whether two texts are similar is the model's answer.               *)
(***************************************************************************)
EXTENDS Naturals, FiniteSets

CONSTANTS
  M,          \* memories created in a behaviour
  Inputs,     \* the importance and layer new memories come with
  Dedupers,   \* clients that run deduplicate
  Batch       \* limit of get_by_layer and get_stale_memories (500)

Memories == 1..M
Layers == {"short_term", "working", "long_term", "meta"}
Rank(l) == CASE l = "short_term" -> 1 [] l = "working" -> 2 [] l = "long_term" -> 3 [] OTHER -> 4
One == 20                   \* importance 1.0
ImportanceThreshold == 12   \* importance_threshold, 0.6
LongTermThreshold == 14     \* 0.7
ForgetThreshold == 6        \* 0.3

ASSUME MemoriesAssumption == M \in Nat /\ Batch \in Nat \ {0}
ASSUME InputsAssumption == Inputs \subseteq [importance : 0..One, layer : Layers]

VARIABLES
  stored, row,       \* the memories table: the ids it has and their rows
  left,              \* 1..left are still to be created
  aged,              \* memories older than the consolidation threshold
  object, tagging,   \* remember's own copies, and those waiting for their tags
  consolidating,     \* a consolidation is between promoting and forgetting
  scan,              \* per deduper: its copies and the pairs it has still to compare
  merged, forgotten  \* pairs merged, and memories deleted otherwise, so far

storeVars == <<stored, row>>
vars == <<stored, row, left, aged, object, tagging, consolidating, scan, merged, forgotten>>

Rows == [layer : Layers, importance : 0..One, accesses : 0..2, unused : BOOLEAN]
Blank == [layer |-> "short_term", importance |-> 0, accesses |-> 0, unused |-> FALSE]
Lesser(x, y) == IF x < y THEN x ELSE y
Greater(x, y) == IF x < y THEN y ELSE x

Pairs == {p \in Memories \X Memories : p[1] < p[2]}
NoScan == [todo |-> {}, copy |-> [m \in Memories |-> Blank], dry |-> FALSE]

TypeOK ==
  /\ stored \subseteq Memories
  /\ row \in [Memories -> Rows]
  /\ left \in 0..M
  /\ aged \subseteq Memories
  /\ object \in [Memories -> Rows]
  /\ tagging \subseteq Memories
  /\ consolidating \in BOOLEAN
  /\ scan \in [Dedupers -> [todo : SUBSET Pairs, copy : [Memories -> Rows], dry : BOOLEAN]]
  /\ merged \subseteq Pairs
  /\ forgotten \subseteq Memories

Init ==
  /\ stored = {}
  /\ row = [m \in Memories |-> Blank]
  /\ left = M
  /\ aged = {}
  /\ object = [m \in Memories |-> Blank]
  /\ tagging = {}
  /\ consolidating = FALSE
  /\ scan = [d \in Dedupers |-> NoScan]
  /\ merged = {}
  /\ forgotten = {}

-----------------------------------------------------------------------------
(* remember *)

\* An important short-term memory starts in working; importance 0 becomes 0.5.
NewRow(input) ==
  [layer |-> IF input.layer = "short_term" /\ input.importance >= ImportanceThreshold
             THEN "working" ELSE input.layer,
   importance |-> IF input.importance = 0 THEN 10 ELSE input.importance,
   accesses |-> 0,
   unused |-> FALSE]

\* Saved for the first time; the model may then be asked for tags.
Remember(input, wantsTags) ==
  /\ left > 0
  /\ left' = left - 1
  /\ stored' = stored \cup {left}
  /\ row' = [row EXCEPT ![left] = NewRow(input)]
  /\ IF wantsTags
       THEN /\ tagging' = tagging \cup {left}
            /\ object' = [object EXCEPT ![left] = NewRow(input)]
       ELSE UNCHANGED <<tagging, object>>
  /\ UNCHANGED <<aged, consolidating, scan, merged, forgotten>>

\* The tags arrive and the object is saved again: save_memory writes layer,
\* importance, last_accessed and access_count over whatever the row has now.
Tag(m) ==
  /\ m \in tagging
  /\ tagging' = tagging \ {m}
  /\ stored' = stored \cup {m}
  /\ row' = [row EXCEPT ![m] = object[m]]
  /\ object' = [object EXCEPT ![m] = Blank]
  /\ UNCHANGED <<left, aged, consolidating, scan, merged, forgotten>>

TagFails(m) ==
  /\ m \in tagging
  /\ tagging' = tagging \ {m}
  /\ object' = [object EXCEPT ![m] = Blank]
  /\ UNCHANGED <<storeVars, left, aged, consolidating, scan, merged, forgotten>>

-----------------------------------------------------------------------------
(* recall, forget, and time *)

Touched(r) == [r EXCEPT !.accesses = IF @ < 2 THEN @ + 1 ELSE 2, !.unused = FALSE]

\* Both searches answered with S, and the store touches it.
Recall(S) ==
  /\ S # {} /\ S \subseteq stored
  /\ row' = [m \in Memories |-> IF m \in S THEN Touched(row[m]) ELSE row[m]]
  /\ UNCHANGED <<stored, left, aged, object, tagging, consolidating, scan, merged, forgotten>>

Forget(m) ==
  /\ m \in stored
  /\ stored' = stored \ {m}
  /\ forgotten' = forgotten \cup {m}
  /\ UNCHANGED <<row, left, aged, object, tagging, consolidating, scan, merged>>

Created == {m \in Memories : m > left}

\* The consolidation threshold passes, or seven days do; a question about tags
\* times out long before.
DaysPass ==
  /\ tagging = {} /\ aged # Created
  /\ aged' = Created
  /\ UNCHANGED <<storeVars, left, object, tagging, consolidating, scan, merged, forgotten>>

WeekPasses ==
  /\ tagging = {} /\ \E m \in stored : ~row[m].unused
  /\ row' = [m \in Memories |-> IF m \in stored THEN [row[m] EXCEPT !.unused = TRUE] ELSE row[m]]
  /\ aged' = Created
  /\ UNCHANGED <<stored, left, object, tagging, consolidating, scan, merged, forgotten>>

-----------------------------------------------------------------------------
(* consolidate *)

\* get_by_layer: the newest Batch memories of layer l.
ByLayer(l, r) ==
  LET all == {m \in stored : r[m].layer = l}
  IN  {m \in all : Cardinality({k \in all : k < m}) < Batch}

WithLayer(r, S, l) == [m \in Memories |-> IF m \in S THEN [r[m] EXCEPT !.layer = l] ELSE r[m]]

Stable(m, r) ==
  r[m].importance >= LongTermThreshold /\ m \in aged /\ r[m].accesses >= 2

PromoteFromAnyLayer ==
  LET toWorking == {m \in stored : row[m].importance >= ImportanceThreshold}
      toLong == {m \in ByLayer("working", row) : Stable(m, row)}
  IN  /\ ~consolidating
      /\ consolidating' = TRUE
      /\ row' = WithLayer(WithLayer(row, toWorking, "working"), toLong, "long_term")
      /\ UNCHANGED <<stored, left, aged, object, tagging, scan, merged, forgotten>>

PromoteOnlyJustPromoted ==
  LET toWorking == {m \in ByLayer("short_term", row) : row[m].importance >= ImportanceThreshold}
      promoted == WithLayer(row, toWorking, "working")
      toLong == {m \in toWorking : Stable(m, promoted)}
  IN  /\ ~consolidating
      /\ consolidating' = TRUE
      /\ row' = WithLayer(promoted, toLong, "long_term")
      /\ UNCHANGED <<stored, left, aged, object, tagging, scan, merged, forgotten>>

\* Both promotions, the second from what the first left in working; then the
\* model extracts a knowledge graph from the working memories.
Promote ==
  LET toWorking == {m \in ByLayer("short_term", row) : row[m].importance >= ImportanceThreshold}
      promoted == WithLayer(row, toWorking, "working")
      toLong == {m \in ByLayer("working", promoted) : Stable(m, promoted)}
  IN  /\ ~consolidating
      /\ consolidating' = TRUE
      /\ row' = WithLayer(promoted, toLong, "long_term")
      /\ UNCHANGED <<stored, left, aged, object, tagging, scan, merged, forgotten>>

\* get_stale_memories, at most Batch of them, the longest unused first; of
\* those the weak ones that hardly anyone recalled are deleted.
Stale == {m \in stored : row[m].layer = "short_term" /\ row[m].unused}
Decayed(m) == row[m].importance < ForgetThreshold /\ row[m].accesses <= 1

ForgetDecayed ==
  /\ consolidating
  /\ consolidating' = FALSE
  /\ \E S \in SUBSET Stale :
       /\ Cardinality(S) = Lesser(Cardinality(Stale), Batch)
       /\ stored' = stored \ {m \in S : Decayed(m)}
       /\ forgotten' = forgotten \cup {m \in S : Decayed(m)}
  /\ UNCHANGED <<row, left, aged, object, tagging, scan, merged>>

-----------------------------------------------------------------------------
(* deduplicate *)

\* The snapshot, and the pairs of one layer in it.
Deduplicate(d, dry) ==
  LET todo == {p \in Pairs : \E l \in Layers : {p[1], p[2]} \subseteq ByLayer(l, row)}
  IN  /\ scan[d].todo = {} /\ todo # {}
      /\ scan' = [scan EXCEPT ![d] = [todo |-> todo, copy |-> row, dry |-> dry]]
      /\ UNCHANGED <<storeVars, left, aged, object, tagging, consolidating, merged, forgotten>>

\* The pairs come layer by layer, and newest first in each.
Before(p, q, copy) ==
  LET r == Rank(copy[p[1]].layer)
      s == Rank(copy[q[1]].layer)
  IN  r < s \/ (r = s /\ (p[1] < q[1] \/ (p[1] = q[1] /\ p[2] <= q[2])))

\* p is the pair the model has been asked about.
Comparing(d, p) ==
  p \in scan[d].todo /\ \A q \in scan[d].todo : Before(p, q, scan[d].copy)

\* The copies live until the last pair is done.
Advanced(s, p, copy) ==
  IF s.todo = {p} THEN NoScan ELSE [s EXCEPT !.todo = @ \ {p}, !.copy = copy]

\* Not similar enough, or the comparison failed, or the run is dry.
Leave(d, p) ==
  /\ Comparing(d, p)
  /\ scan' = [scan EXCEPT ![d] = Advanced(@, p, @.copy)]
  /\ UNCHANGED <<storeVars, left, aged, object, tagging, consolidating, merged, forgotten>>

MergeDeletesKeeper(d, p) ==
  LET copy == scan[d].copy
      importance == Lesser(Greater(copy[p[1]].importance, copy[p[2]].importance) + 1, One)
      kept == [copy[p[1]] EXCEPT !.importance = importance]
  IN  /\ Comparing(d, p) /\ ~scan[d].dry
      /\ row' = [row EXCEPT ![p[1]] = kept]
      /\ stored' = (stored \cup {p[1]}) \ {p[1]}
      /\ scan' = [scan EXCEPT ![d] = Advanced(@, p, [copy EXCEPT ![p[1]] = kept])]
      /\ merged' = merged \cup {p}
      /\ UNCHANGED <<left, aged, object, tagging, consolidating, forgotten>>

\* Similar: the copy of the first memory is saved with the greater importance and
\* a bonus, and the second memory is deleted.
Merge(d, p) ==
  LET copy == scan[d].copy
      importance == Lesser(Greater(copy[p[1]].importance, copy[p[2]].importance) + 1, One)
      kept == [copy[p[1]] EXCEPT !.importance = importance]
  IN  /\ Comparing(d, p) /\ ~scan[d].dry
      /\ row' = [row EXCEPT ![p[1]] = kept]
      /\ stored' = (stored \cup {p[1]}) \ {p[2]}
      /\ scan' = [scan EXCEPT ![d] = Advanced(@, p, [copy EXCEPT ![p[1]] = kept])]
      /\ merged' = merged \cup {p}
      /\ UNCHANGED <<left, aged, object, tagging, consolidating, forgotten>>

\* The process stops: what was waiting for the model is lost.
Crash ==
  /\ tagging' = {} /\ object' = [m \in Memories |-> Blank]
  /\ consolidating' = FALSE
  /\ scan' = [d \in Dedupers |-> NoScan]
  /\ UNCHANGED <<storeVars, left, aged, merged, forgotten>>

-----------------------------------------------------------------------------

Consolidation == Promote \/ ForgetDecayed

Deduplication(d) ==
  \/ \E dry \in BOOLEAN : Deduplicate(d, dry)
  \/ \E p \in scan[d].todo : Leave(d, p) \/ Merge(d, p)

Next ==
  \/ \E input \in Inputs, wantsTags \in BOOLEAN : Remember(input, wantsTags)
  \/ \E m \in Memories : Tag(m) \/ TagFails(m) \/ Forget(m)
  \/ \E S \in SUBSET Memories : Recall(S)
  \/ DaysPass \/ WeekPasses
  \/ Consolidation
  \/ \E d \in Dedupers : Deduplication(d)
  \/ Crash

Spec == Init /\ [][Next]_vars

\* run_loop consolidates again and again.
FairSpec == Spec /\ WF_vars(Consolidation)

-----------------------------------------------------------------------------
(* Properties *)

\* Gone, though nobody asked for it and consolidation did not drop them.
Lost == Created \ (stored \cup forgotten)

\* Deduplication loses nothing, however many run at once: of the memories that
\* are gone without having been forgotten no group has all its keepers in the
\* group itself, so each is covered by a memory merged over it that is still
\* stored, or was forgotten since.
CoveredBySurvivor ==
  \A X \in (SUBSET Lost) \ {{}} : \E p \in merged : p[2] \in X /\ p[1] \notin X

\* With no deduplication running and no tags awaited, a memory only rises: its
\* layer, importance and access count never fall, and no deleted one comes back.
RowsOnlyRise ==
  [][tagging = {} /\ (\A d \in Dedupers : scan[d].todo = {}) =>
       /\ \A m \in stored \cap stored' :
            /\ Rank(row'[m].layer) >= Rank(row[m].layer)
            /\ row'[m].importance >= row[m].importance
            /\ row'[m].accesses >= row[m].accesses
       /\ \A m \in Memories \ stored : m > left => m \notin stored']_vars

Promotable(m) ==
  /\ m \in stored
  /\ \/ row[m].layer = "short_term" /\ row[m].importance >= ImportanceThreshold
     \/ row[m].layer = "working" /\ Stable(m, row)

\* While consolidations run, a memory that qualifies for a higher layer does not
\* stay where it is for ever.
PromotedEventually == \A m \in Memories : Promotable(m) ~> ~Promotable(m)

\* memory_engine.py: "Merge: update importance, add tags, delete duplicate".  The
\* duplicates a deduplication reports as merged are gone when it ends.
DuplicatesGone ==
  [][\A d \in Dedupers : scan[d].todo # {} /\ scan'[d].todo = {} =>
       \A p \in merged' : p[2] \notin stored']_vars
=============================================================================
