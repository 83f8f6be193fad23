--------------------------- MODULE KnowledgeGraph ---------------------------
(***************************************************************************)
(* The knowledge graph: core/memory_engine.py extracts entities and        *)
(* relations from memories and infers relations while it consolidates;     *)
(* storage/neo4j_store.py keeps them.  Every call of the store awaits      *)
(* Neo4j, so extractions of concurrent remember calls and consolidations   *)
(* interleave between any two of them.                                     *)
(*                                                                         *)
(* Abstractions.  An entity stands for its (name, type), which a           *)
(* constraint keeps unique; Mentions says whose name or description        *)
(* contains the name of which.  Confidences are hundredths, rounded down,  *)
(* of any size and sign: the answer is to give numbers, and nothing checks *)
(* their range.  What an entity is described by is left out: the latest    *)
(* description wins, whatever its confidence.                              *)
(* create_relation merges on an id that is always new, so it only adds;    *)
(* copies that agree in everything are one relation here.  What the        *)
(* language model extracts comes in any order, and a record with an        *)
(* unknown type fails like a refused statement.                            *)
(***************************************************************************)
EXTENDS Integers, FiniteSets

CONSTANTS
  Entities,
  Mentions,       \* <<e, q>>: searching for the name of q finds e
  Extractions,    \* answers of extract_entities
  Rememberers,    \* clients whose remember extracts
  Consolidators,  \* clients that consolidate
  Limit           \* rows of an inference query (20)

Types == {"USES", "PART_OF"}
Confidence == Int
Relations == [from : Entities, to : Entities, type : Types, conf : Confidence, inferred : BOOLEAN]
Requests == [from : Entities, to : Entities, type : Types, conf : Confidence]
Extracted == [entities : SUBSET (Entities \X Confidence), relations : SUBSET Requests]

ASSUME MentionsAssumption == Mentions \subseteq Entities \X Entities
ASSUME ExtractionsAssumption == Extractions \subseteq Extracted
ASSUME LimitAssumption == Limit \in Nat \ {0}

VARIABLES
  known, conf,   \* the entities stored, and their confidence
  relations,
  up,            \* whether Neo4j answers
  work           \* per client: where it is and what it has still to store

vars == <<known, conf, relations, up, work>>
Clients == Rememberers \cup Consolidators

Steps == {"idle", "extract", "target", "relate", "uses", "part_of", "store"}
Idle == [at |-> "idle", entities |-> {}, requests |-> {}, rows |-> {}]

TypeOK ==
  /\ known \subseteq Entities
  /\ conf \in [Entities -> Confidence]
  /\ relations \subseteq Relations
  /\ up \in BOOLEAN
  /\ work \in [Clients -> [at : Steps, entities : SUBSET (Entities \X Confidence),
                           requests : SUBSET Requests, rows : SUBSET Relations]]

Init ==
  /\ known = {}
  /\ conf = [e \in Entities |-> 0]
  /\ relations = {}
  /\ up = TRUE
  /\ work = [c \in Clients |-> Idle]

\* Client c goes on with the work w.
Works(c, w) == work' = [work EXCEPT ![c] = w]

-----------------------------------------------------------------------------
(* _extract_and_store_graph *)

\* The model has answered for a memory: one that is being remembered, or one
\* of the working memories that a consolidation goes through.
Extract(c, x) ==
  /\ work[c].at = "idle"
  /\ Works(c, [Idle EXCEPT !.at = "extract", !.entities = x.entities, !.requests = x.relations])
  /\ UNCHANGED <<known, conf, relations, up>>

MergeEntityLatest(e, p) ==
  /\ known' = known \cup {e}
  /\ conf' = [conf EXCEPT ![e] = p]

\* create_entity: a new node, or the one there with the higher confidence.
MergeEntity(e, p) ==
  /\ known' = known \cup {e}
  /\ conf' = [conf EXCEPT ![e] = IF e \in known /\ p <= @ THEN @ ELSE p]

StoreEntity(c) ==
  /\ work[c].at = "extract"
  /\ \E x \in work[c].entities :
       /\ Works(c, [work[c] EXCEPT !.entities = @ \ {x}])
       /\ \/ MergeEntity(x[1], x[2])
          \/ UNCHANGED <<known, conf>>     \* refused, with a warning
  /\ UNCHANGED <<relations, up>>

\* search_entities(q, top_k=1) returns one of these, when there is one.
Best(q) ==
  LET hits == {e \in known : <<e, q>> \in Mentions}
  IN  {e \in hits : \A f \in hits : conf[f] <= conf[e]}

AtMostOne(S) == IF S = {} THEN {{}} ELSE {{x} : x \in S}

\* After the entities, each relation: its two ends are looked up by name ...
FindSource(c) ==
  /\ work[c].at = "extract" /\ work[c].entities = {}
  /\ \E r \in work[c].requests :
     \E rows \in AtMostOne({[from |-> e, to |-> r.to, type |-> r.type, conf |-> r.conf,
                             inferred |-> FALSE] : e \in Best(r.from)}) :
       Works(c, [work[c] EXCEPT !.at = "target", !.requests = @ \ {r}, !.rows = rows])
  /\ UNCHANGED <<known, conf, relations, up>>

FindTarget(c) ==
  /\ work[c].at = "target"
  /\ \E rows \in AtMostOne(UNION {{[r EXCEPT !.to = e] : e \in Best(r.to)} : r \in work[c].rows}) :
       Works(c, [work[c] EXCEPT !.at = "relate", !.rows = rows])
  /\ UNCHANGED <<known, conf, relations, up>>

\* ... and the relation is stored between what was found.
Relate(c) ==
  /\ work[c].at = "relate"
  /\ Works(c, [work[c] EXCEPT !.at = "extract", !.rows = {}])
  /\ \/ relations' = relations \cup work[c].rows
     \/ UNCHANGED relations            \* this or a lookup was refused
  /\ UNCHANGED <<known, conf, up>>

\* remember returns; a consolidation takes its next memory, or goes on.
ExtractionEnds(c) ==
  /\ work[c].at = "extract" /\ work[c].entities = {} /\ work[c].requests = {}
  /\ Works(c, Idle)
  /\ UNCHANGED <<known, conf, relations, up>>

-----------------------------------------------------------------------------
(* consolidate: infer_transitive_relations, then what is likely enough *)

\* The memories are done (or there was none): two queries follow.
StartInference(c) ==
  /\ work[c].at = "idle"
  /\ Works(c, [work[c] EXCEPT !.at = "uses"])
  /\ UNCHANGED <<known, conf, relations, up>>

WeakenNot(p) == p[1].conf
Weaken(p) == (p[1].conf * p[2].conf * 7) \div 1000

UnrelatedByAny(a, b, t) == ~\E r \in relations : r.from = a /\ r.to = b
Unrelated(a, b, t) == ~\E r \in relations : r.from = a /\ r.to = b /\ r.type = t

Chains(t) == {p \in relations \X relations :
  /\ p[1].type = t /\ p[2].type = t
  /\ p[1].to = p[2].from
  /\ p[1].from # p[2].to
  /\ Unrelated(p[1].from, p[2].to, t)}

Inference(p) == [from |-> p[1].from, to |-> p[2].to, type |-> p[1].type,
                 conf |-> Weaken(p), inferred |-> TRUE]

\* One query, of at most Limit rows.
Infer(c, t, next) ==
  /\ up
  /\ \E S \in SUBSET Chains(t) :
       /\ Cardinality(S) <= Limit
       /\ S = Chains(t) \/ Cardinality(S) = Limit
       /\ Works(c, [work[c] EXCEPT !.at = next, !.rows = @ \cup {Inference(p) : p \in S}])
  /\ UNCHANGED <<known, conf, relations, up>>

InferUses(c) == work[c].at = "uses" /\ Infer(c, "USES", "part_of")
InferPartOf(c) == work[c].at = "part_of" /\ Infer(c, "PART_OF", "store")

Likely(r) == r.conf >= 50

StoreInferred(c) ==
  /\ up /\ work[c].at = "store"
  /\ \E r \in work[c].rows :
       /\ Works(c, [work[c] EXCEPT !.rows = @ \ {r}])
       /\ relations' = IF Likely(r) THEN relations \cup {r} ELSE relations
  /\ UNCHANGED <<known, conf, up>>

InferenceEnds(c) ==
  /\ work[c].at = "store" /\ work[c].rows = {}
  /\ Works(c, Idle)
  /\ UNCHANGED <<known, conf, relations, up>>

\* A statement fails, and what is left of the inference is dropped.
InferenceFails(c) ==
  /\ ~up
  /\ work[c].at \in {"uses", "part_of", "store"}
  /\ Works(c, Idle)
  /\ UNCHANGED <<known, conf, relations, up>>

Neo4j ==
  /\ up' = ~up
  /\ UNCHANGED <<known, conf, relations, work>>

-----------------------------------------------------------------------------

Extraction(c) == StoreEntity(c) \/ FindSource(c) \/ FindTarget(c) \/ Relate(c) \/ ExtractionEnds(c)
Inferring(c) == InferUses(c) \/ InferPartOf(c) \/ StoreInferred(c) \/ InferenceEnds(c)

Next ==
  \/ \E c \in Clients, x \in Extractions : Extract(c, x)
  \/ \E c \in Clients : Extraction(c)
  \/ \E c \in Consolidators : StartInference(c) \/ Inferring(c) \/ InferenceFails(c)
  \/ Neo4j

Spec == Init /\ [][Next]_vars

\* run_loop consolidates again and again, and Neo4j stays up in the end.
FairSpec ==
  /\ Spec
  /\ <>[]up
  /\ \A c \in Consolidators :
       WF_vars(Extraction(c)) /\ WF_vars(Inferring(c)) /\ SF_vars(StartInference(c))

-----------------------------------------------------------------------------
(* Properties *)

Extracts == {r \in relations : ~r.inferred}

\* Extracted relations of type t lead from a to b: no set holds a, is closed
\* under them and leaves b out.
Connected(a, b, t) ==
  \A S \in SUBSET Entities :
    a \in S /\ (\A r \in Extracts : r.type = t /\ r.from \in S => r.to \in S) => b \in S

\* The model has answered with confidences between 0 and 1.
Sane == \A r \in Extracts : r.conf \in 0..100

Supports(r1, r2, r) ==
  /\ ~r1.inferred /\ ~r2.inferred
  /\ r1.type = r.type /\ r2.type = r.type
  /\ r1.from = r.from /\ r1.to = r2.from /\ r2.to = r.to
  /\ r.conf < r1.conf /\ r.conf < r2.conf

\* Whatever extractions and consolidations ran between a query and the storing
\* of its rows, and whatever conclusions were premises of others, an inferred
\* relation leads where extracted relations of its type lead.  As long as the
\* model keeps to confidences between 0 and 1, it rests on two of them
\* directly and is less certain than either: then the factor 0.7 and the
\* threshold 0.5 keep conclusions from being premises.
RestsOnExtracted ==
  \A r \in relations : r.inferred =>
    /\ r.from # r.to
    /\ Connected(r.from, r.to, r.type)
    /\ Sane => \E r1, r2 \in relations : Supports(r1, r2, r)

\* Concurrent extractions of the same entity never lose it, nor lower what is
\* known of it, and no relation is taken back.
GraphOnlyGrows ==
  [][/\ known \subseteq known'
     /\ \A e \in known : conf[e] <= conf'[e]
     /\ relations \subseteq relations']_vars

\* If consolidations go on and no query has more than Limit rows, two
\* relations that are likely enough together lead to the third in the end
\* (which then stays: see GraphOnlyGrows).
LikelyChains == {p \in relations \X relations :
  /\ p[1].type = p[2].type /\ p[1].to = p[2].from /\ p[1].from # p[2].to
  /\ Weaken(p) >= 50}

ConclusionsDrawn ==
  []<>(\A p \in LikelyChains :
         \E r \in relations : r.from = p[1].from /\ r.to = p[2].to /\ r.type = p[1].type)

=============================================================================
