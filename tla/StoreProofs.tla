---------------------------- MODULE StoreProofs ----------------------------
(***************************************************************************)
(* Theorems about what is stored of memories: KnowledgeGraph, and then     *)
(* MemoryAccess, for any values of their constants.                        *)
(*                                                                         *)
(* KnowledgeGraph.  A conclusion leads where extracted relations lead,     *)
(* because being connected is transitive and is never lost in a graph that *)
(* grows.  While the model's confidences stay between 0 and 1, conclusions *)
(* never become premises, and that is arithmetic: what is inferred has a   *)
(* confidence of at most 70, and from such a premise nothing follows that  *)
(* reaches the threshold of 50.                                            *)
(*                                                                         *)
(* MemoryAccess.  Three invariants, each on top of the first: Recorded     *)
(* says whose call is at which step and whose row it has saved;            *)
(* CopiesCounted pays for every row of a user with an error or the answer; *)
(* Importance follows an import through its file: what was taken from the  *)
(* queue is brought, pending or counted as a failure.  What an export and  *)
(* the parser of an import compute over a whole table or file is shown     *)
(* row by row, upwards from none (Upwards).                                *)
(***************************************************************************)
EXTENDS KnowledgeGraph, MemoryAccess, SequenceTheorems, FiniteSetTheorems, TLAPS

-----------------------------------------------------------------------------
(* KnowledgeGraph: what follows from what *)


\* A conclusion follows from what was extracted; strong enough to be stored, it
\* has its extracted premises in the graph, while confidences stay within 0 and 1.
Founded(r) ==
  /\ r.inferred
  /\ r.from # r.to
  /\ Connected(r.from, r.to, r.type)
  /\ Sane => /\ r.conf <= 70
             /\ r.conf >= 50 => \E r1, r2 \in relations : Supports(r1, r2, r)

\* What a client carries: nothing, extracted relations, or conclusions.
RowsFit(w) ==
  /\ w.at \in {"idle", "extract", "uses"} => w.rows = {}
  /\ w.at \in {"target", "relate"} => \A r \in w.rows : ~r.inferred
  /\ w.at \in {"part_of", "store"} => \A r \in w.rows : Founded(r)

GraphInv ==
  /\ TypeOK
  /\ \A r \in relations : r.inferred => r.conf >= 50 /\ Founded(r)
  /\ \A c \in Clients : RowsFit(work[c])

-----------------------------------------------------------------------------
(* KnowledgeGraph: the arithmetic of inference *)

\* The factor 0.7 takes a conclusion below both premises, and one that reaches 50
\* has premises above 70.
LEMMA Weakening ==
  ASSUME NEW a \in 0..100, NEW b \in 0..100
  PROVE  LET w == (a * b * 7) \div 1000
         IN  /\ w \in 0..70
             /\ w >= 50 => w < a /\ w < b /\ a > 70 /\ b > 70
  <1> DEFINE m == a * b
             w == (m * 7) \div 1000
  <1>1. m \in Nat /\ m <= 100 * a /\ m <= 100 * b
    BY SMT
  <1>2. a \in Nat /\ b \in Nat /\ a <= 100 /\ b <= 100
    OBVIOUS
  <1> HIDE DEF m
  <1>3. w \in Nat /\ w * 1000 <= m * 7
    BY <1>1
  <1>4. w \in 0..70
    BY <1>1, <1>2, <1>3
  <1>5. ASSUME w >= 50
        PROVE  w < a /\ w < b /\ a > 70 /\ b > 70
    BY <1>1, <1>2, <1>3, <1>5
  <1> QED
    BY <1>4, <1>5 DEF m

\* What is stored leads where extracted relations lead, itself included.
LEMMA StoredIsConnected ==
  ASSUME GraphInv, NEW r \in relations
  PROVE  Connected(r.from, r.to, r.type)
  <1>1. CASE r.inferred
    BY <1>1 DEF GraphInv, Founded
  <1>2. CASE ~r.inferred
    BY <1>2 DEF Connected, Extracts
  <1> QED
    BY <1>1, <1>2

LEMMA ConnectedIsTransitive ==
  ASSUME NEW a, NEW b, NEW c, NEW t, Connected(a, b, t), Connected(b, c, t)
  PROVE  Connected(a, c, t)
  BY DEF Connected

\* While confidences are sane, every stored one is between 0 and 100.
LEMMA SaneConfidence ==
  ASSUME GraphInv, Sane, NEW r \in relations
  PROVE  r.conf \in 0..100 /\ (r.conf > 70 => ~r.inferred)
  <1>1. r \in Relations
    BY DEF GraphInv, TypeOK
  <1>2. r.conf \in Int /\ r.inferred \in BOOLEAN
    BY <1>1 DEF Relations, Confidence
  <1>3. CASE r.inferred
    <2>1. r.conf >= 50 /\ r.conf <= 70
      BY <1>3 DEF GraphInv, Founded
    <2> QED
      BY <1>2, <2>1
  <1>4. CASE ~r.inferred
    <2>1. r.conf \in 0..100
      BY <1>4 DEF Sane, Extracts
    <2> QED
      BY <1>4, <2>1
  <1> QED
    BY <1>3, <1>4

LEMMA WeakenIsInt ==
  ASSUME NEW a \in Int, NEW b \in Int
  PROVE  (a * b * 7) \div 1000 \in Int
  <1> DEFINE m == a * b * 7
  <1>1. m \in Int
    OBVIOUS
  <1> HIDE DEF m
  <1>2. m \div 1000 \in Int
    BY <1>1
  <1> QED
    BY <1>2 DEF m

\* Conclusions drawn from relations that fit are founded.
LEMMA ChainsAreFounded ==
  ASSUME GraphInv, NEW t \in Types, NEW p \in Chains(t)
  PROVE  Inference(p) \in Relations /\ Founded(Inference(p))
  <1>1. p[1] \in relations /\ p[2] \in relations /\ p[1].type = t /\ p[2].type = t
        /\ p[1].to = p[2].from /\ p[1].from # p[2].to
    BY DEF Chains
  <1>2. p[1] \in Relations /\ p[2] \in Relations
    BY <1>1 DEF GraphInv, TypeOK
  <1>3. p[1].conf \in Int /\ p[2].conf \in Int
    BY <1>2 DEF Relations, Confidence
  <1>4. Weaken(p) \in Int
    BY <1>3, WeakenIsInt DEF Weaken
  <1> DEFINE r == Inference(p)
  <1>5. r.from = p[1].from /\ r.to = p[2].to /\ r.type = t /\ r.conf = Weaken(p) /\ r.inferred = TRUE
    BY <1>1 DEF Inference
  <1>6. r \in Relations
    BY <1>1, <1>2, <1>4 DEF Inference, Relations, Confidence
  <1> HIDE DEF r
  <1>7. Connected(r.from, r.to, r.type)
    BY <1>1, <1>5, StoredIsConnected, ConnectedIsTransitive
  <1>8. ASSUME Sane
        PROVE  /\ r.conf <= 70
               /\ r.conf >= 50 => Supports(p[1], p[2], r)
    <2>1. p[1].conf \in 0..100 /\ p[2].conf \in 0..100
          /\ (p[1].conf > 70 => ~p[1].inferred) /\ (p[2].conf > 70 => ~p[2].inferred)
      BY <1>1, <1>8, SaneConfidence
    <2>2. Weaken(p) \in 0..70
          /\ (Weaken(p) >= 50 => /\ Weaken(p) < p[1].conf /\ Weaken(p) < p[2].conf
                                 /\ p[1].conf > 70 /\ p[2].conf > 70)
      <3> DEFINE a == p[1].conf
                 b == p[2].conf
                 w == (a * b * 7) \div 1000
      <3>1. a \in 0..100 /\ b \in 0..100
        BY <2>1
      <3>2. Weaken(p) = w
        BY DEF Weaken
      <3> HIDE DEF a, b
      <3>3. w \in 0..70 /\ (w >= 50 => w < a /\ w < b /\ a > 70 /\ b > 70)
        BY <3>1, Weakening
      <3> HIDE DEF w
      <3> QED
        BY <3>2, <3>3 DEF a, b
    <2> QED
      BY <2>1, <2>2, <1>1, <1>5 DEF Supports
  <1>9. Founded(r)
    BY <1>1, <1>5, <1>7, <1>8 DEF Founded
  <1> QED
    BY <1>6, <1>9 DEF r

\* A graph that grows keeps its conclusions founded.
LEMMA FoundedStays ==
  ASSUME relations \subseteq relations', NEW r, Founded(r)
  PROVE  Founded(r)'
  <1>1. Extracts \subseteq Extracts'
    BY DEF Extracts
  <1>2. Connected(r.from, r.to, r.type)'
    BY <1>1 DEF Connected, Founded
  <1>3. Sane' => Sane
    BY <1>1 DEF Sane
  <1> QED
    BY <1>2, <1>3 DEF Founded, Supports

-----------------------------------------------------------------------------
(* KnowledgeGraph: types *)

LEMMA BestIsKnown ==
  ASSUME TypeOK, NEW q
  PROVE  Best(q) \subseteq Entities
  BY DEF Best, TypeOK

WorkRecords == [at : Steps, entities : SUBSET (Entities \X Confidence),
          requests : SUBSET Requests, rows : SUBSET Relations]

\* A client's work stays well typed when one of its parts is replaced.
LEMMA Parts ==
  ASSUME NEW w \in WorkRecords
  PROVE  /\ \A a \in Steps : [w EXCEPT !.at = a] \in WorkRecords
         /\ \A S \in SUBSET (Entities \X Confidence) : [w EXCEPT !.entities = S] \in WorkRecords
         /\ \A R \in SUBSET Relations :
              /\ [w EXCEPT !.rows = R] \in WorkRecords
              /\ \A a \in Steps :
                   /\ [w EXCEPT !.at = a, !.rows = R] \in WorkRecords
                   /\ \A Q \in SUBSET Requests :
                        [w EXCEPT !.at = a, !.requests = Q, !.rows = R] \in WorkRecords
  BY DEF WorkRecords

LEMMA IdleRecord == Idle \in WorkRecords
  BY DEF Idle, WorkRecords, Steps

-----------------------------------------------------------------------------
(* KnowledgeGraph: the steps of one client *)

\* A step that gives client c the work w and lets the graph grow by what is extracted
\* or founded keeps the invariant.
LEMMA ClientMoves ==
  ASSUME GraphInv, NEW c \in Clients, NEW w \in WorkRecords, RowsFit(w),
         Works(c, w),
         known' \subseteq Entities, conf' \in [Entities -> Confidence], up' \in BOOLEAN,
         relations \subseteq relations',
         \A r \in relations' \ relations :
           r \in Relations /\ (r.inferred => r.conf >= 50 /\ Founded(r))
  PROVE  GraphInv'
  <1>1. relations' \subseteq Relations
    BY DEF GraphInv, TypeOK
  <1>2. work \in [Clients -> WorkRecords] /\ work' \in [Clients -> WorkRecords]
    BY DEF GraphInv, TypeOK, WorkRecords, Works
  <1>3. TypeOK'
    BY <1>1, <1>2 DEF TypeOK, WorkRecords
  <1>4. \A r \in relations' : r.inferred => r.conf >= 50 /\ Founded(r)
    BY DEF GraphInv
  <1>5. \A r \in relations' : r.inferred => r.conf >= 50 /\ Founded(r)'
    BY <1>4, FoundedStays
  <1>6. \A d \in Clients : RowsFit(work'[d])
    BY <1>2 DEF GraphInv, Works
  <1>7. \A d \in Clients : RowsFit(work[d])'
    BY <1>6, FoundedStays DEF RowsFit
  <1> QED
    BY <1>3, <1>5, <1>7 DEF GraphInv

\* What the remaining lemmas use of a client's work.
LEMMA WorkOf ==
  ASSUME GraphInv, NEW c \in Clients
  PROVE  work[c] \in WorkRecords /\ RowsFit(work[c]) /\ known \subseteq Entities
         /\ conf \in [Entities -> Confidence] /\ up \in BOOLEAN
  BY DEF GraphInv, TypeOK, WorkRecords

LEMMA ExtractKeeps ==
  ASSUME GraphInv, NEW c \in Clients, NEW x \in Extractions, Extract(c, x)
  PROVE  GraphInv'
  <1> DEFINE w == [Idle EXCEPT !.at = "extract", !.entities = x.entities, !.requests = x.relations]
  <1>1. x.entities \in SUBSET (Entities \X Confidence) /\ x.relations \in SUBSET Requests
    BY ExtractionsAssumption DEF ExtractionsAssumption, Extracted
  <1>2. w \in WorkRecords /\ w.at = "extract" /\ w.rows = {}
    BY <1>1 DEF WorkRecords, Idle, Steps
  <1>3. Works(c, w) /\ UNCHANGED <<known, conf, relations, up>>
    BY DEF Extract
  <1> HIDE DEF w
  <1>4. RowsFit(w)
    BY <1>2 DEF RowsFit
  <1> QED
    BY <1>2, <1>3, <1>4, ClientMoves, WorkOf

LEMMA StoreEntityKeeps ==
  ASSUME GraphInv, NEW c \in Clients, StoreEntity(c)
  PROVE  GraphInv'
  <1> USE WorkOf
  <1>1. PICK x \in work[c].entities :
          /\ Works(c, [work[c] EXCEPT !.entities = @ \ {x}])
          /\ MergeEntity(x[1], x[2]) \/ UNCHANGED <<known, conf>>
    BY DEF StoreEntity
  <1> DEFINE w == [work[c] EXCEPT !.entities = work[c].entities \ {x}]
  <1>2. x[1] \in Entities /\ x[2] \in Confidence
    BY DEF WorkRecords
  <1>3. known' \subseteq Entities /\ conf' \in [Entities -> Confidence]
    BY <1>1, <1>2 DEF MergeEntity
  <1>4. w \in WorkRecords /\ w.at = work[c].at /\ w.rows = work[c].rows
    BY DEF WorkRecords
  <1>5. Works(c, w) /\ UNCHANGED <<relations, up>>
    BY <1>1 DEF StoreEntity
  <1> HIDE DEF w
  <1>6. RowsFit(w)
    BY <1>4 DEF RowsFit
  <1> QED
    BY <1>3, <1>4, <1>5, <1>6, ClientMoves

LEMMA FindSourceKeeps ==
  ASSUME GraphInv, NEW c \in Clients, FindSource(c)
  PROVE  GraphInv'
  <1> USE WorkOf
  <1> DEFINE Row(r, e) == [from |-> e, to |-> r.to, type |-> r.type, conf |-> r.conf,
                           inferred |-> FALSE]
             Found(r) == {Row(r, e) : e \in Best(r.from)}
  <1>1. \E r \in work[c].requests : \E rows \in AtMostOne(Found(r)) :
          Works(c, [work[c] EXCEPT !.at = "target", !.requests = @ \ {r}, !.rows = rows])
    BY Zenon DEF FindSource
  <1>2. \A r \in Requests : \A q \in Found(r) : q \in Relations /\ ~q.inferred
    <2>1. ASSUME NEW r \in Requests, NEW e \in Best(r.from)
          PROVE  Row(r, e) \in Relations /\ ~Row(r, e).inferred
      BY BestIsKnown DEF Requests, Relations, GraphInv
    <2> HIDE DEF Row
    <2> QED
      BY <2>1
  <1> HIDE DEF Rows
  <1>3. PICK r \in work[c].requests :
          \E rows \in AtMostOne(Found(r)) :
            Works(c, [work[c] EXCEPT !.at = "target", !.requests = @ \ {r}, !.rows = rows])
    BY <1>1
  <1>4. PICK rows \in AtMostOne(Found(r)) :
          Works(c, [work[c] EXCEPT !.at = "target", !.requests = @ \ {r}, !.rows = rows])
    BY <1>3
  <1> DEFINE w == [work[c] EXCEPT !.at = "target", !.requests = work[c].requests \ {r},
                                  !.rows = rows]
  <1>5. rows \subseteq Relations /\ \A q \in rows : ~q.inferred
    BY <1>2 DEF AtMostOne, WorkRecords
  <1>6. w \in WorkRecords /\ w.at = "target" /\ w.rows = rows
    BY <1>5 DEF WorkRecords, Steps
  <1>7. Works(c, w) /\ UNCHANGED <<known, conf, relations, up>>
    BY <1>4 DEF FindSource
  <1> HIDE DEF w
  <1>8. RowsFit(w)
    BY <1>5, <1>6 DEF RowsFit
  <1> QED
    BY <1>6, <1>7, <1>8, ClientMoves

LEMMA FindTargetKeeps ==
  ASSUME GraphInv, NEW c \in Clients, FindTarget(c)
  PROVE  GraphInv'
  <1> USE WorkOf
  <1> DEFINE Found(r) == {[r EXCEPT !.to = e] : e \in Best(r.to)}
  <1>1. PICK rows \in AtMostOne(UNION {Found(r) : r \in work[c].rows}) :
          Works(c, [work[c] EXCEPT !.at = "relate", !.rows = rows])
    BY DEF FindTarget
  <1> DEFINE w == [work[c] EXCEPT !.at = "relate", !.rows = rows]
  <1>2. \A r \in work[c].rows : r \in Relations /\ ~r.inferred
    BY DEF WorkRecords, RowsFit, FindTarget
  <1>3. \A r \in work[c].rows : \A q \in Found(r) : q \in Relations /\ ~q.inferred
    BY <1>2, BestIsKnown DEF Relations, GraphInv
  <1> HIDE DEF Found
  <1>4. rows \subseteq Relations /\ \A q \in rows : ~q.inferred
    BY <1>3 DEF AtMostOne
  <1>5. w \in WorkRecords /\ w.at = "relate" /\ w.rows = rows
    BY <1>4 DEF WorkRecords, Steps
  <1>6. Works(c, w) /\ UNCHANGED <<known, conf, relations, up>>
    BY <1>1 DEF FindTarget
  <1> HIDE DEF w
  <1>7. RowsFit(w)
    BY <1>4, <1>5 DEF RowsFit
  <1> QED
    BY <1>5, <1>6, <1>7, ClientMoves

LEMMA RelateKeeps ==
  ASSUME GraphInv, NEW c \in Clients, Relate(c)
  PROVE  GraphInv'
  <1> USE WorkOf
  <1> DEFINE w == [work[c] EXCEPT !.at = "extract", !.rows = {}]
  <1>1. w \in WorkRecords /\ w.at = "extract" /\ w.rows = {}
    BY DEF WorkRecords, Steps
  <1>2. Works(c, w) /\ UNCHANGED <<known, conf, up>>
    BY DEF Relate
  <1>3. relations' \in {relations, relations \cup work[c].rows}
    BY DEF Relate
  <1>4. \A r \in relations' \ relations : r \in Relations /\ ~r.inferred
    BY <1>3 DEF Relate, RowsFit, WorkRecords
  <1> HIDE DEF w
  <1>5. RowsFit(w)
    BY <1>1 DEF RowsFit
  <1> QED
    BY <1>1, <1>2, <1>3, <1>4, <1>5, ClientMoves

\* The ends of an extraction and of an inference, whole or given up.
LEMMA EndsKeep ==
  ASSUME GraphInv, NEW c \in Clients, ExtractionEnds(c) \/ InferenceEnds(c) \/ InferenceFails(c)
  PROVE  GraphInv'
  <1>1. Works(c, Idle) /\ UNCHANGED <<known, conf, relations, up>>
    BY DEF ExtractionEnds, InferenceEnds, InferenceFails
  <1>2. RowsFit(Idle)
    BY DEF RowsFit, Idle
  <1> QED
    BY <1>1, <1>2, IdleRecord, ClientMoves, WorkOf

LEMMA StartInferenceKeeps ==
  ASSUME GraphInv, NEW c \in Clients, StartInference(c)
  PROVE  GraphInv'
  <1> USE WorkOf
  <1> DEFINE w == [work[c] EXCEPT !.at = "uses"]
  <1>1. w \in WorkRecords /\ w.at = "uses" /\ w.rows = {}
    BY DEF WorkRecords, Steps, StartInference, RowsFit
  <1>2. Works(c, w) /\ UNCHANGED <<known, conf, relations, up>>
    BY DEF StartInference
  <1> HIDE DEF w
  <1>3. RowsFit(w)
    BY <1>1 DEF RowsFit
  <1> QED
    BY <1>1, <1>2, <1>3, ClientMoves

LEMMA InferKeeps ==
  ASSUME GraphInv, NEW c \in Clients, InferUses(c) \/ InferPartOf(c)
  PROVE  GraphInv'
  <1> USE WorkOf
  <1>1. PICK t \in Types, next \in {"part_of", "store"} : Infer(c, t, next)
    BY DEF InferUses, InferPartOf, Types
  <1>2. PICK S \in SUBSET Chains(t) :
          Works(c, [work[c] EXCEPT !.at = next, !.rows = @ \cup {Inference(p) : p \in S}])
    BY <1>1 DEF Infer
  <1> DEFINE drawn == {Inference(p) : p \in S}
             w == [work[c] EXCEPT !.at = next, !.rows = work[c].rows \cup drawn]
  <1>3. \A r \in drawn : r \in Relations /\ Founded(r)
    BY ChainsAreFounded
  <1>4. \A r \in work[c].rows : r \in Relations /\ Founded(r)
    BY DEF InferUses, InferPartOf, RowsFit, WorkRecords
  <1>5. Works(c, w) /\ UNCHANGED <<known, conf, relations, up>>
    BY <1>1, <1>2 DEF Infer
  <1> HIDE DEF drawn
  <1>6. w \in WorkRecords /\ w.at = next /\ w.rows = work[c].rows \cup drawn
    BY <1>3, <1>4 DEF WorkRecords, Steps
  <1> HIDE DEF w
  <1>7. RowsFit(w)
    BY <1>3, <1>4, <1>6 DEF RowsFit
  <1> QED
    BY <1>5, <1>6, <1>7, ClientMoves

LEMMA StoreInferredKeeps ==
  ASSUME GraphInv, NEW c \in Clients, StoreInferred(c)
  PROVE  GraphInv'
  <1> USE WorkOf
  <1>1. PICK r \in work[c].rows :
          /\ Works(c, [work[c] EXCEPT !.rows = @ \ {r}])
          /\ relations' = IF Likely(r) THEN relations \cup {r} ELSE relations
    BY DEF StoreInferred
  <1> DEFINE w == [work[c] EXCEPT !.rows = work[c].rows \ {r}]
  <1>2. r \in Relations /\ Founded(r)
    BY DEF StoreInferred, RowsFit, WorkRecords
  <1>3. w \in WorkRecords /\ w.at = "store" /\ w.rows \subseteq work[c].rows
    BY DEF WorkRecords, StoreInferred
  <1>4. Works(c, w) /\ UNCHANGED <<known, conf, up>>
    BY <1>1 DEF StoreInferred
  <1> HIDE DEF w
  <1>5. RowsFit(w)
    BY <1>3 DEF RowsFit, StoreInferred
  <1>6. relations \subseteq relations'
        /\ \A q \in relations' \ relations : q = r /\ Likely(r)
    BY <1>1
  <1> QED
    BY <1>2, <1>3, <1>4, <1>5, <1>6, ClientMoves DEF Likely

-----------------------------------------------------------------------------
(* KnowledgeGraph: the inductive invariant *)

LEMMA InitGraphInv == Init => GraphInv
  BY IdleRecord DEF Init, GraphInv, TypeOK, RowsFit, Idle, Steps, Confidence

LEMMA UnchangedGraph ==
  ASSUME UNCHANGED relations
  PROVE  \A r : Founded(r) => Founded(r)'
  BY FoundedStays

LEMMA NextGraphInv == GraphInv /\ [Next]_vars => GraphInv'
  <1> SUFFICES ASSUME GraphInv, [Next]_vars
               PROVE  GraphInv'
    OBVIOUS
  <1>1. ASSUME NEW c \in Clients, NEW x \in Extractions, Extract(c, x)
        PROVE  GraphInv'
    BY <1>1, ExtractKeeps
  <1>2. ASSUME NEW c \in Clients, Extraction(c)
        PROVE  GraphInv'
    BY <1>2, StoreEntityKeeps, FindSourceKeeps, FindTargetKeeps, RelateKeeps, EndsKeep
       DEF Extraction
  <1>3. ASSUME NEW c \in Consolidators, StartInference(c) \/ Inferring(c) \/ InferenceFails(c)
        PROVE  GraphInv'
    <2>1. c \in Clients
      BY DEF Clients
    <2> QED
      BY <1>3, <2>1, StartInferenceKeeps, InferKeeps, StoreInferredKeeps, EndsKeep DEF Inferring
  <1>4. CASE Neo4j
    BY <1>4, UnchangedGraph DEF Neo4j, GraphInv, TypeOK, RowsFit
  <1>5. CASE UNCHANGED vars
    BY <1>5, UnchangedGraph DEF vars, GraphInv, TypeOK, RowsFit
  <1> QED
    BY <1>1, <1>2, <1>3, <1>4, <1>5 DEF Next

LEMMA GraphInvAlways == Spec => []GraphInv
  BY InitGraphInv, NextGraphInv, PTL DEF Spec

-----------------------------------------------------------------------------
(* KnowledgeGraph: theorems *)

\* Entities, relations and what every client carries keep their types, through all
\* interleavings of extractions and inferences, whatever numbers the model gives.
THEOREM GraphTypes == Spec => []TypeOK
  <1>1. GraphInv => TypeOK
    BY DEF GraphInv
  <1> QED
    BY <1>1, GraphInvAlways, PTL

\* Inferred relations lead where extracted ones lead; while extracted confidences
\* stay between 0 and 1, each rests on two extracted ones and is less certain than
\* either (infer_transitive_relations, with consolidate's threshold).
THEOREM ConclusionsRest == Spec => []RestsOnExtracted
  <1>1. GraphInv => RestsOnExtracted
    BY DEF GraphInv, Founded, RestsOnExtracted
  <1> QED
    BY <1>1, GraphInvAlways, PTL

\* Whatever extractions run at once, an entity stays and is known no less surely
\* (create_entity), and no relation is taken back.
THEOREM GrowsOnly == Spec => GraphOnlyGrows
  <1>1. GraphInv /\ [Next]_vars =>
          [/\ known \subseteq known'
           /\ \A e \in known : conf[e] <= conf'[e]
           /\ relations \subseteq relations']_vars
    <2> SUFFICES ASSUME GraphInv, Next
                 PROVE  /\ known \subseteq known'
                        /\ \A e \in known : conf[e] <= conf'[e]
                        /\ relations \subseteq relations'
      OBVIOUS
    <2>1. known \subseteq Entities /\ conf \in [Entities -> Int]
      BY DEF GraphInv, TypeOK, Confidence
    <2>2. ASSUME NEW c \in Clients, StoreEntity(c)
          PROVE  /\ known \subseteq known'
                 /\ \A e \in known : conf[e] <= conf'[e]
                 /\ relations' = relations
      <3>1. PICK x \in work[c].entities : MergeEntity(x[1], x[2]) \/ UNCHANGED <<known, conf>>
        BY <2>2 DEF StoreEntity
      <3>2. x[2] \in Int
        BY <2>2, WorkOf DEF WorkRecords, Confidence
      <3> QED
        BY <2>1, <2>2, <3>1, <3>2 DEF MergeEntity, StoreEntity
    <2>3. ASSUME NEW c \in Clients, ~StoreEntity(c),
                 Extraction(c) \/ Inferring(c) \/ StartInference(c) \/ InferenceFails(c)
          PROVE  UNCHANGED <<known, conf>> /\ relations \subseteq relations'
      BY <2>3 DEF Extraction, Inferring, StartInference, InferenceFails, FindSource, FindTarget,
                  Relate, ExtractionEnds, InferUses, InferPartOf, Infer, StoreInferred, InferenceEnds
    <2>4. ASSUME NEW c \in Clients, NEW x \in Extractions, Extract(c, x)
          PROVE  UNCHANGED <<known, conf, relations>>
      BY <2>4 DEF Extract
    <2>5. CASE Neo4j
      BY <2>1, <2>5 DEF Neo4j
    <2> QED
      BY <2>1, <2>2, <2>3, <2>4, <2>5 DEF Next, Clients
  <1> QED
    BY <1>1, GraphInvAlways, PTL DEF Spec, GraphOnlyGrows

-----------------------------------------------------------------------------
(* MemoryAccess: recursion over a sequence *)

\* What holds of 0 and goes on to the next number holds up to N.
LEMMA Upwards ==
  ASSUME NEW N \in Nat, NEW X, 0 \in X, \A n \in 1..N : n - 1 \in X => n \in X
  PROVE  \A n \in 0..N : n \in X
  <1> DEFINE Less == {ss \in Nat \X Nat : ss[1] < ss[2]}
             Bad == {n \in 0..N : n \notin X}
  <1>1. IsWellFoundedOn(Less, Nat)
    BY NatLessThanWellFounded DEF OpToRel
  <1> HIDE DEF Less
  <1>2. ASSUME Bad # {}
        PROVE  FALSE
    <2>1. Bad \in SUBSET Nat
      OBVIOUS
    <2> HIDE DEF Bad
    <2>2. PICK n \in Bad : \A k \in Bad : ~ (<<k, n>> \in Less)
      BY <1>1, <1>2, <2>1, WFMin
    <2>3. n \in 0..N /\ n \notin X /\ n # 0
      BY DEF Bad
    <2>4. n \in 1..N /\ n - 1 \in 0..N /\ n - 1 < n /\ n - 1 \in Nat /\ n \in Nat
      BY <2>3
    <2>5. n - 1 \in Bad
      BY <2>3, <2>4 DEF Bad
    <2> QED
      BY <2>2, <2>4, <2>5 DEF Less
  <1> QED
    BY <1>2

\* What get_by_layer finds in the first rows.
FoundUpTo(l) ==
  CHOOSE f : f = [i \in 0..created |->
    IF i = 0 THEN <<>>
    ELSE IF i \in stored /\ row[i].layer = l
         THEN <<[text |-> row[i].text, layer |-> l, tagged |-> row[i].tagged]>> \o f[i - 1]
         ELSE f[i - 1]]

LEMMA FoundUpToIs ==
  ASSUME NEW l, created \in Nat
  PROVE  FoundUpTo(l) = [i \in 0..created |->
           IF i = 0 THEN <<>>
           ELSE IF i \in stored /\ row[i].layer = l
                THEN <<[text |-> row[i].text, layer |-> l, tagged |-> row[i].tagged]>> \o FoundUpTo(l)[i - 1]
                ELSE FoundUpTo(l)[i - 1]]
  <1> DEFINE More(i, h) ==
               IF i \in stored /\ row[i].layer = l
               THEN <<[text |-> row[i].text, layer |-> l, tagged |-> row[i].tagged]>> \o h
               ELSE h
             IsUpTo(f, k) == f = [i \in 0..k |-> IF i = 0 THEN <<>> ELSE More(i, f[i - 1])]
             X == {k \in 0..created : \E f : IsUpTo(f, k)}
  <1>1. FoundUpTo(l) = CHOOSE f : IsUpTo(f, created)
    BY DEF FoundUpTo
  <1> HIDE DEF More
  <1>2. 0 \in X
    <2>1. \E f : IsUpTo(f, 0)
      <3>1. IsUpTo([i \in 0..0 |-> <<>>], 0)
        OBVIOUS
      <3> HIDE DEF IsUpTo
      <3> QED
        BY <3>1
    <2> HIDE DEF IsUpTo
    <2> QED
      BY <2>1
  <1>3. ASSUME NEW k \in 1..created, k - 1 \in X
        PROVE  k \in X
    <2>1. PICK g : IsUpTo(g, k - 1)
      BY <1>3
    <2> DEFINE f == [i \in 0..k |-> IF i = k THEN More(k, g[k - 1]) ELSE g[i]]
    <2>2. ASSUME NEW i \in 0..k
          PROVE  f[i] = IF i = 0 THEN <<>> ELSE More(i, f[i - 1])
      <3>1. CASE i = k
        BY <3>1
      <3>2. CASE i # k
        <4>1. i \in 0..(k - 1) /\ (i # 0 => i - 1 \in 0..(k - 1))
          BY <3>2
        <4>2. g[i] = IF i = 0 THEN <<>> ELSE More(i, g[i - 1])
          BY <2>1, <4>1
        <4>3. i # 0 => f[i - 1] = g[i - 1]
          BY <4>1
        <4> QED
          BY <3>2, <4>2, <4>3
      <3> QED
        BY <3>1, <3>2
    <2>3. IsUpTo(f, k)
      BY <2>2
    <2> HIDE DEF f, IsUpTo
    <2>4. k \in 0..created
      OBVIOUS
    <2> QED
      BY <2>3, <2>4
  <1> HIDE DEF X
  <1>4. created \in X
    BY <1>2, <1>3, Upwards
  <1>5. IsUpTo(FoundUpTo(l), created)
    BY <1>1, <1>4 DEF X
  <1> QED
    BY <1>5 DEF More

\* An export holds records.
LEMMA NewestAreRecords ==
  ASSUME NEW l \in Range(Layers), created \in Nat, row \in [1..created -> Rows], Quota \in Nat
  PROVE  Newest(l) \in Seq(Records)
  <1> DEFINE f == FoundUpTo(l)
             X == {k \in 0..created : f[k] \in Seq(Records)}
  <1>1. f = [i \in 0..created |->
               IF i = 0 THEN <<>>
               ELSE IF i \in stored /\ row[i].layer = l
                    THEN <<[text |-> row[i].text, layer |-> l, tagged |-> row[i].tagged]>> \o f[i - 1]
                    ELSE f[i - 1]]
    BY FoundUpToIs
  <1>2. Newest(l) = SubSeq(f[created], 1, IF Len(f[created]) <= Quota THEN Len(f[created]) ELSE Quota)
    BY DEF Newest, FoundUpTo
  <1> HIDE DEF f
  <1>3. 0 \in X
    <2>1. 0 \in 0..created
      OBVIOUS
    <2>2. f[0] = <<>>
      BY <1>1, <2>1
    <2>3. f[0] \in Seq(Records)
      BY <2>2
    <2> QED
      BY <2>1, <2>3
  <1>4. ASSUME NEW k \in 1..created, k - 1 \in X
        PROVE  k \in X
    <2>1. k \in 0..created /\ k # 0 /\ f[k - 1] \in Seq(Records)
      BY <1>4
    <2>2. f[k] = IF k \in stored /\ row[k].layer = l
                 THEN <<[text |-> row[k].text, layer |-> l, tagged |-> row[k].tagged]>> \o f[k - 1]
                 ELSE f[k - 1]
      BY <1>1, <2>1
    <2>3. [text |-> row[k].text, layer |-> l, tagged |-> row[k].tagged] \in Records
      <3>1. row[k] \in Rows
        OBVIOUS
      <3> QED
        BY <3>1 DEF Rows, Records
    <2>4. f[k] \in Seq(Records)
      BY <2>1, <2>2, <2>3
    <2> QED
      BY <2>1, <2>4
  <1> HIDE DEF X
  <1>5. created \in X
    BY <1>3, <1>4, Upwards
  <1>6. f[created] \in Seq(Records)
    BY <1>5 DEF X
  <1> DEFINE n == IF Len(f[created]) <= Quota THEN Len(f[created]) ELSE Quota
  <1>7. n \in 0..Len(f[created])
    BY <1>6
  <1> HIDE DEF n
  <1>8. SubSeq(f[created], 1, n) \in Seq(Records)
    BY <1>6, <1>7
  <1> QED
    BY <1>2, <1>8 DEF n

\* What the first rows of a Markdown file are read back as.
CutUpTo(rows) ==
  CHOOSE f : f = [n \in 0..Len(rows) |->
    IF n = 0 THEN <<>>
    ELSE f[n - 1] \o [k \in 1..Len(Pieces[rows[n].text]) |-> Plain(Pieces[rows[n].text][k])]]

LEMMA CutUpToIs ==
  ASSUME NEW rows, Len(rows) \in Nat
  PROVE  CutUpTo(rows) = [n \in 0..Len(rows) |->
           IF n = 0 THEN <<>>
           ELSE CutUpTo(rows)[n - 1] \o
                  [k \in 1..Len(Pieces[rows[n].text]) |-> Plain(Pieces[rows[n].text][k])]]
  <1> DEFINE More(n, h) ==
               h \o [k \in 1..Len(Pieces[rows[n].text]) |-> Plain(Pieces[rows[n].text][k])]
             IsUpTo(f, m) == f = [n \in 0..m |-> IF n = 0 THEN <<>> ELSE More(n, f[n - 1])]
             X == {m \in 0..Len(rows) : \E f : IsUpTo(f, m)}
  <1>1. CutUpTo(rows) = CHOOSE f : IsUpTo(f, Len(rows))
    BY DEF CutUpTo
  <1> HIDE DEF More
  <1>2. 0 \in X
    <2>1. \E f : IsUpTo(f, 0)
      <3>1. IsUpTo([n \in 0..0 |-> <<>>], 0)
        OBVIOUS
      <3> HIDE DEF IsUpTo
      <3> QED
        BY <3>1
    <2> HIDE DEF IsUpTo
    <2> QED
      BY <2>1
  <1>3. ASSUME NEW m \in 1..Len(rows), m - 1 \in X
        PROVE  m \in X
    <2>1. PICK g : IsUpTo(g, m - 1)
      BY <1>3
    <2> DEFINE f == [n \in 0..m |-> IF n = m THEN More(m, g[m - 1]) ELSE g[n]]
    <2>2. ASSUME NEW n \in 0..m
          PROVE  f[n] = IF n = 0 THEN <<>> ELSE More(n, f[n - 1])
      <3>1. CASE n = m
        BY <3>1
      <3>2. CASE n # m
        <4>1. n \in 0..(m - 1) /\ (n # 0 => n - 1 \in 0..(m - 1))
          BY <3>2
        <4>2. g[n] = IF n = 0 THEN <<>> ELSE More(n, g[n - 1])
          BY <2>1, <4>1
        <4>3. n # 0 => f[n - 1] = g[n - 1]
          BY <4>1
        <4> QED
          BY <3>2, <4>2, <4>3
      <3> QED
        BY <3>1, <3>2
    <2>3. IsUpTo(f, m)
      BY <2>2
    <2> HIDE DEF f, IsUpTo
    <2>4. m \in 0..Len(rows)
      OBVIOUS
    <2> QED
      BY <2>3, <2>4
  <1> HIDE DEF X
  <1>4. Len(rows) \in X
    <2>1. \A m \in 0..Len(rows) : m \in X
      BY <1>2, <1>3, Upwards
    <2> QED
      BY <2>1
  <1>5. IsUpTo(CutUpTo(rows), Len(rows))
    BY <1>1, <1>4 DEF X
  <1> QED
    BY <1>5 DEF More

\* The records among the first n of list that have the text t.
Of(list, n, t) == {i \in 1..n : list[i].text = t}

LEMMA OfIsFinite ==
  ASSUME NEW list, NEW n \in Nat, NEW t
  PROVE  IsFiniteSet(Of(list, n, t)) /\ Cardinality(Of(list, n, t)) \in Nat
  <1> DEFINE S == Of(list, n, t)
  <1>1. IsFiniteSet(1..n) /\ S \in SUBSET (1..n)
    BY FS_Interval DEF Of
  <1> HIDE DEF S
  <1>2. IsFiniteSet(S)
    BY <1>1, FS_Subset
  <1>3. Cardinality(S) \in Nat
    BY <1>2, FS_CardinalityType
  <1> QED
    BY <1>2, <1>3 DEF S

\* A Markdown file is read back as records, and has a record for each that was written
\* of a text that does not look like anything else.
LEMMA CutKeeps ==
  ASSUME NEW rows \in Seq(Records)
  PROVE  /\ Cut(rows) \in Seq(Records)
         /\ \A t \in Texts : Pieces[t] = <<t>> =>
              Cardinality(Of(rows, Len(rows), t)) <= Cardinality(Of(Cut(rows), Len(Cut(rows)), t))
  <1> DEFINE f == CutUpTo(rows)
             Kept(m) ==
               \A t \in Texts : Pieces[t] = <<t>> =>
                 Cardinality(Of(rows, m, t)) <= Cardinality(Of(f[m], Len(f[m]), t))
             X == {m \in 0..Len(rows) : f[m] \in Seq(Records) /\ Kept(m)}
  <1>0. Len(rows) \in Nat
    OBVIOUS
  <1>1. f = [n \in 0..Len(rows) |->
               IF n = 0 THEN <<>>
               ELSE f[n - 1] \o [k \in 1..Len(Pieces[rows[n].text]) |-> Plain(Pieces[rows[n].text][k])]]
    BY <1>0, CutUpToIs
  <1>2. Cut(rows) = f[Len(rows)]
    BY DEF Cut, CutUpTo
  <1> HIDE DEF f
  <1>3. 0 \in X
    <2>1. 0 \in 0..Len(rows)
      OBVIOUS
    <2>2. f[0] = <<>>
      BY <1>1, <2>1
    <2>3. \A t : Of(rows, 0, t) = {} /\ Of(<<>>, 0, t) = {}
      BY DEF Of
    <2>4. Kept(0)
      <3>1. Len(f[0]) = 0
        BY <2>2
      <3>2. \A t : Of(rows, 0, t) = {} /\ Of(f[0], Len(f[0]), t) = {}
        BY <2>2, <2>3, <3>1
      <3>3. Cardinality({}) <= Cardinality({})
        BY FS_EmptySet
      <3> QED
        BY <3>2, <3>3
    <2>5. f[0] \in Seq(Records)
      BY <2>2
    <2> HIDE DEF Kept
    <2> QED
      BY <2>1, <2>4, <2>5
  <1>4. ASSUME NEW m \in 1..Len(rows), m - 1 \in X
        PROVE  m \in X
    <2> DEFINE h == f[m - 1]
               r == rows[m]
               p == [k \in 1..Len(Pieces[r.text]) |-> Plain(Pieces[r.text][k])]
    <2>0. h \in Seq(Records) /\ Kept(m - 1)
      <3> HIDE DEF Kept
      <3> QED
        BY <1>4
    <2>1. m \in 0..Len(rows) /\ m # 0 /\ m - 1 \in Nat /\ m = (m - 1) + 1 /\ m \in Nat
          /\ h \in Seq(Records)
      BY <2>0
    <2>2. f[m] = h \o p
      <3> HIDE DEF Kept
      <3> QED
        BY <1>1, <2>1
    <2>3. r \in Records /\ r.text \in Texts
      <3> HIDE DEF Kept
      <3>1. r \in Records
        BY <2>1
      <3> HIDE DEF r
      <3> QED
        BY <3>1 DEF Records
    <2>4. Pieces[r.text] \in Seq(Texts)
      BY <2>3, PiecesAssumption DEF PiecesAssumption
    <2>5. p \in Seq(Records) /\ Len(p) = Len(Pieces[r.text])
      <3>1. \A t \in Texts : Plain(t) \in Records
        BY DEF Plain, Records, Layers, Range
      <3>2. Len(Pieces[r.text]) \in Nat
            /\ \A k \in 1..Len(Pieces[r.text]) : Pieces[r.text][k] \in Texts
        BY <2>4
      <3> QED
        BY <3>1, <3>2
    <2> HIDE DEF h, r
    <2>6. /\ h \o p \in Seq(Records) /\ Len(h) \in Nat /\ Len(p) \in Nat
          /\ Len(h \o p) = Len(h) + Len(p)
          /\ \A i \in 1..Len(h) : (h \o p)[i] = h[i]
          /\ Len(p) = 1 => (h \o p)[Len(h) + 1] = p[1]
      <3> HIDE DEF p, Kept
      <3>1. h \in Seq(Records) /\ p \in Seq(Records)
        BY <2>1, <2>5
      <3>2. Len(h) \in Nat /\ Len(p) \in Nat
        BY <3>1
      <3>3. /\ h \o p \in Seq(Records)
            /\ Len(h \o p) = Len(h) + Len(p)
            /\ \A i \in 1 .. Len(h) + Len(p) :
                 (h \o p)[i] = IF i <= Len(h) THEN h[i] ELSE p[i - Len(h)]
        BY <3>1, ConcatProperties
      <3>4. \A i \in 1..Len(h) : (h \o p)[i] = h[i]
        BY <3>2, <3>3
      <3>5. ASSUME Len(p) = 1
            PROVE  (h \o p)[Len(h) + 1] = p[1]
        BY <3>2, <3>3, <3>5
      <3> QED
        BY <3>2, <3>3, <3>4, <3>5
    <2>7. ASSUME NEW t \in Texts, Pieces[t] = <<t>>
          PROVE  Cardinality(Of(rows, m, t)) <= Cardinality(Of(h \o p, Len(h \o p), t))
      <3> DEFINE A == Of(rows, m - 1, t)
                 B == Of(h, Len(h), t)
                 C == Of(h \o p, Len(h \o p), t)
      <3>1. Cardinality(A) <= Cardinality(B)
        BY <2>0, <2>7 DEF h
      <3>2. /\ IsFiniteSet(A) /\ Cardinality(A) \in Nat
            /\ IsFiniteSet(B) /\ Cardinality(B) \in Nat
            /\ IsFiniteSet(C) /\ Cardinality(C) \in Nat
        BY <2>1, <2>6, OfIsFinite
      <3>3. B \subseteq C
        BY <2>6 DEF Of
      <3>4. Of(rows, m, t) = IF r.text = t THEN A \cup {m} ELSE A
        BY <2>1 DEF Of, r
      <3>5. r.text = t => Len(h) + 1 \in C /\ Len(h) + 1 \notin B
        <4>1. ASSUME r.text = t
              PROVE  Len(h) + 1 \in C /\ Len(h) + 1 \notin B
          <5>1. Len(p) = 1 /\ p[1] = Plain(t)
            <6>1. Pieces[r.text] = <<t>>
              BY <2>7, <4>1
            <6>2. Len(Pieces[r.text]) = 1 /\ Pieces[r.text][1] = t
              BY <6>1
            <6> QED
              BY <2>5, <6>2
          <5> HIDE DEF p
          <5>2. (h \o p)[Len(h) + 1].text = t
            BY <2>6, <5>1 DEF Plain
          <5> QED
            BY <2>6, <5>1, <5>2 DEF Of
        <4> QED
          BY <4>1
      <3>6. m \notin A
        BY <2>1 DEF Of
      <3> HIDE DEF A, B, C
      <3>7. CASE r.text = t
        <4>1. Cardinality(A \cup {m}) = Cardinality(A) + 1
          BY <3>2, <3>6, FS_AddElement
        <4>2. /\ IsFiniteSet(B \cup {Len(h) + 1})
              /\ Cardinality(B \cup {Len(h) + 1}) = Cardinality(B) + 1
          BY <3>2, <3>5, <3>7, FS_AddElement
        <4>3. Cardinality(B \cup {Len(h) + 1}) <= Cardinality(C)
          <5>1. B \cup {Len(h) + 1} \in SUBSET C
            BY <3>3, <3>5, <3>7
          <5> QED
            BY <3>2, <5>1, FS_Subset
        <4> QED
          BY <3>1, <3>2, <3>4, <3>7, <4>1, <4>2, <4>3 DEF C
      <3>8. CASE r.text # t
        <4>1. Cardinality(B) <= Cardinality(C)
          BY <3>2, <3>3, FS_Subset
        <4> QED
          BY <3>1, <3>2, <3>4, <3>8, <4>1 DEF C
      <3> QED
        BY <3>7, <3>8
    <2>8. Kept(m)
      BY <2>2, <2>7
    <2> HIDE DEF Kept, p
    <2> QED
      BY <2>1, <2>2, <2>6, <2>8
  <1> HIDE DEF X, Kept
  <1>5. Len(rows) \in X
    <2>1. \A m \in 0..Len(rows) : m \in X
      BY <1>0, <1>3, <1>4, Upwards
    <2> QED
      BY <1>0, <2>1
  <1> QED
    BY <1>2, <1>5 DEF X, Kept

-----------------------------------------------------------------------------
(* MemoryAccess: what is recorded of calls *)

Imports ==
  [on : BOOLEAN, queue : Seq(Records), imported : Nat, failed : Nat, brought : SUBSET Nat]

Typed ==
  /\ created \in Nat /\ created <= MaxRows
  /\ row \in Seq(Rows) /\ Len(row) = created
  /\ stored \cup forgotten = 1..created
  /\ call \in [Sources -> Calls \cup {NoCall}]
  /\ calls \in Nat /\ calls <= MaxCalls
  /\ errors \in [Users -> Nat] /\ told \in [Users -> Nat]
  /\ file \in [rows : Seq(Records), markdown : BOOLEAN, suffix : Suffixes]
  /\ import \in Imports /\ import.brought \subseteq 1..created

\* A call belongs to its caller, and so does the row it has saved.
CallFits(c) ==
  call[c].at # "idle" =>
    /\ c \in Users => call[c].text = TextOf[c] /\ told[c] = 0 /\ errors[c] + 1 <= calls
    /\ c = "import" => import.on
    /\ call[c].at \in {"tag", "graph"} =>
         /\ call[c].id \in 1..created
         /\ row[call[c].id].text = call[c].text /\ row[call[c].id].source = c

UserFits(u) ==
  /\ errors[u] <= calls
  /\ told[u] # 0 => told[u] \in 1..created /\ row[told[u]].text = TextOf[u]

Recorded ==
  /\ Typed
  /\ \A c \in Sources : CallFits(c)
  /\ \A u \in Users : UserFits(u)

\* Rows that were there keep their text, source and layer.
RowsStay ==
  /\ created' \in Nat /\ created <= created' /\ created' <= MaxRows
  /\ row' \in Seq(Rows) /\ Len(row') = created'
  /\ \A i \in 1..created :
       row'[i].text = row[i].text /\ row'[i].source = row[i].source /\ row'[i].layer = row[i].layer

LEMMA InitRecorded == AccessInit => Recorded
  <1> SUFFICES ASSUME AccessInit
               PROVE  Recorded
    OBVIOUS
  <1>1. /\ created = 0 /\ row = <<>> /\ stored = {} /\ forgotten = {} /\ calls = 0
        /\ call = [c \in Sources |-> NoCall]
        /\ errors = [u \in Users |-> 0] /\ told = [u \in Users |-> 0]
        /\ file = [rows |-> <<>>, markdown |-> FALSE, suffix |-> "json"] /\ import = NoImport
    BY DEF AccessInit
  <1>2. 0 <= MaxRows /\ 0 <= MaxCalls
    BY BoundsAssumption DEF BoundsAssumption
  <1>3. import \in Imports /\ import.brought = {}
    BY <1>1 DEF NoImport, Imports
  <1>4. Typed
    BY <1>1, <1>2, <1>3 DEF Typed, Suffixes
  <1>5. \A c \in Sources : call[c].at = "idle"
    BY <1>1 DEF NoCall
  <1>6. \A u \in Users : told[u] = 0 /\ errors[u] = 0
    BY <1>1
  <1> QED
    BY <1>1, <1>4, <1>5, <1>6 DEF Recorded, CallFits, UserFits

\* The call of a caller that is not idle.
LEMMA CallIs ==
  ASSUME Typed, NEW c \in Sources, call[c].at # "idle"
  PROVE  /\ call[c] \in Calls /\ call[c].at \in {"prepare", "tag", "graph"}
         /\ call[c].id \in 0..MaxRows /\ call[c].text \in Texts
         /\ call[c].layer \in Range(Layers) /\ call[c].tagged \in BOOLEAN
  <1>1. call[c] \in Calls
    BY DEF Typed, NoCall
  <1> QED
    BY <1>1 DEF Calls

\* A step in which only the call of c moves, and nothing is told.
LEMMA CallMoves ==
  ASSUME Recorded, RowsStay, NEW c \in Sources, NEW new \in Calls,
         stored' \cup forgotten' = 1..created',
         call' = [call EXCEPT ![c] = new],
         calls' \in Nat, calls <= calls', calls' <= MaxCalls,
         UNCHANGED <<errors, told, file>>,
         import' \in Imports, import'.on = import.on, import'.brought \subseteq 1..created',
         c \in Users => new.text = TextOf[c] /\ told[c] = 0 /\ errors[c] + 1 <= calls',
         c = "import" => import.on,
         new.at \in {"tag", "graph"} =>
           /\ new.id \in 1..created'
           /\ row'[new.id].text = new.text /\ row'[new.id].source = c
  PROVE  Recorded'
  <1>1. /\ created \in Nat /\ created' \in Nat /\ created <= created'
        /\ call \in [Sources -> Calls \cup {NoCall}]
        /\ errors \in [Users -> Nat] /\ calls \in Nat
    BY DEF Recorded, Typed, RowsStay
  <1>2. call' \in [Sources -> Calls \cup {NoCall}] /\ call'[c] = new
        /\ \A d \in Sources : d # c => call'[d] = call[d]
    BY <1>1
  <1>3. Typed'
    BY <1>1, <1>2 DEF Recorded, Typed, RowsStay
  <1>4. \A i \in 1..created : i \in 1..created'
    BY <1>1
  <1>5. CallFits(c)'
    BY <1>2 DEF CallFits
  <1>6. ASSUME NEW d \in Sources, d # c
        PROVE  CallFits(d)'
    <2>1. CallFits(d) /\ call'[d] = call[d]
      BY <1>2, <1>6 DEF Recorded
    <2>2. d \in Users => errors[d] \in Nat
      BY <1>1
    <2> QED
      BY <1>1, <1>4, <2>1, <2>2 DEF CallFits, RowsStay
  <1>7. ASSUME NEW u \in Users
        PROVE  UserFits(u)'
    <2>1. UserFits(u) /\ errors[u] \in Nat
      BY <1>1 DEF Recorded
    <2> QED
      BY <1>1, <1>4, <2>1 DEF UserFits, RowsStay
  <1> QED
    BY <1>3, <1>5, <1>6, <1>7 DEF Recorded

\* A step in which the call of c ends.
LEMMA CallEnds ==
  ASSUME Recorded, NEW c \in Sources, call[c].at # "idle",
         call' = [call EXCEPT ![c] = NoCall],
         UNCHANGED <<created, row, stored, forgotten, calls, file>>,
         import' \in Imports, import'.brought = import.brought,
         c \in Users => import' = import,
         \/ told' = told /\ errors' = errors
         \/ c \in Users /\ told' = told /\ errors' = [errors EXCEPT ![c] = errors[c] + 1]
         \/ c \in Users /\ errors' = errors /\ told' = [told EXCEPT ![c] = call[c].id]
            /\ call[c].at \in {"tag", "graph"}
  PROVE  Recorded'
  <1>1. /\ created \in Nat /\ calls \in Nat
        /\ call \in [Sources -> Calls \cup {NoCall}]
        /\ errors \in [Users -> Nat] /\ told \in [Users -> Nat]
        /\ CallFits(c)
    BY DEF Recorded, Typed
  <1>2. call' \in [Sources -> Calls \cup {NoCall}] /\ call'[c].at = "idle"
        /\ \A d \in Sources : d # c => call'[d] = call[d]
    BY <1>1 DEF NoCall
  <1>3. call[c].at \in {"tag", "graph"} => call[c].id \in 1..created /\ call[c].id \in Nat
    BY <1>1 DEF CallFits
  <1>4. /\ errors' \in [Users -> Nat] /\ told' \in [Users -> Nat]
        /\ \A u \in Users : u # c => errors'[u] = errors[u] /\ told'[u] = told[u]
    BY <1>1, <1>3
  <1>5. Typed'
    BY <1>2, <1>4 DEF Recorded, Typed
  <1>6. CallFits(c)'
    BY <1>2 DEF CallFits
  <1>7. ASSUME NEW d \in Sources, d # c
        PROVE  CallFits(d)'
    <2>1. CallFits(d) /\ call'[d] = call[d]
      BY <1>2, <1>7 DEF Recorded
    <2>2. d \in Users => errors'[d] = errors[d] /\ told'[d] = told[d]
      BY <1>4, <1>7
    <2>3. d = "import" => import' = import
      BY <1>7 DEF Sources
    <2> QED
      BY <2>1, <2>2, <2>3 DEF CallFits
  <1>8. ASSUME NEW u \in Users
        PROVE  UserFits(u)'
    <2>1. UserFits(u)
      BY DEF Recorded
    <2>2. CASE u # c
      BY <1>4, <2>1, <2>2 DEF UserFits
    <2>3. CASE u = c
      <3>1. call[c].text = TextOf[c] /\ errors[c] + 1 <= calls
        BY <1>1, <2>3 DEF CallFits
      <3>2. /\ errors'[c] = errors[c] \/ errors'[c] = errors[c] + 1
            /\ \/ told'[c] = told[c]
               \/ told'[c] = call[c].id /\ call[c].at \in {"tag", "graph"}
        BY <1>1, <2>3
      <3>3. call[c].at \in {"tag", "graph"} => row[call[c].id].text = TextOf[c]
        BY <1>1, <3>1 DEF CallFits
      <3>4. errors[c] \in Nat
        BY <1>1, <2>3
      <3> QED
        BY <1>1, <1>3, <2>1, <2>3, <3>1, <3>2, <3>3, <3>4 DEF UserFits
    <2> QED
      BY <2>2, <2>3
  <1> QED
    BY <1>5, <1>6, <1>7, <1>8 DEF Recorded

\* Saving: a new row, which is the caller's.
LEMMA SaveIs ==
  ASSUME Recorded, NEW c \in Sources, call[c].at = "prepare",
         NEW layer \in Range(Layers), Save(c, layer)
  PROVE  /\ RowsStay /\ created' = created + 1
         /\ row'[created'].text = call[c].text /\ row'[created'].source = c
         /\ row'[created'].layer = layer
         /\ \E new \in Calls :
              /\ call' = [call EXCEPT ![c] = new]
              /\ new.at \in {"tag", "graph"} /\ new.id = created' /\ new.text = call[c].text
         /\ stored' = stored \cup {created'}
         /\ UNCHANGED <<forgotten, calls, errors, told, file>>
         /\ import' = IF c \in Users THEN import
                      ELSE [import EXCEPT !.brought = import.brought \cup {created'}]
  <1> DEFINE id == created + 1
             rec == [text |-> call[c].text, layer |-> layer, tagged |-> call[c].tagged, source |-> c]
             new == [call[c] EXCEPT !.id = id, !.layer = layer,
                                    !.at = IF call[c].tagged THEN "graph" ELSE "tag"]
  <1>1. /\ created' = id /\ row' = Append(row, rec) /\ stored' = stored \cup {id} /\ created < MaxRows
        /\ call' = [call EXCEPT ![c] = new]
        /\ UNCHANGED <<forgotten, calls, errors, told, file>>
        /\ import' = IF c \in Users THEN import ELSE [import EXCEPT !.brought = import.brought \cup {id}]
    BY DEF Save
  <1>2. /\ call[c] \in Calls /\ call[c].text \in Texts /\ call[c].tagged \in BOOLEAN
    BY CallIs DEF Recorded
  <1>3. created \in Nat /\ row \in Seq(Rows) /\ Len(row) = created /\ MaxRows \in Nat
    BY BoundsAssumption DEF Recorded, Typed, BoundsAssumption
  <1>4. rec \in Rows /\ rec.text = call[c].text /\ rec.source = c /\ rec.layer = layer
    BY <1>2 DEF Rows
  <1>5. new \in Calls /\ new.at \in {"tag", "graph"} /\ new.id = id /\ new.text = call[c].text
    <2>1. id \in 0..MaxRows
      BY <1>1, <1>3
    <2>2. new.at = "graph" \/ new.at = "tag"
      BY <1>2 DEF Calls
    <2> QED
      BY <1>2, <2>1, <2>2 DEF Calls
  <1> HIDE DEF rec, new
  <1>6. /\ row' \in Seq(Rows) /\ Len(row') = id /\ row'[id] = rec
        /\ \A i \in 1..created : row'[i] = row[i]
    BY <1>1, <1>3, <1>4
  <1>7. RowsStay
    BY <1>1, <1>3, <1>6 DEF RowsStay
  <1> QED
    BY <1>1, <1>4, <1>5, <1>6, <1>7

\* Saving again: the same rows, one of them perhaps with tags.
LEMMA ResaveIs ==
  ASSUME Recorded, NEW c \in Sources, call[c].at = "tag", Resave(c) \/ UNCHANGED db
  PROVE  RowsStay /\ created' = created /\ stored' \cup forgotten' = 1..created'
  <1>1. created \in Nat /\ created <= MaxRows /\ row \in Seq(Rows) /\ Len(row) = created
        /\ stored \cup forgotten = 1..created
    BY DEF Recorded, Typed
  <1>2. CASE UNCHANGED db
    BY <1>1, <1>2 DEF db, RowsStay
  <1>3. CASE Resave(c)
    <2> DEFINE id == call[c].id
               rec == [row[id] EXCEPT !.tagged = TRUE]
    <2>1. id \in 1..created
      BY DEF Recorded, CallFits
    <2>2. /\ stored' = stored \cup {id} /\ UNCHANGED <<created, forgotten>>
          /\ row' = row \/ row' = [row EXCEPT ![id] = rec]
      BY <1>3 DEF Resave
    <2> HIDE DEF id
    <2>3. row[id] \in Rows
      BY <1>1, <2>1
    <2>4. /\ rec \in Rows /\ rec.text = row[id].text /\ rec.source = row[id].source
          /\ rec.layer = row[id].layer
      BY <2>3 DEF Rows
    <2> HIDE DEF rec
    <2>5. RowsStay
      BY <1>1, <2>1, <2>2, <2>4 DEF RowsStay
    <2> QED
      BY <1>1, <2>1, <2>2, <2>5
  <1> QED
    BY <1>2, <1>3

LEMMA AskedIs ==
  ASSUME NEW text \in Texts, NEW layer \in Range(Layers), NEW tagged \in BOOLEAN, NEW graph \in BOOLEAN
  PROVE  /\ Asked(text, layer, tagged, graph) \in Calls
         /\ Asked(text, layer, tagged, graph).at = "prepare"
         /\ Asked(text, layer, tagged, graph).text = text
         /\ Asked(text, layer, tagged, graph).layer = layer
  BY BoundsAssumption DEF Asked, Calls, BoundsAssumption

LEMMA CallRecorded ==
  ASSUME Recorded, NEW u \in Users, NEW l \in Levels, NEW tagged \in BOOLEAN, Call(u, l, tagged)
  PROVE  Recorded'
  <1> DEFINE new == Asked(TextOf[u], l, tagged, TRUE)
  <1>1. new \in Calls /\ new.at = "prepare" /\ new.text = TextOf[u]
    <2>1. TextOf[u] \in Texts /\ l \in Range(Layers)
      BY UsersAssumption, BoundsAssumption DEF UsersAssumption, BoundsAssumption
    <2> DEFINE asked == Asked(TextOf[u], l, tagged, TRUE)
    <2>2. /\ asked.at = "prepare" /\ asked.text = TextOf[u]
          /\ asked \in Calls
      BY <2>1, BoundsAssumption DEF Asked, Calls, BoundsAssumption
    <2> QED
      BY <2>2
  <1>2. /\ call' = [call EXCEPT ![u] = new] /\ told[u] = 0
        /\ calls' = calls + 1 /\ calls < MaxCalls
        /\ UNCHANGED <<created, row, stored, forgotten, errors, told, file, import>>
    BY DEF Call, db
  <1> HIDE DEF new
  <1>3. RowsStay /\ stored' \cup forgotten' = 1..created'
    BY <1>2 DEF Recorded, Typed, RowsStay
  <1>4. /\ calls \in Nat /\ MaxCalls \in Nat /\ import \in Imports /\ errors[u] \in Nat
        /\ import.brought \subseteq 1..created
    BY BoundsAssumption DEF Recorded, Typed, BoundsAssumption
  <1>5. calls' \in Nat /\ calls <= calls' /\ calls' <= MaxCalls /\ errors[u] + 1 <= calls'
    BY <1>2, <1>4 DEF Recorded, UserFits
  <1>6. u \in Sources /\ u # "import"
    BY UsersAssumption DEF UsersAssumption, Sources
  <1>7. /\ import' \in Imports /\ import'.on = import.on /\ import'.brought \subseteq 1..created'
        /\ UNCHANGED <<errors, told, file>>
        /\ new.at \notin {"tag", "graph"}
    BY <1>1, <1>2, <1>4
  <1> QED
    BY <1>1, <1>2, <1>3, <1>5, <1>6, <1>7, CallMoves

LEMMA ImportNextIs ==
  ASSUME Recorded, ImportNext
  PROVE  LET r == Head(import.queue)
         IN  /\ r \in Records /\ r = import.queue[1] /\ import.queue # <<>> /\ import.on
             /\ call["import"].at = "idle"
             /\ \E new \in Calls : /\ call' = [call EXCEPT !["import"] = new]
                                   /\ new.at = "prepare" /\ new.text = r.text /\ new.layer = r.layer
             /\ import' = [import EXCEPT !.queue = Tail(import.queue)]
             /\ Tail(import.queue) \in Seq(Records)
             /\ UNCHANGED <<created, row, stored, forgotten, calls, errors, told, file>>
  <1> DEFINE r == Head(import.queue)
             graph == import.imported % GraphEvery = 0
             new == Asked(r.text, r.layer, r.tagged, graph)
  <1>1. /\ import.on /\ import.queue # <<>> /\ call["import"].at = "idle"
        /\ call' = [call EXCEPT !["import"] = new]
        /\ import' = [import EXCEPT !.queue = Tail(import.queue)]
        /\ UNCHANGED <<created, row, stored, forgotten, calls, errors, told, file>>
    BY DEF ImportNext, db
  <1>2. import.queue \in Seq(Records)
    BY DEF Recorded, Typed, Imports
  <1>3. r \in Records /\ r = import.queue[1] /\ Tail(import.queue) \in Seq(Records)
    BY <1>1, <1>2
  <1>4. r.text \in Texts /\ r.layer \in Range(Layers) /\ r.tagged \in BOOLEAN
    BY <1>3 DEF Records
  <1>5. graph \in BOOLEAN
    BY Zenon
  <1> HIDE DEF graph, r
  <1>6. new \in Calls /\ new.at = "prepare" /\ new.text = r.text /\ new.layer = r.layer
    BY <1>4, <1>5, AskedIs
  <1> HIDE DEF new
  <1> QED
    BY <1>1, <1>3, <1>6 DEF r

LEMMA ImportNextRecorded ==
  ASSUME Recorded, ImportNext
  PROVE  Recorded'
  <1> DEFINE r == Head(import.queue)
  <1>1. PICK new \in Calls : call' = [call EXCEPT !["import"] = new] /\ new.at = "prepare"
    BY ImportNextIs
  <1>2. /\ import' = [import EXCEPT !.queue = Tail(import.queue)] /\ import.on
        /\ Tail(import.queue) \in Seq(Records)
        /\ UNCHANGED <<created, row, stored, forgotten, calls, errors, told, file>>
    BY ImportNextIs
  <1>3. RowsStay /\ stored' \cup forgotten' = 1..created'
    BY <1>2 DEF Recorded, Typed, RowsStay
  <1>4. /\ import \in Imports /\ import.brought \subseteq 1..created
        /\ calls \in Nat /\ calls <= MaxCalls
    BY DEF Recorded, Typed
  <1>5. import' \in Imports /\ import'.on = import.on /\ import'.brought = import.brought
    BY <1>2, <1>4 DEF Imports
  <1>6. "import" \in Sources /\ "import" \notin Users
    BY UsersAssumption DEF UsersAssumption, Sources
  <1>7. /\ UNCHANGED <<errors, told, file>> /\ new.at \notin {"tag", "graph"}
        /\ calls' \in Nat /\ calls <= calls' /\ calls' <= MaxCalls
        /\ import'.brought \subseteq 1..created'
    BY <1>1, <1>2, <1>4, <1>5
  <1> QED
    BY <1>1, <1>2, <1>3, <1>5, <1>6, <1>7, CallMoves

LEMMA LiftedIsALayer ==
  ASSUME NEW l \in Range(Layers), NEW high
  PROVE  Lifted(l, high) \in Range(Layers)
  BY DEF Lifted, Range, Layers

LEMMA PreparedRecorded ==
  ASSUME Recorded, NEW c \in Sources, NEW high \in BOOLEAN, Prepared(c, high)
  PROVE  Recorded'
  <1>1. call[c].at = "prepare" /\ Save(c, Lifted(call[c].layer, high))
    BY DEF Prepared
  <1>2. Lifted(call[c].layer, high) \in Range(Layers) /\ call[c].text \in Texts
    BY <1>1, CallIs, LiftedIsALayer DEF Recorded
  <1>3. /\ RowsStay /\ created' = created + 1
        /\ row'[created'].text = call[c].text /\ row'[created'].source = c
        /\ stored' = stored \cup {created'}
        /\ UNCHANGED <<forgotten, calls, errors, told, file>>
        /\ import' = IF c \in Users THEN import
                     ELSE [import EXCEPT !.brought = import.brought \cup {created'}]
    BY <1>1, <1>2, SaveIs
  <1>4. PICK new \in Calls :
          /\ call' = [call EXCEPT ![c] = new]
          /\ new.at \in {"tag", "graph"} /\ new.id = created' /\ new.text = call[c].text
    BY <1>1, <1>2, SaveIs
  <1>5. /\ created \in Nat /\ stored \cup forgotten = 1..created /\ import \in Imports
        /\ import.brought \subseteq 1..created /\ calls \in Nat /\ calls <= MaxCalls
    BY DEF Recorded, Typed
  <1>6. 1..created' = 1..created \cup {created'} /\ created' \in Nat
    BY <1>3, <1>5
  <1>7. stored' \cup forgotten' = 1..created'
    BY <1>3, <1>5, <1>6
  <1>8. import' \in Imports /\ import'.on = import.on /\ import'.brought \subseteq 1..created'
    <2>1. import.brought \cup {created'} \in SUBSET Nat /\ import.brought \in SUBSET Nat
      BY <1>5, <1>6
    <2> QED
      BY <1>3, <1>5, <1>6, <2>1 DEF Imports
  <1>9. /\ c \in Users => call[c].text = TextOf[c] /\ told[c] = 0 /\ errors[c] + 1 <= calls
        /\ c = "import" => import.on
    BY <1>1 DEF Recorded, CallFits
  <1>10. created' \in 1..created'
    BY <1>5, <1>3
  <1>11. /\ UNCHANGED <<errors, told, file>>
         /\ calls' \in Nat /\ calls <= calls' /\ calls' <= MaxCalls
         /\ c \in Users => new.text = TextOf[c] /\ told[c] = 0 /\ errors[c] + 1 <= calls'
         /\ new.id \in 1..created' /\ row'[new.id].text = new.text /\ row'[new.id].source = c
    BY <1>3, <1>4, <1>5, <1>9, <1>10
  <1> QED
    BY <1>3, <1>4, <1>7, <1>8, <1>9, <1>11, CallMoves

LEMMA TaggingRecorded ==
  ASSUME Recorded, NEW c \in Sources, Tagged(c) \/ TagFails(c)
  PROVE  Recorded'
  <1>1. PICK suggested \in BOOLEAN : AskForGraph(c, suggested)
    BY DEF Tagged, TagFails
  <1> DEFINE new == [call[c] EXCEPT !.at = "graph", !.suggested = suggested]
  <1>2. call[c].at = "tag" /\ (Resave(c) \/ UNCHANGED db)
    BY DEF Tagged, TagFails
  <1>3. RowsStay /\ created' = created /\ stored' \cup forgotten' = 1..created'
    BY <1>2, ResaveIs
  <1>4. call' = [call EXCEPT ![c] = new] /\ UNCHANGED <<calls, errors, told, file, import>>
    BY <1>1 DEF AskForGraph
  <1>5. call[c] \in Calls
    BY <1>2, CallIs DEF Recorded
  <1>6. new \in Calls /\ new.at = "graph" /\ new.id = call[c].id /\ new.text = call[c].text
    BY <1>5 DEF Calls
  <1> HIDE DEF new
  <1>7. /\ c \in Users => call[c].text = TextOf[c] /\ told[c] = 0 /\ errors[c] + 1 <= calls
        /\ c = "import" => import.on
        /\ call[c].id \in 1..created
        /\ row[call[c].id].text = call[c].text /\ row[call[c].id].source = c
    BY <1>2 DEF Recorded, CallFits
  <1>8. row'[new.id].text = new.text /\ row'[new.id].source = c
    BY <1>3, <1>6, <1>7 DEF RowsStay
  <1>9. import \in Imports /\ import.brought \subseteq 1..created /\ calls \in Nat /\ calls <= MaxCalls
    BY DEF Recorded, Typed
  <1>10. /\ UNCHANGED <<errors, told, file>>
         /\ calls' \in Nat /\ calls <= calls' /\ calls' <= MaxCalls
         /\ c \in Users => new.text = TextOf[c] /\ told[c] = 0 /\ errors[c] + 1 <= calls'
         /\ new.id \in 1..created'
         /\ import' \in Imports /\ import'.on = import.on /\ import'.brought \subseteq 1..created'
    BY <1>3, <1>4, <1>6, <1>7, <1>9
  <1> QED
    BY <1>3, <1>4, <1>6, <1>7, <1>8, <1>10, CallMoves

LEMMA EndingRecorded ==
  ASSUME Recorded, NEW c \in Sources,
         PrepareFails(c) \/ GraphDone(c) \/ GraphFails(c) \/ Stops(c)
  PROVE  Recorded'
  <1>1. call[c].at # "idle" /\ call' = [call EXCEPT ![c] = NoCall]
        /\ UNCHANGED <<created, row, stored, forgotten, calls, file>>
    BY DEF PrepareFails, GraphDone, GraphFails, Stops, Answered, Raised, db
  <1>2. \/ told' = told /\ errors' = errors
        \/ c \in Users /\ told' = told /\ errors' = [errors EXCEPT ![c] = errors[c] + 1]
        \/ c \in Users /\ errors' = errors /\ told' = [told EXCEPT ![c] = call[c].id]
           /\ call[c].at \in {"tag", "graph"}
    BY DEF PrepareFails, GraphDone, GraphFails, Stops, Answered, Raised
  <1>3. import' \in Imports /\ import'.brought = import.brought /\ (c \in Users => import' = import)
    <2>1. import \in Imports
      BY DEF Recorded, Typed
    <2>2. \/ import' = import
          \/ c \notin Users /\ import' = [import EXCEPT !.imported = import.imported + 1]
          \/ c \notin Users /\ import' = [import EXCEPT !.failed = import.failed + 1]
          \/ c \notin Users /\ import' = [import EXCEPT !.on = FALSE]
      BY DEF PrepareFails, GraphDone, GraphFails, Stops, Answered, Raised
    <2>3. import.imported + 1 \in Nat /\ import.failed + 1 \in Nat
      BY <2>1 DEF Imports
    <2>4. CASE import' = import
      BY <2>1, <2>4
    <2>5. CASE c \notin Users /\ import' = [import EXCEPT !.imported = import.imported + 1]
      BY <2>1, <2>3, <2>5 DEF Imports
    <2>6. CASE c \notin Users /\ import' = [import EXCEPT !.failed = import.failed + 1]
      BY <2>1, <2>3, <2>6 DEF Imports
    <2>7. CASE c \notin Users /\ import' = [import EXCEPT !.on = FALSE]
      BY <2>1, <2>7 DEF Imports
    <2> QED
      BY <2>2, <2>4, <2>5, <2>6, <2>7
  <1> QED
    BY <1>1, <1>2, <1>3, CallEnds

\* What a file is read back as.
LEMMA ParsedAreRecords ==
  ASSUME NEW f \in [rows : Seq(Records), markdown : BOOLEAN, suffix : Suffixes]
  PROVE  Parse(f) \in Seq(Records)
  <1>1. f.rows \in Seq(Records)
    OBVIOUS
  <1>2. Cut(f.rows) \in Seq(Records)
    BY <1>1, CutKeeps
  <1> QED
    BY <1>1, <1>2 DEF Parse, ParseJson

\* The export and the import of it leave the calls alone.
LEMMA FilesRecorded ==
  ASSUME Recorded,
         UNCHANGED <<created, row, call, calls, errors, told>>,
         stored' \cup forgotten' = stored \cup forgotten,
         file' \in [rows : Seq(Records), markdown : BOOLEAN, suffix : Suffixes],
         import' \in Imports, import'.brought \subseteq 1..created, import.on => import'.on
  PROVE  Recorded'
  <1>1. Typed'
    BY DEF Recorded, Typed
  <1>2. \A c \in Sources : CallFits(c)'
    BY DEF Recorded, CallFits
  <1>3. \A u \in Users : UserFits(u)'
    BY DEF Recorded, UserFits
  <1> QED
    BY <1>1, <1>2, <1>3 DEF Recorded

LEMMA ExportIs ==
  ASSUME Typed, NEW markdown \in BOOLEAN, NEW suffix \in Suffixes, Export(markdown, suffix)
  PROVE  file' \in [rows : Seq(Records), markdown : BOOLEAN, suffix : Suffixes]
  <1>1. created \in Nat /\ row \in [1..created -> Rows] /\ Quota \in Nat
    BY BoundsAssumption DEF Typed, BoundsAssumption
  <1>2. \A l \in Range(Layers) : Newest(l) \in Seq(Records)
    BY <1>1, NewestAreRecords
  <1>3. /\ "short_term" \in Range(Layers) /\ "working" \in Range(Layers)
        /\ "long_term" \in Range(Layers) /\ "meta" \in Range(Layers)
    <2>1. DOMAIN Layers = 1..4
      BY DEF Layers
    <2>2. Layers[1] = "short_term" /\ Layers[2] = "working" /\ Layers[3] = "long_term" /\ Layers[4] = "meta"
      BY DEF Layers
    <2> QED
      BY <2>1, <2>2 DEF Range
  <1>4. /\ Newest("short_term") \in Seq(Records) /\ Newest("working") \in Seq(Records)
        /\ Newest("long_term") \in Seq(Records) /\ Newest("meta") \in Seq(Records)
    BY <1>2, <1>3
  <1>5. Newest("short_term") \o Newest("working") \o Newest("long_term") \o Newest("meta") \in Seq(Records)
    BY <1>4, ConcatProperties
  <1>6. file' = [rows |-> Newest("short_term") \o Newest("working") \o Newest("long_term") \o Newest("meta"),
                 markdown |-> markdown, suffix |-> suffix]
    BY DEF Export
  <1> QED
    BY <1>5, <1>6

LEMMA NextRecorded ==
  Recorded /\ [AccessNext]_accessVars => Recorded'
  <1> SUFFICES ASSUME Recorded, [AccessNext]_accessVars
               PROVE  Recorded'
    OBVIOUS
  <1>0. /\ file \in [rows : Seq(Records), markdown : BOOLEAN, suffix : Suffixes] /\ import \in Imports
        /\ import.brought \subseteq 1..created /\ Typed
    BY DEF Recorded, Typed
  <1>1. CASE UNCHANGED accessVars
    BY <1>0, <1>1, FilesRecorded DEF accessVars
  <1>2. ASSUME NEW u \in Users, NEW l \in Levels, NEW tagged \in BOOLEAN, Call(u, l, tagged)
        PROVE  Recorded'
    BY <1>2, CallRecorded
  <1>3. ASSUME NEW c \in Sources, Remember(c) \/ Stops(c)
        PROVE  Recorded'
    BY <1>3, PreparedRecorded, TaggingRecorded, EndingRecorded DEF Remember
  <1>4. ASSUME NEW id \in stored, Forget(id)
        PROVE  Recorded'
    <2>1. /\ stored' \cup forgotten' = stored \cup forgotten
          /\ UNCHANGED <<created, row, call, calls, errors, told, file, import>>
      BY <1>4 DEF Forget
    <2> QED
      BY <1>0, <2>1, FilesRecorded
  <1>5. ASSUME NEW markdown \in BOOLEAN, NEW suffix \in Suffixes, Export(markdown, suffix)
        PROVE  Recorded'
    <2>1. UNCHANGED <<created, row, stored, forgotten, call, calls, errors, told, import>>
      BY <1>5 DEF Export, db
    <2>2. file' \in [rows : Seq(Records), markdown : BOOLEAN, suffix : Suffixes]
      BY <1>0, <1>5, ExportIs
    <2> QED
      BY <1>0, <2>1, <2>2, FilesRecorded
  <1>6. CASE Import
    <2>1. /\ UNCHANGED <<created, row, stored, forgotten, call, calls, errors, told, file>>
          /\ import' = [NoImport EXCEPT !.on = TRUE, !.queue = Parse(file)]
      BY <1>6 DEF Import, db
    <2>2. Parse(file) \in Seq(Records)
      BY <1>0, ParsedAreRecords
    <2>3. import' \in Imports /\ import'.on /\ import'.brought = {}
      BY <2>1, <2>2 DEF Imports, NoImport
    <2> QED
      BY <1>0, <2>1, <2>3, FilesRecorded
  <1>7. CASE ImportNext
    BY <1>7, ImportNextRecorded
  <1> QED
    BY <1>1, <1>2, <1>3, <1>4, <1>5, <1>6, <1>7 DEF AccessNext

\* Of every state: the rows and the ids known of them, and whose call is at which step.
LEMMA RecordedAlways == AccessSpec => []Recorded
  <1>1. AccessInit => Recorded
    BY InitRecorded
  <1>2. Recorded /\ [AccessNext]_accessVars => Recorded'
    BY NextRecorded
  <1> QED
    BY <1>1, <1>2, PTL DEF AccessSpec

\* For every number of users, calls, rows and deletions: a user who was told of a
\* memory has it, with the text given, unless somebody deleted it.
THEOREM ToldMeansStored == AccessSpec => []StoredWhenTold
  <1>1. Recorded => StoredWhenTold
    <2> SUFFICES ASSUME Recorded, NEW u \in Users, told[u] # 0
                 PROVE  row[told[u]].text = TextOf[u] /\ told[u] \in stored \cup forgotten
      BY DEF StoredWhenTold
    <2> QED
      BY DEF Recorded, Typed, UserFits
  <1> QED
    BY <1>1, RecordedAlways, PTL

\* The variables keep their types; no user sees more errors than calls were made.
THEOREM AccessTypes == AccessSpec => []AccessTypeOK
  <1>1. Recorded => AccessTypeOK
    <2> SUFFICES ASSUME Recorded
                 PROVE  AccessTypeOK
      OBVIOUS
    <2>1. /\ created \in Nat /\ created <= MaxRows /\ row \in Seq(Rows) /\ Len(row) = created
          /\ stored \cup forgotten = 1..created
          /\ call \in [Sources -> Calls \cup {NoCall}]
          /\ calls \in Nat /\ calls <= MaxCalls
          /\ errors \in [Users -> Nat] /\ told \in [Users -> Nat]
          /\ file \in [rows : Seq(Records), markdown : BOOLEAN, suffix : Suffixes]
          /\ import \in Imports /\ import.brought \subseteq 1..created
      BY DEF Recorded, Typed
    <2>2. MaxRows \in Nat /\ MaxCalls \in Nat
      BY BoundsAssumption DEF BoundsAssumption
    <2>3. \A u \in Users : errors[u] \in 0..MaxCalls /\ told[u] \in 0..created
      BY <2>1, <2>2 DEF Recorded, UserFits
    <2>4. errors \in [Users -> 0..MaxCalls] /\ told \in [Users -> 0..created]
      BY <2>1, <2>3
    <2>5. import \in [on : BOOLEAN, queue : Seq(Records), imported : Nat, failed : Nat,
                      brought : SUBSET (1..created)]
      BY <2>1 DEF Imports
    <2>6. row \in [1..created -> Rows]
      BY <2>1
    <2>7. created \in 0..MaxRows /\ calls \in 0..MaxCalls
      BY <2>1, <2>2
    <2> QED
      BY <2>1, <2>4, <2>5, <2>6, <2>7 DEF AccessTypeOK
  <1> QED
    BY <1>1, RecordedAlways, PTL

-----------------------------------------------------------------------------
(* MemoryAccess: how many rows a caller leaves *)

\* The row that is asked for, once it is saved.
Wanted(u) == IF told[u] # 0 \/ call[u].at \in {"tag", "graph"} THEN 1 ELSE 0

CopiesCounted == \A u \in Users : Cardinality(Copies(u)) <= errors[u] + Wanted(u)

LEMMA CopiesAreFinite ==
  ASSUME created \in Nat, NEW u
  PROVE  IsFiniteSet(Copies(u)) /\ Cardinality(Copies(u)) \in Nat
  <1> DEFINE S == Copies(u)
  <1>1. IsFiniteSet(1..created) /\ S \in SUBSET (1..created)
    BY FS_Interval DEF Copies
  <1> HIDE DEF S
  <1>2. IsFiniteSet(S)
    BY <1>1, FS_Subset
  <1> QED
    BY <1>2, FS_CardinalityType DEF S

\* Rows that stay are no new copies.
LEMMA CopiesStay ==
  ASSUME created \in Nat, RowsStay, created' = created, NEW u
  PROVE  Copies(u)' = Copies(u)
  BY DEF Copies, RowsStay

\* Saving makes one, of its caller.
LEMMA SavingCopies ==
  ASSUME created \in Nat, RowsStay, created' = created + 1, NEW c, row'[created'].source = c, NEW u
  PROVE  /\ u = c => Cardinality(Copies(u)') = Cardinality(Copies(u)) + 1
         /\ u # c => Copies(u)' = Copies(u)
  <1> DEFINE S == Copies(u)
  <1>1. \A i : i \in 1..created' <=> i \in 1..created \/ i = created'
    OBVIOUS
  <1>2. \A i \in 1..created : row'[i].source = row[i].source
    BY DEF RowsStay
  <1>3. Copies(u)' = IF u = c THEN S \cup {created'} ELSE S
    <2>1. \A i : i \in Copies(u)' <=> i \in 1..created' /\ row'[i].source = u
      BY DEF Copies
    <2>2. \A i : i \in S <=> i \in 1..created /\ row[i].source = u
      BY DEF Copies
    <2>3. created' \notin 1..created
      OBVIOUS
    <2> HIDE DEF S
    <2>4. \A i : i \in Copies(u)' <=> i \in S \/ (i = created' /\ u = c)
      BY <1>1, <1>2, <2>1, <2>2, <2>3
    <2> QED
      BY <2>4
  <1>4. created' \notin S
    BY DEF Copies
  <1>5. IsFiniteSet(S)
    BY CopiesAreFinite
  <1> HIDE DEF S
  <1>6. Cardinality(S \cup {created'}) = Cardinality(S) + 1
    BY <1>4, <1>5, FS_AddElement
  <1> QED
    BY <1>3, <1>6 DEF S

\* A step that adds no row and takes nothing back.
LEMMA NoMoreCopies ==
  ASSUME Recorded, RowsStay, created' = created, CopiesCounted,
         \A u \in Users : errors'[u] \in Nat /\ errors[u] + Wanted(u) <= errors'[u] + Wanted(u)'
  PROVE  CopiesCounted'
  <1>1. created \in Nat /\ created' \in Nat
    BY DEF Recorded, Typed
  <1> SUFFICES ASSUME NEW u \in Users
               PROVE  Cardinality(Copies(u)') <= errors'[u] + Wanted(u)'
    BY DEF CopiesCounted
  <1>2. Copies(u)' = Copies(u) /\ Cardinality(Copies(u)) \in Nat
    BY <1>1, CopiesStay, CopiesAreFinite
  <1>3. Wanted(u) \in Nat /\ Wanted(u)' \in Nat /\ errors[u] \in Nat /\ errors'[u] \in Nat
    BY DEF Wanted, Recorded, Typed
  <1>4. Cardinality(Copies(u)) <= errors[u] + Wanted(u)
    BY DEF CopiesCounted
  <1>5. errors[u] + Wanted(u) <= errors'[u] + Wanted(u)'
    OBVIOUS
  <1> QED
    BY <1>2, <1>3, <1>4, <1>5

LEMMA NextCounted ==
  Recorded /\ CopiesCounted /\ [AccessNext]_accessVars => CopiesCounted'
  <1> SUFFICES ASSUME Recorded, CopiesCounted, [AccessNext]_accessVars
               PROVE  CopiesCounted'
    OBVIOUS
  <1>0. /\ created \in Nat /\ call \in [Sources -> Calls \cup {NoCall}] /\ Users \subseteq Sources
        /\ errors \in [Users -> Nat] /\ told \in [Users -> Nat] /\ created <= MaxRows
        /\ row \in Seq(Rows) /\ Len(row) = created
    BY DEF Recorded, Typed, Sources
  <1>1. ASSUME UNCHANGED <<created, row, call, errors, told>>
        PROVE  CopiesCounted'
    <2>1. RowsStay /\ created' = created
      BY <1>0, <1>1 DEF RowsStay
    <2>2. \A u \in Users : Wanted(u)' = Wanted(u) /\ Wanted(u) \in Nat /\ errors[u] \in Nat
      BY <1>0, <1>1 DEF Wanted
    <2>3. \A u \in Users : errors'[u] \in Nat /\ errors[u] + Wanted(u) <= errors'[u] + Wanted(u)'
      BY <1>1, <2>2
    <2> QED
      BY <2>1, <2>3, NoMoreCopies
  \* A call that starts, or goes on, adds no row.
  <1>2. ASSUME NEW c \in Sources, NEW new \in Calls, call' = [call EXCEPT ![c] = new],
               UNCHANGED <<errors, told>>, RowsStay, created' = created,
               call[c].at = "tag" => new.at = "graph", call[c].at \in {"idle", "tag"}
        PROVE  CopiesCounted'
    <2> SUFFICES ASSUME NEW u \in Users
                 PROVE  errors'[u] \in Nat /\ errors[u] + Wanted(u) <= errors'[u] + Wanted(u)'
      BY <1>2, NoMoreCopies
    <2>1. call'[u] = IF u = c THEN new ELSE call[u]
      BY <1>0, <1>2
    <2>2. errors[u] \in Nat
      BY <1>0
    <2>3. call[u].at \in {"tag", "graph"} => call'[u].at \in {"tag", "graph"}
      BY <1>2, <2>1
    <2> QED
      BY <1>2, <2>2, <2>3 DEF Wanted
  <1>3. ASSUME NEW c \in Sources, NEW high \in BOOLEAN, Prepared(c, high)
        PROVE  CopiesCounted'
    <2>1. call[c].at = "prepare" /\ Save(c, Lifted(call[c].layer, high))
      BY <1>3 DEF Prepared
    <2>2. Lifted(call[c].layer, high) \in Range(Layers)
      BY <2>1, CallIs, LiftedIsALayer DEF Recorded
    <2>3. /\ RowsStay /\ created' = created + 1 /\ row'[created'].source = c
          /\ UNCHANGED <<errors, told>>
      BY <2>1, <2>2, SaveIs
    <2>4. PICK new \in Calls : call' = [call EXCEPT ![c] = new] /\ new.at \in {"tag", "graph"}
      BY <2>1, <2>2, SaveIs
    <2> SUFFICES ASSUME NEW u \in Users
                 PROVE  Cardinality(Copies(u)') <= errors'[u] + Wanted(u)'
      BY DEF CopiesCounted
    <2>5. /\ errors[u] \in Nat /\ Cardinality(Copies(u)) \in Nat
          /\ Cardinality(Copies(u)) <= errors[u] + Wanted(u)
      BY <1>0, CopiesAreFinite DEF CopiesCounted
    <2>6. /\ u = c => Cardinality(Copies(u)') = Cardinality(Copies(u)) + 1
          /\ u # c => Copies(u)' = Copies(u)
      BY <1>0, <2>3, SavingCopies
    <2>7. call'[u] = IF u = c THEN new ELSE call[u]
      BY <1>0, <2>4
    <2>8. CASE u = c
      <3>1. told[u] = 0
        BY <2>1, <2>8 DEF Recorded, CallFits
      <3>2. Wanted(u) = 0 /\ Wanted(u)' = 1
        BY <2>1, <2>3, <2>4, <2>7, <2>8, <3>1 DEF Wanted
      <3> QED
        BY <2>3, <2>5, <2>6, <2>8, <3>2
    <2>9. CASE u # c
      <3>1. Wanted(u)' = Wanted(u)
        BY <2>3, <2>7, <2>9 DEF Wanted
      <3> QED
        BY <2>3, <2>5, <2>6, <2>9, <3>1
    <2> QED
      BY <2>8, <2>9
  \* A call that ends in an error is paid for by it, and one that succeeds by its answer.
  <1>4. ASSUME NEW c \in Sources, PrepareFails(c) \/ GraphDone(c) \/ GraphFails(c) \/ Stops(c)
        PROVE  CopiesCounted'
    <2>1. call[c].at # "idle" /\ call' = [call EXCEPT ![c] = NoCall] /\ UNCHANGED <<created, row>>
      BY <1>4 DEF PrepareFails, GraphDone, GraphFails, Stops, Answered, Raised, db
    <2>2. \/ c \notin Users /\ told' = told /\ errors' = errors
          \/ c \in Users /\ told' = told /\ errors' = [errors EXCEPT ![c] = errors[c] + 1]
          \/ c \in Users /\ errors' = errors /\ told' = [told EXCEPT ![c] = call[c].id]
             /\ call[c].at = "graph"
      BY <1>4 DEF PrepareFails, GraphDone, GraphFails, Stops, Answered, Raised
    <2>3. RowsStay /\ created' = created
      BY <1>0, <2>1 DEF RowsStay
    <2> SUFFICES ASSUME NEW u \in Users
                 PROVE  errors'[u] \in Nat /\ errors[u] + Wanted(u) <= errors'[u] + Wanted(u)'
      BY <2>3, NoMoreCopies
    <2>4. errors[u] \in Nat
      BY <1>0
    <2>5. CASE u # c
      <3>1. call'[u] = call[u] /\ told'[u] = told[u] /\ errors'[u] = errors[u]
        BY <1>0, <2>1, <2>2, <2>5
      <3> QED
        BY <2>4, <3>1 DEF Wanted
    <2>6. CASE u = c
      <3>1. told[u] = 0 /\ (call[u].at = "graph" => call[u].id # 0)
        <4>1. CallFits(u)
          BY <1>0 DEF Recorded
        <4>2. call[u].at = "graph" => call[u].id \in 1..created
          BY <4>1 DEF CallFits
        <4> QED
          BY <1>0, <2>1, <2>6, <4>1, <4>2 DEF CallFits
      <3>2. CASE told' = told /\ errors'[u] = errors[u] + 1
        BY <2>4, <3>1, <3>2 DEF Wanted
      <3>3. CASE errors' = errors /\ told'[u] = call[u].id /\ call[u].at = "graph"
        BY <2>4, <3>1, <3>3 DEF Wanted
      <3> QED
        BY <1>0, <2>2, <2>6, <3>2, <3>3
    <2> QED
      BY <2>5, <2>6
  <1>5. ASSUME NEW u \in Users, NEW l \in Levels, NEW tagged \in BOOLEAN, Call(u, l, tagged)
        PROVE  CopiesCounted'
    <2> DEFINE new == Asked(TextOf[u], l, tagged, TRUE)
    <2>1. /\ call[u].at = "idle" /\ call' = [call EXCEPT ![u] = new]
          /\ UNCHANGED <<created, row, errors, told>>
      BY <1>5 DEF Call, db
    <2>2. TextOf[u] \in Texts /\ l \in Range(Layers)
      BY UsersAssumption, BoundsAssumption DEF UsersAssumption, BoundsAssumption
    <2>3. new \in Calls
      BY <2>2, BoundsAssumption DEF Asked, Calls, BoundsAssumption
    <2> HIDE DEF new
    <2>4. RowsStay /\ created' = created /\ u \in Sources
      BY <1>0, <2>1 DEF RowsStay
    <2> QED
      BY <1>2, <2>1, <2>3, <2>4
  <1>6. ASSUME NEW c \in Sources, Tagged(c) \/ TagFails(c)
        PROVE  CopiesCounted'
    <2>1. PICK suggested \in BOOLEAN : AskForGraph(c, suggested)
      BY <1>6 DEF Tagged, TagFails
    <2> DEFINE new == [call[c] EXCEPT !.at = "graph", !.suggested = suggested]
    <2>2. call[c].at = "tag" /\ (Resave(c) \/ UNCHANGED db)
      BY <1>6 DEF Tagged, TagFails
    <2>3. RowsStay /\ created' = created
      BY <2>2, ResaveIs
    <2>4. call' = [call EXCEPT ![c] = new] /\ UNCHANGED <<errors, told>>
      BY <2>1 DEF AskForGraph
    <2>5. call[c] \in Calls
      BY <2>2, CallIs DEF Recorded
    <2>6. new \in Calls /\ new.at = "graph"
      BY <2>5 DEF Calls
    <2> HIDE DEF new
    <2> QED
      BY <1>2, <2>2, <2>3, <2>4, <2>6
  <1>7. CASE ImportNext
    <2>1. PICK new \in Calls : call' = [call EXCEPT !["import"] = new]
      BY <1>7, ImportNextIs
    <2>2. UNCHANGED <<created, row, errors, told>> /\ call["import"].at = "idle"
      BY <1>7, ImportNextIs
    <2>3. RowsStay /\ created' = created /\ "import" \in Sources
      BY <1>0, <2>2 DEF RowsStay, Sources
    <2> QED
      BY <1>2, <2>1, <2>2, <2>3
  <1>8. ASSUME NEW c \in Sources, Remember(c) \/ Stops(c)
        PROVE  CopiesCounted'
    BY <1>3, <1>4, <1>6, <1>8 DEF Remember
  <1>9. CASE \/ UNCHANGED accessVars \/ (\E id \in stored : Forget(id))
             \/ (\E markdown \in BOOLEAN, suffix \in Suffixes : Export(markdown, suffix)) \/ Import
    <2>1. UNCHANGED <<created, row, call, errors, told>>
      BY <1>9 DEF accessVars, Forget, Export, Import, db
    <2> QED
      BY <1>1, <2>1
  <1> QED
    BY <1>5, <1>7, <1>8, <1>9 DEF AccessNext

\* For every number of users, calls, rows and deletions: who tries again until it
\* succeeds leaves one row behind for each error at most, besides the one asked for.
THEOREM CopiesAreExplained == AccessSpec => []CopiesExplained
  <1>1. AccessInit => CopiesCounted
    <2> SUFFICES ASSUME AccessInit, NEW u \in Users
                 PROVE  Cardinality(Copies(u)) <= errors[u] + Wanted(u)
      BY DEF CopiesCounted
    <2>1. created = 0 /\ errors[u] = 0 /\ told[u] = 0 /\ call[u].at = "idle"
      BY DEF AccessInit, NoCall, Sources
    <2>2. Copies(u) = {}
      BY <2>1 DEF Copies
    <2>3. Cardinality(Copies(u)) = 0
      BY <2>2, FS_EmptySet
    <2> QED
      BY <2>1, <2>3 DEF Wanted
  <1>2. Recorded /\ CopiesCounted /\ [AccessNext]_accessVars => CopiesCounted'
    BY NextCounted
  <1>3. Recorded /\ CopiesCounted => CopiesExplained
    <2> SUFFICES ASSUME Recorded, CopiesCounted, NEW u \in Users
                 PROVE  Cardinality(Copies(u))
                          <= errors[u] + (IF told[u] # 0 \/ call[u].at # "idle" THEN 1 ELSE 0)
      BY DEF CopiesExplained
    <2>1. created \in Nat /\ errors[u] \in Nat
      BY DEF Recorded, Typed
    <2>2. Cardinality(Copies(u)) \in Nat /\ Cardinality(Copies(u)) <= errors[u] + Wanted(u)
      BY <2>1, CopiesAreFinite DEF CopiesCounted
    <2> QED
      BY <2>1, <2>2 DEF Wanted
  <1> QED
    BY <1>1, <1>2, <1>3, RecordedAlways, PTL DEF AccessSpec

-----------------------------------------------------------------------------
(* MemoryAccess: what an import brings back *)

\* The row of the import's call, once it is saved.
Saved == IF call["import"].at \in {"tag", "graph"} THEN 1 ELSE 0

ImportCounted ==
  /\ import.imported + Saved <= Cardinality(import.brought)
  /\ import.on => Cardinality(import.brought) <= import.imported + import.failed + Saved

\* How much of the file was taken from the queue.
Done == Len(Parse(file)) - Len(import.queue)

QueueIsRest ==
  import.on =>
    /\ file.rows # <<>> /\ Done \in Nat
    /\ import.imported + import.failed + Importing = Done
    /\ \A n \in 1..Len(import.queue) : import.queue[n] = Parse(file)[Done + n]

ReadUpTo(list, n, t, l) == {i \in 1..n : list[i].text = t /\ Rank(list[i].layer) >= l}
Brought(t, l) == {id \in import.brought : row[id].text = t /\ Rank(row[id].layer) >= l}

\* What was read and is not saved yet.
Pending(t, l) ==
  IF call["import"].at = "prepare" /\ call["import"].text = t /\ Rank(call["import"].layer) >= l
  THEN 1 ELSE 0

ReadIsBrought ==
  import.on /\ import.failed = 0 =>
    \A t \in Texts, l \in 1..Len(Layers) :
      Cardinality(ReadUpTo(Parse(file), Done, t, l)) <= Cardinality(Brought(t, l)) + Pending(t, l)

Importance == ImportCounted /\ QueueIsRest /\ ReadIsBrought

\* Sets the counts are of.
LEMMA BroughtAreFinite ==
  ASSUME Typed, NEW t, NEW l
  PROVE  /\ IsFiniteSet(import.brought) /\ Cardinality(import.brought) \in Nat
         /\ IsFiniteSet(Brought(t, l)) /\ Cardinality(Brought(t, l)) \in Nat
  <1> DEFINE B == import.brought
             S == Brought(t, l)
  <1>1. IsFiniteSet(1..created) /\ B \in SUBSET (1..created) /\ S \in SUBSET B
    <2>1. created \in Nat /\ B \in SUBSET (1..created)
      BY DEF Typed
    <2>2. IsFiniteSet(1..created)
      BY <2>1, FS_Interval
    <2> QED
      BY <2>1, <2>2 DEF Brought
  <1> HIDE DEF B, S
  <1>2. IsFiniteSet(B)
    BY <1>1, FS_Subset
  <1>3. IsFiniteSet(S)
    BY <1>1, <1>2, FS_Subset
  <1>4. Cardinality(B) \in Nat /\ Cardinality(S) \in Nat
    BY <1>2, <1>3, FS_CardinalityType
  <1> QED
    BY <1>2, <1>3, <1>4 DEF B, S

LEMMA ReadIsFinite ==
  ASSUME NEW list, NEW n \in Nat, NEW t, NEW l
  PROVE  IsFiniteSet(ReadUpTo(list, n, t, l)) /\ Cardinality(ReadUpTo(list, n, t, l)) \in Nat
  <1> DEFINE S == ReadUpTo(list, n, t, l)
  <1>1. IsFiniteSet(1..n) /\ S \in SUBSET (1..n)
    BY FS_Interval DEF ReadUpTo
  <1> HIDE DEF S
  <1>2. IsFiniteSet(S)
    BY <1>1, FS_Subset
  <1>3. Cardinality(S) \in Nat
    BY <1>2, FS_CardinalityType
  <1> QED
    BY <1>2, <1>3 DEF S

\* Layers are ranked, and a memory is lifted, never lowered.
LEMMA RankIs ==
  /\ Range(Layers) = {"short_term", "working", "long_term", "meta"}
  /\ Rank("short_term") = 1 /\ Rank("working") = 2
  /\ \A l \in Range(Layers) : Rank(l) \in 1..4
  <1>1. DOMAIN Layers = 1..4 /\ Len(Layers) = 4
    BY DEF Layers
  <1>2. Layers[1] = "short_term" /\ Layers[2] = "working" /\ Layers[3] = "long_term" /\ Layers[4] = "meta"
    BY DEF Layers
  <1>3. Range(Layers) = {"short_term", "working", "long_term", "meta"}
    <2>1. 1..4 = {1, 2, 3, 4}
      OBVIOUS
    <2> QED
      BY <1>1, <1>2, <2>1 DEF Range
  <1>4. \A l \in Range(Layers) : Rank(l) \in 1..4 /\ Layers[Rank(l)] = l
    BY <1>1, <1>2, <1>3 DEF Rank
  <1> QED
    BY <1>2, <1>3, <1>4

LEMMA LiftedIsNoLower ==
  ASSUME NEW l \in Range(Layers), NEW high
  PROVE  Rank(l) <= Rank(Lifted(l, high)) /\ Rank(l) \in Nat /\ Rank(Lifted(l, high)) \in Nat
  BY RankIs, LiftedIsALayer DEF Lifted

\* Rows that stay are brought as before, and so is what was read.
LEMMA BroughtStays ==
  ASSUME Recorded, RowsStay, import'.brought = import.brought, NEW t, NEW l
  PROVE  Brought(t, l)' = Brought(t, l)
  <1>1. import.brought \subseteq 1..created
    BY DEF Recorded, Typed
  <1> QED
    BY <1>1 DEF Brought, RowsStay

LEMMA ImportanceStays ==
  ASSUME Recorded, Importance, RowsStay, import' = import,
         import.on => UNCHANGED file,
         \/ call'["import"] = call["import"]
         \/ call["import"].at = "tag" /\ call'["import"].at = "graph"
  PROVE  Importance'
  <1>1. Saved' = Saved /\ Importing' = Importing /\ \A t, l : Pending(t, l)' = Pending(t, l)
    BY DEF Saved, Importing, Pending
  <1>2. ImportCounted'
    BY <1>1 DEF Importance, ImportCounted
  <1>3. QueueIsRest'
    BY <1>1 DEF Importance, QueueIsRest, Done
  <1>4. ASSUME import'.on /\ import'.failed = 0, NEW t \in Texts, NEW l \in 1..Len(Layers)
        PROVE  Cardinality(ReadUpTo(Parse(file'), Done', t, l)) <= Cardinality(Brought(t, l)') + Pending(t, l)'
    <2>1. file' = file /\ Done' = Done
      BY <1>4 DEF Done
    <2>2. Brought(t, l)' = Brought(t, l)
      BY BroughtStays
    <2> QED
      BY <1>1, <1>4, <2>1, <2>2 DEF Importance, ReadIsBrought
  <1>5. ReadIsBrought'
    BY <1>4 DEF ReadIsBrought
  <1> QED
    BY <1>2, <1>3, <1>5 DEF Importance

LEMMA ImportStarts ==
  ASSUME Recorded, Import
  PROVE  Importance'
  <1>1. /\ file.rows # <<>> /\ file' = file /\ call' = call
        /\ import' = [NoImport EXCEPT !.on = TRUE, !.queue = Parse(file)]
        /\ call["import"].at = "idle"
    <2>1. "import" \in Sources /\ CallFits("import") /\ ~import.on
      BY DEF Recorded, Import, Sources
    <2>2. call["import"].at = "idle"
      BY <2>1, UsersAssumption DEF CallFits
    <2> QED
      BY <2>2 DEF Import
  <1>2. /\ import'.queue = Parse(file) /\ import'.brought = {}
        /\ import'.imported = 0 /\ import'.failed = 0
    BY <1>1 DEF NoImport
  <1>3. Parse(file) \in Seq(Records)
    BY ParsedAreRecords DEF Recorded, Typed
  <1>4. Done' = 0
    BY <1>1, <1>2, <1>3 DEF Done
  <1>5. ImportCounted'
    <2>1. Cardinality(import'.brought) = 0
      BY <1>2, FS_EmptySet
    <2> QED
      BY <1>1, <1>2, <2>1 DEF ImportCounted, Saved
  <1>6. QueueIsRest'
    BY <1>1, <1>2, <1>4 DEF QueueIsRest, Importing
  <1>7. ReadIsBrought'
    <2>1. ASSUME NEW t, NEW l
          PROVE  /\ Cardinality(ReadUpTo(Parse(file'), Done', t, l)) = 0
                 /\ Cardinality(Brought(t, l)') = 0 /\ Pending(t, l)' = 0
      <3>1. ReadUpTo(Parse(file'), Done', t, l) = {} /\ Brought(t, l)' = {}
        BY <1>2, <1>4 DEF ReadUpTo, Brought
      <3>2. Pending(t, l)' = 0
        BY <1>1 DEF Pending
      <3> QED
        BY <3>1, <3>2, FS_EmptySet
    <2> QED
      BY <2>1 DEF ReadIsBrought
  <1> QED
    BY <1>5, <1>6, <1>7 DEF Importance

LEMMA ImportGoesOn ==
  ASSUME Recorded, Importance, ImportNext
  PROVE  Importance'
  <1> DEFINE r == Head(import.queue)
  <1>1. /\ r \in Records /\ r = import.queue[1] /\ import.queue # <<>> /\ import.on
        /\ call["import"].at = "idle"
        /\ import' = [import EXCEPT !.queue = Tail(import.queue)]
        /\ UNCHANGED <<created, row, file>>
    BY ImportNextIs
  <1>2. PICK new \in Calls : /\ call' = [call EXCEPT !["import"] = new]
                             /\ new.at = "prepare" /\ new.text = r.text /\ new.layer = r.layer
    BY ImportNextIs
  <1>3. /\ "import" \in Sources /\ call \in [Sources -> Calls \cup {NoCall}]
        /\ import \in Imports /\ Typed
    BY DEF Recorded, Typed, Sources
  <1>4. call'["import"] = new
    BY <1>2, <1>3
  <1>5. /\ import'.queue = Tail(import.queue) /\ import'.brought = import.brought
        /\ import'.imported = import.imported /\ import'.failed = import.failed /\ import'.on = import.on
        /\ import.queue \in Seq(Records)
    BY <1>1, <1>3 DEF Imports
  <1>6. /\ Len(import.queue) \in Nat /\ Len(import'.queue) = Len(import.queue) - 1
        /\ Len(import.queue) > 0
        /\ \A n \in 1..Len(import'.queue) : import'.queue[n] = import.queue[n + 1]
    BY <1>1, <1>5
  <1> DEFINE Q == Parse(file)
  <1>7. Q \in Seq(Records) /\ Len(Q) \in Nat
    <2>1. Q \in Seq(Records)
      BY <1>3, ParsedAreRecords DEF Typed
    <2> QED
      BY <2>1
  <1>8. Parse(file') = Q
    BY <1>1
  <1>9. /\ Done \in Nat /\ file.rows # <<>> /\ import.imported + import.failed = Done
        /\ \A n \in 1..Len(import.queue) : import.queue[n] = Q[Done + n]
    <2>1. import.imported \in Nat /\ import.failed \in Nat /\ Importing = 0
      BY <1>1, <1>3 DEF Imports, Importing
    <2> QED
      BY <1>1, <2>1 DEF Importance, QueueIsRest
  <1> HIDE DEF r, Q
  <1>10. Done' = Done + 1 /\ Done + 1 \in Nat
    BY <1>6, <1>7, <1>8, <1>9 DEF Done, Q
  <1>11. r = Q[Done + 1]
    BY <1>1, <1>6, <1>9
  <1>12. ImportCounted'
    BY <1>1, <1>2, <1>4, <1>5 DEF Importance, ImportCounted, Saved
  <1>13. QueueIsRest'
    <2>1. ASSUME NEW n \in 1..Len(import'.queue)
          PROVE  import'.queue[n] = Q[(Done + 1) + n]
      <3>1. n + 1 \in 1..Len(import.queue)
        BY <1>6
      <3>2. import.queue[n + 1] = Q[Done + (n + 1)]
        BY <1>9, <3>1
      <3>3. Done + (n + 1) = (Done + 1) + n
        BY <1>6, <1>9
      <3> QED
        BY <1>6, <3>2, <3>3
    <2>2. import'.imported + import'.failed + Importing' = Done + 1
      <3>1. Importing' = 1
        BY <1>2, <1>4 DEF Importing
      <3> QED
        BY <1>5, <1>9, <3>1
    <2> QED
      BY <1>1, <1>8, <1>9, <1>10, <2>1, <2>2 DEF QueueIsRest
  <1>14. ASSUME import'.failed = 0, NEW t \in Texts, NEW l \in 1..Len(Layers)
         PROVE  Cardinality(ReadUpTo(Q, Done + 1, t, l)) <= Cardinality(Brought(t, l)') + Pending(t, l)'
    <2> DEFINE A == ReadUpTo(Q, Done, t, l)
               m == Done + 1
               Counts == r.text = t /\ Rank(r.layer) >= l
    <2>1. /\ IsFiniteSet(A) /\ Cardinality(A) \in Nat /\ Cardinality(Brought(t, l)) \in Nat
      BY <1>3, <1>9, ReadIsFinite, BroughtAreFinite
    <2>2. Brought(t, l)' = Brought(t, l)
      BY <1>1, <1>5 DEF Brought
    <2>3. Cardinality(A) <= Cardinality(Brought(t, l)) + Pending(t, l)
      BY <1>1, <1>5, <1>14 DEF Importance, ReadIsBrought, Q
    <2>4. Pending(t, l) = 0
      BY <1>1 DEF Pending
    <2>5. Pending(t, l)' = IF Counts THEN 1 ELSE 0
      BY <1>2, <1>4 DEF Pending
    <2>6. ReadUpTo(Q, m, t, l) = IF Counts THEN A \cup {m} ELSE A
      <3>1. 1..m = 1..Done \cup {m} /\ m \notin 1..Done
        BY <1>9
      <3> HIDE DEF m
      <3> QED
        BY <1>11, <3>1 DEF ReadUpTo, m
    <2>7. m \notin A
      BY <1>9 DEF ReadUpTo
    <2> HIDE DEF A, m
    <2>8. Cardinality(A \cup {m}) = Cardinality(A) + 1
      BY <2>1, <2>7, FS_AddElement
    <2> HIDE DEF Counts
    <2>9. Cardinality(ReadUpTo(Q, m, t, l)) <= Cardinality(Brought(t, l)') + Pending(t, l)'
      BY <2>1, <2>2, <2>3, <2>4, <2>5, <2>6, <2>8
    <2> QED
      BY <2>9 DEF m
  <1>15. ReadIsBrought'
    BY <1>8, <1>10, <1>14 DEF ReadIsBrought
  <1> QED
    BY <1>12, <1>13, <1>15 DEF Importance

\* Saving the import's memory.
LEMMA ImportSaves ==
  ASSUME Recorded, Importance, NEW high \in BOOLEAN, Prepared("import", high)
  PROVE  Importance'
  <1> DEFINE old == call["import"]
             layer == Lifted(old.layer, high)
  <1>1. /\ "import" \in Sources /\ "import" \notin Users
        /\ call \in [Sources -> Calls \cup {NoCall}] /\ created \in Nat
        /\ import \in Imports /\ import.brought \subseteq 1..created /\ Typed
    BY UsersAssumption DEF Recorded, Typed, Sources, UsersAssumption
  <1>2. old.at = "prepare" /\ Save("import", layer)
    BY DEF Prepared
  <1>3. old.layer \in Range(Layers) /\ layer \in Range(Layers)
    BY <1>1, <1>2, CallIs, LiftedIsALayer
  <1>4. /\ RowsStay /\ created' = created + 1
        /\ row'[created'].text = old.text /\ row'[created'].layer = layer
        /\ file' = file
        /\ import' = [import EXCEPT !.brought = import.brought \cup {created'}]
    BY <1>1, <1>2, <1>3, SaveIs
  <1>5. PICK new \in Calls : call' = [call EXCEPT !["import"] = new] /\ new.at \in {"tag", "graph"}
    BY <1>1, <1>2, <1>3, SaveIs
  <1>6. call'["import"] = new
    BY <1>1, <1>5
  <1>7. /\ import'.brought = import.brought \cup {created'}
        /\ import'.imported = import.imported /\ import'.failed = import.failed
        /\ import'.on = import.on /\ import'.queue = import.queue
    BY <1>1, <1>4 DEF Imports
  <1>8. created' \notin import.brought
    BY <1>1, <1>4
  <1>9. Rank(old.layer) <= Rank(layer) /\ Rank(old.layer) \in Nat /\ Rank(layer) \in Nat
    BY <1>3, LiftedIsNoLower
  <1> HIDE DEF layer
  <1>10. ImportCounted'
    <2> DEFINE B == import.brought
    <2>1. IsFiniteSet(B) /\ Cardinality(B) \in Nat
      BY <1>1, BroughtAreFinite
    <2> HIDE DEF B
    <2>2. Cardinality(B \cup {created'}) = Cardinality(B) + 1
      BY <1>8, <2>1, FS_AddElement DEF B
    <2>3. Saved = 0 /\ Saved' = 1
      BY <1>2, <1>5, <1>6 DEF Saved
    <2>4. import.imported \in Nat /\ import.failed \in Nat
      BY <1>1 DEF Imports
    <2>5. /\ import.imported <= Cardinality(B)
          /\ import.on => Cardinality(B) <= import.imported + import.failed
      BY <2>1, <2>3, <2>4 DEF Importance, ImportCounted, B
    <2> QED
      BY <1>7, <2>1, <2>2, <2>3, <2>4, <2>5 DEF ImportCounted, B
  <1>11. QueueIsRest'
    <2>1. Importing = 1 /\ Importing' = 1
      BY <1>2, <1>5, <1>6 DEF Importing
    <2> QED
      BY <1>4, <1>7, <2>1 DEF Importance, QueueIsRest, Done
  <1>12. ASSUME import'.on /\ import'.failed = 0, NEW t \in Texts, NEW l \in 1..Len(Layers)
         PROVE  Cardinality(ReadUpTo(Parse(file), Done, t, l)) <= Cardinality(Brought(t, l)') + Pending(t, l)'
    <2> DEFINE B == Brought(t, l)
               Asks == old.text = t /\ Rank(old.layer) >= l
               Gets == old.text = t /\ Rank(layer) >= l
    <2>0. l \in Nat
      BY DEF Layers
    <2>1. IsFiniteSet(B) /\ Cardinality(B) \in Nat
      BY <1>1, BroughtAreFinite
    <2>2. Pending(t, l) = IF Asks THEN 1 ELSE 0
      BY <1>2 DEF Pending
    <2>3. Pending(t, l)' = 0
      BY <1>5, <1>6 DEF Pending
    <2>4. Asks => Gets
      BY <1>9, <2>0
    <2>5. Brought(t, l)' = IF Gets THEN B \cup {created'} ELSE B
      <3>1. \A id \in import.brought : row'[id].text = row[id].text /\ row'[id].layer = row[id].layer
        BY <1>1, <1>4 DEF RowsStay
      <3> QED
        BY <1>4, <1>7, <3>1 DEF Brought
    <2>6. created' \notin B
      BY <1>8 DEF Brought
    <2>7. /\ Done \in Nat
          /\ Cardinality(ReadUpTo(Parse(file), Done, t, l)) <= Cardinality(B) + Pending(t, l)
      BY <1>7, <1>12 DEF Importance, QueueIsRest, ReadIsBrought
    <2>8. Cardinality(ReadUpTo(Parse(file), Done, t, l)) \in Nat
      BY <2>7, ReadIsFinite
    <2> HIDE DEF B, Asks, Gets
    <2>9. Cardinality(B \cup {created'}) = Cardinality(B) + 1
      BY <2>1, <2>6, FS_AddElement
    <2> QED
      BY <2>1, <2>2, <2>3, <2>4, <2>5, <2>7, <2>8, <2>9
  <1>13. ReadIsBrought'
    <2>1. file' = file /\ Done' = Done
      BY <1>4, <1>7 DEF Done
    <2> QED
      BY <1>12, <2>1 DEF ReadIsBrought
  <1> QED
    BY <1>10, <1>11, <1>13 DEF Importance

\* The import's call ends: a success counted, a failure counted, or no import.
LEMMA ImportEnds ==
  ASSUME Recorded, Importance,
         \/ PrepareFails("import") \/ GraphDone("import") \/ GraphFails("import") \/ Stops("import")
  PROVE  Importance'
  <1>1. /\ "import" \in Sources /\ "import" \notin Users /\ created \in Nat /\ Typed
        /\ call \in [Sources -> Calls \cup {NoCall}] /\ import \in Imports
        /\ row \in Seq(Rows) /\ Len(row) = created /\ created <= MaxRows
    BY UsersAssumption DEF Recorded, Typed, Sources, UsersAssumption
  <1>2. call' = [call EXCEPT !["import"] = NoCall] /\ UNCHANGED <<created, row, file>>
    BY DEF PrepareFails, GraphDone, GraphFails, Stops, Answered, Raised, db
  <1>3. call'["import"].at = "idle"
    BY <1>1, <1>2 DEF NoCall
  <1>4. Saved' = 0 /\ Importing' = 0 /\ Importing = 1 /\ \A t, l : Pending(t, l)' = 0 /\ (call["import"].at # "prepare" => Pending(t, l) = 0)
    BY <1>3 DEF Saved, Importing, Pending, PrepareFails, GraphDone, GraphFails, Stops
  <1>5. \/ call["import"].at = "graph" /\ import' = [import EXCEPT !.imported = import.imported + 1]
        \/ import' = [import EXCEPT !.failed = import.failed + 1]
        \/ import' = [import EXCEPT !.on = FALSE]
    BY <1>1 DEF PrepareFails, GraphDone, GraphFails, Stops, Answered, Raised
  <1>6. /\ import.imported \in Nat /\ import.failed \in Nat /\ Saved \in {0, 1}
        /\ Cardinality(import.brought) \in Nat /\ (call["import"].at = "graph" => Saved = 1)
        /\ import.imported + Saved <= Cardinality(import.brought)
        /\ import.on => Cardinality(import.brought) <= import.imported + import.failed + Saved
    BY <1>1, BroughtAreFinite DEF Imports, Saved, Importance, ImportCounted
  <1>10. ASSUME import'.on = import.on, import'.queue = import.queue,
                import'.imported + import'.failed = import.imported + import.failed + 1
         PROVE  QueueIsRest' /\ Done' = Done
    <2>1. Parse(file') = Parse(file) /\ file' = file
      BY <1>2
    <2>2. Done' = Done
      BY <1>10, <2>1 DEF Done
    <2>3. ASSUME import.on
          PROVE  /\ file.rows # <<>> /\ Done \in Nat
                 /\ import'.imported + import'.failed + Importing' = Done
                 /\ \A n \in 1..Len(import.queue) : import.queue[n] = Parse(file)[Done + n]
      <3>1. /\ file.rows # <<>> /\ Done \in Nat
            /\ import.imported + import.failed + Importing = Done
            /\ \A n \in 1..Len(import.queue) : import.queue[n] = Parse(file)[Done + n]
        BY <2>3 DEF Importance, QueueIsRest
      <3> QED
        BY <1>4, <1>6, <1>10, <3>1
    <2> QED
      BY <1>10, <2>1, <2>2, <2>3 DEF QueueIsRest
  <1>7. CASE call["import"].at = "graph" /\ import' = [import EXCEPT !.imported = import.imported + 1]
    <2>1. /\ import'.imported = import.imported + 1 /\ import'.failed = import.failed
          /\ import'.on = import.on /\ import'.brought = import.brought /\ import'.queue = import.queue
      BY <1>1, <1>7 DEF Imports
    <2>2. ImportCounted'
      BY <1>4, <1>6, <1>7, <2>1 DEF ImportCounted
    <2>3. QueueIsRest' /\ Done' = Done
      BY <1>2, <1>4, <1>6, <1>10, <2>1
    <2>4. \A t, l : Brought(t, l)' = Brought(t, l)
      BY <1>2, <2>1 DEF Brought
    <2>5. ReadIsBrought'
      BY <1>2, <1>4, <1>7, <2>1, <2>3, <2>4 DEF Importance, ReadIsBrought
    <2> QED
      BY <2>2, <2>3, <2>5 DEF Importance
  <1>8. CASE import' = [import EXCEPT !.failed = import.failed + 1]
    <2>1. /\ import'.imported = import.imported /\ import'.failed = import.failed + 1
          /\ import'.on = import.on /\ import'.brought = import.brought /\ import'.queue = import.queue
      BY <1>1, <1>8 DEF Imports
    <2>2. ImportCounted'
      BY <1>4, <1>6, <2>1 DEF ImportCounted
    <2>3. QueueIsRest'
      BY <1>2, <1>4, <1>6, <1>10, <2>1
    <2>4. ReadIsBrought'
      BY <1>6, <2>1 DEF ReadIsBrought
    <2> QED
      BY <2>2, <2>3, <2>4 DEF Importance
  <1>9. CASE import' = [import EXCEPT !.on = FALSE]
    <2>1. /\ import'.imported = import.imported /\ import'.brought = import.brought /\ ~import'.on
      BY <1>1, <1>9 DEF Imports
    <2> QED
      BY <1>4, <1>6, <2>1 DEF Importance, ImportCounted, QueueIsRest, ReadIsBrought
  <1> QED
    BY <1>5, <1>7, <1>8, <1>9

LEMMA NextImportance ==
  Recorded /\ Importance /\ [AccessNext]_accessVars => Importance'
  <1> SUFFICES ASSUME Recorded, Importance, [AccessNext]_accessVars
               PROVE  Importance'
    OBVIOUS
  <1>0. /\ created \in Nat /\ call \in [Sources -> Calls \cup {NoCall}] /\ "import" \in Sources
        /\ "import" \notin Users /\ created <= MaxRows /\ row \in Seq(Rows) /\ Len(row) = created
    BY UsersAssumption DEF Recorded, Typed, Sources, UsersAssumption
  <1>1. ASSUME UNCHANGED <<created, row, call, import>>, import.on => UNCHANGED file
        PROVE  Importance'
    <2>1. RowsStay
      BY <1>0, <1>1 DEF RowsStay
    <2> QED
      BY <1>1, <2>1, ImportanceStays
  <1>2. ASSUME NEW u \in Users, NEW l \in Levels, NEW tagged \in BOOLEAN, Call(u, l, tagged)
        PROVE  Importance'
    <2>1. /\ UNCHANGED <<created, row, import, file>>
          /\ call' = [call EXCEPT ![u] = Asked(TextOf[u], l, tagged, TRUE)]
      BY <1>2 DEF Call, db
    <2>2. RowsStay
      BY <1>0, <2>1 DEF RowsStay
    <2>3. call'["import"] = call["import"]
      BY <1>0, <2>1
    <2> QED
      BY <2>1, <2>2, <2>3, ImportanceStays
  <1>3. ASSUME NEW c \in Sources, NEW high \in BOOLEAN, Prepared(c, high)
        PROVE  Importance'
    <2>1. CASE c = "import"
      BY <1>3, <2>1, ImportSaves
    <2>2. CASE c # "import"
      <3>1. call[c].at = "prepare" /\ Save(c, Lifted(call[c].layer, high)) /\ c \in Users
        BY <1>3, <2>2 DEF Prepared, Sources
      <3>2. Lifted(call[c].layer, high) \in Range(Layers)
        BY <3>1, CallIs, LiftedIsALayer DEF Recorded
      <3>3. RowsStay /\ file' = file /\ import' = import
        BY <3>1, <3>2, SaveIs
      <3>4. \E new \in Calls : call' = [call EXCEPT ![c] = new]
        BY <3>1, <3>2, SaveIs
      <3>5. call'["import"] = call["import"]
        BY <1>0, <2>2, <3>4
      <3> QED
        BY <3>3, <3>5, ImportanceStays
    <2> QED
      BY <2>1, <2>2
  <1>4. ASSUME NEW c \in Sources, Tagged(c) \/ TagFails(c)
        PROVE  Importance'
    <2>1. PICK suggested \in BOOLEAN : AskForGraph(c, suggested)
      BY <1>4 DEF Tagged, TagFails
    <2> DEFINE new == [call[c] EXCEPT !.at = "graph", !.suggested = suggested]
    <2>2. call[c].at = "tag" /\ (Resave(c) \/ UNCHANGED db)
      BY <1>4 DEF Tagged, TagFails
    <2>3. RowsStay
      BY <2>2, ResaveIs
    <2>4. call' = [call EXCEPT ![c] = new] /\ UNCHANGED <<file, import>>
      BY <2>1 DEF AskForGraph
    <2>5. call[c] \in Calls
      BY <2>2, CallIs DEF Recorded
    <2>6. new.at = "graph"
      BY <2>5 DEF Calls
    <2> HIDE DEF new
    <2>7. call'["import"] = IF c = "import" THEN new ELSE call["import"]
      BY <1>0, <2>4
    <2> QED
      BY <2>2, <2>3, <2>4, <2>6, <2>7, ImportanceStays
  <1>5. ASSUME NEW c \in Sources, PrepareFails(c) \/ GraphDone(c) \/ GraphFails(c) \/ Stops(c)
        PROVE  Importance'
    <2>1. CASE c = "import"
      BY <1>5, <2>1, ImportEnds
    <2>2. CASE c # "import"
      <3>1. /\ call' = [call EXCEPT ![c] = NoCall] /\ UNCHANGED <<created, row, file, import>>
        BY <1>5, <2>2 DEF PrepareFails, GraphDone, GraphFails, Stops, Answered, Raised, db, Sources
      <3>2. RowsStay /\ call'["import"] = call["import"]
        BY <1>0, <2>2, <3>1 DEF RowsStay
      <3> QED
        BY <3>1, <3>2, ImportanceStays
    <2> QED
      BY <2>1, <2>2
  <1>6. ASSUME NEW c \in Sources, Remember(c) \/ Stops(c)
        PROVE  Importance'
    BY <1>3, <1>4, <1>5, <1>6 DEF Remember
  <1>7. ASSUME NEW markdown \in BOOLEAN, NEW suffix \in Suffixes, Export(markdown, suffix)
        PROVE  Importance'
    <2>1. UNCHANGED <<created, row, call, import>> /\ ~import.on
      BY <1>7 DEF Export, db, Importance, QueueIsRest
    <2> QED
      BY <1>1, <2>1
  <1>8. CASE UNCHANGED accessVars \/ \E id \in stored : Forget(id)
    <2>1. UNCHANGED <<created, row, call, import, file>>
      BY <1>8 DEF accessVars, Forget
    <2> QED
      BY <1>1, <2>1
  <1> QED
    BY <1>2, <1>6, <1>7, <1>8, ImportStarts, ImportGoesOn DEF AccessNext

\* What the last memory leaves is what the property asks for.
LEMMA ImportanceIsEnough ==
  Recorded /\ Importance => ImportSound
  <1> SUFFICES ASSUME Recorded, Importance
               PROVE  ImportSound
    OBVIOUS
  <1>1. /\ Typed /\ import \in Imports /\ file \in [rows : Seq(Records), markdown : BOOLEAN, suffix : Suffixes]
        /\ file.rows \in Seq(Records) /\ Len(file.rows) \in Nat
    BY DEF Recorded, Typed
  <1>2. ImportCountsRight
    <2>1. /\ import.imported \in Nat /\ import.failed \in Nat /\ Cardinality(import.brought) \in Nat
      BY <1>1, BroughtAreFinite DEF Imports
    <2>2. Saved \in {0, 1} /\ Importing \in {0, 1} /\ Saved <= Importing
      BY DEF Saved, Importing
    <2>3. ASSUME ImportDone
          PROVE  import.imported + import.failed = Len(Parse(file))
      <3>1. Len(Parse(file)) \in Nat
        BY <1>1, ParsedAreRecords
      <3>2. Done = Len(Parse(file)) /\ Importing = 0
        BY <2>3, <3>1 DEF Done, ImportDone
      <3> QED
        BY <2>1, <2>3, <3>2 DEF Importance, QueueIsRest, ImportDone
    <2> QED
      BY <2>1, <2>2, <2>3 DEF Importance, ImportCounted, ImportCountsRight
  <1>3. ASSUME ImportDone, import.failed = 0, CalledWhatItIs(file), NEW t \in Texts, NEW l \in 1..Len(Layers)
        PROVE  LET saved(k) == {id \in import.brought : row[id].text = t /\ Rank(row[id].layer) >= k}
                   read == {n \in DOMAIN file.rows : file.rows[n].text = t /\ Rank(file.rows[n].layer) >= l}
               IN  IF file.markdown
                   THEN Pieces[t] = <<t>> => Cardinality(read) <= Cardinality(saved(1))
                   ELSE Cardinality(read) <= Cardinality(saved(l))
    <2> DEFINE Q == Parse(file)
               read == ReadUpTo(file.rows, Len(file.rows), t, l)
    <2>1. import.on /\ import.queue = <<>> /\ call["import"].at = "idle"
      BY <1>3 DEF ImportDone, Importing
    <2>2. Q \in Seq(Records) /\ Len(Q) \in Nat
      <3>1. Q \in Seq(Records)
        BY <1>1, ParsedAreRecords
      <3> QED
        BY <3>1
    <2>3. Done = Len(Q)
      BY <2>1, <2>2 DEF Done
    <2>4. ASSUME NEW k \in 1..Len(Layers)
          PROVE  Cardinality(ReadUpTo(Q, Len(Q), t, k)) <= Cardinality(Brought(t, k))
      <3>1. Pending(t, k) = 0
        BY <2>1 DEF Pending
      <3>2. Cardinality(ReadUpTo(Q, Done, t, k)) <= Cardinality(Brought(t, k)) + Pending(t, k)
        BY <1>3, <2>1 DEF Importance, ReadIsBrought
      <3>3. Cardinality(Brought(t, k)) \in Nat
        BY <1>1, BroughtAreFinite
      <3> HIDE DEF Q
      <3> QED
        BY <2>3, <3>1, <3>2, <3>3
    <2>5. ASSUME ~file.markdown
          PROVE  Cardinality(read) <= Cardinality(Brought(t, l))
      BY <1>3, <2>4, <2>5 DEF Parse, ParseJson, CalledWhatItIs
    <2>6. ASSUME file.markdown, Pieces[t] = <<t>>
          PROVE  Cardinality(read) <= Cardinality(Brought(t, 1))
      <3> DEFINE whole == Of(file.rows, Len(file.rows), t)
                 parsed == Of(Q, Len(Q), t)
      <3>1. Q = Cut(file.rows)
        BY <1>3, <2>6 DEF Parse, CalledWhatItIs
      <3>2. Cardinality(whole) <= Cardinality(parsed)
        BY <1>1, <2>6, <3>1, CutKeeps
      <3>3. Cardinality(read) <= Cardinality(whole)
        <4>1. IsFiniteSet(whole)
          BY <1>1, OfIsFinite
        <4>2. read \in SUBSET whole
          BY DEF ReadUpTo, Of
        <4> HIDE DEF whole, read
        <4> QED
          BY <4>1, <4>2, FS_Subset
      <3>4. parsed = ReadUpTo(Q, Len(Q), t, 1)
        <4>1. \A i \in 1..Len(Q) : Rank(Q[i].layer) >= 1
          <5>1. ASSUME NEW i \in 1..Len(Q)
                PROVE  Rank(Q[i].layer) >= 1
            <6>1. Q[i] \in Records
              BY <2>2
            <6>2. Q[i].layer \in Range(Layers)
              BY <6>1 DEF Records
            <6> QED
              BY <6>2, RankIs
          <5> QED
            BY <5>1
        <4> HIDE DEF Q
        <4> QED
          BY <4>1 DEF Of, ReadUpTo
      <3>5. Cardinality(parsed) <= Cardinality(Brought(t, 1))
        <4>1. 1 \in 1..Len(Layers)
          BY DEF Layers
        <4> QED
          BY <2>4, <3>4, <4>1
      <3>6. /\ Cardinality(read) \in Nat /\ Cardinality(whole) \in Nat /\ Cardinality(parsed) \in Nat
            /\ Cardinality(Brought(t, 1)) \in Nat
        BY <1>1, <2>2, OfIsFinite, ReadIsFinite, BroughtAreFinite
      <3> HIDE DEF read, whole, parsed
      <3> QED
        BY <3>2, <3>3, <3>5, <3>6
    <2>7. /\ {n \in DOMAIN file.rows : file.rows[n].text = t /\ Rank(file.rows[n].layer) >= l} = read
          /\ \A k : {id \in import.brought : row[id].text = t /\ Rank(row[id].layer) >= k} = Brought(t, k)
      BY <1>1 DEF ReadUpTo, Brought
    <2> HIDE DEF read, Q
    <2> QED
      BY <2>5, <2>6, <2>7
  <1>4. ImportRestores
    BY <1>3 DEF ImportRestores
  <1> QED
    BY <1>2, <1>4 DEF ImportSound

\* For every number of users, calls, rows and deletions: what "Imported n/m" counts
\* was saved and was all that was found; and an import that reports no failure, of a
\* file that is called what its format is, has brought back all that the export had
\* read, of a Markdown file the texts that its parser does not cut.
THEOREM ImportsAreSound == AccessSpec => []ImportSound
  <1>1. AccessInit => Importance
    <2> SUFFICES ASSUME AccessInit
                 PROVE  Importance
      OBVIOUS
    <2>1. /\ call["import"].at = "idle" /\ import.brought = {} /\ import.imported = 0 /\ ~import.on
      BY DEF AccessInit, NoCall, NoImport, Sources
    <2>2. Cardinality(import.brought) = 0 /\ Saved = 0
      BY <2>1, FS_EmptySet DEF Saved
    <2> QED
      BY <2>1, <2>2 DEF Importance, ImportCounted, QueueIsRest, ReadIsBrought
  <1>2. Recorded /\ Importance /\ [AccessNext]_accessVars => Importance'
    BY NextImportance
  <1>3. Recorded /\ Importance => ImportSound
    BY ImportanceIsEnough
  <1> QED
    BY <1>1, <1>2, <1>3, RecordedAlways, PTL DEF AccessSpec

=============================================================================
