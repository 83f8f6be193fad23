---------------------------- MODULE MemoryAccess ----------------------------
(***************************************************************************)
(* How memories come in and go out: the callers of                         *)
(* MemoryEngine.remember (HTTP, WebSocket, gRPC and the command line), and *)
(* "deepspace export" and "import-memories" of cli/deepspace.py.  A call   *)
(* of remember may raise before the memory is saved and after it, and its  *)
(* caller, told only of an error, may try again.                           *)
(*                                                                         *)
(* Abstractions.  A user has one thing to remember.  Importance is high or *)
(* not.  Every text is long enough for the model to be asked for tags, and *)
(* a row only says whether it has any.  An export without --layer and      *)
(* --project is modelled.  What later changes a row is in MemoryEngine.    *)
(***************************************************************************)
EXTENDS Naturals, Sequences, FiniteSets, Functions

CONSTANTS
  Texts,
  Pieces,       \* per text, what the Markdown parser makes of it
  Users, TextOf,
  MaxCalls,     \* calls of all the users
  Levels,       \* the layers they ask for
  MaxRows,      \* memories ever saved
  MaxForgotten, \* memories deleted
  Quota,        \* exported per layer: a quarter of the limit
  GraphEvery    \* an import extracts the graph of every GraphEvery-th memory (5)

Layers == <<"short_term", "working", "long_term", "meta">>
Rank(l) == CHOOSE i \in 1..Len(Layers) : Layers[i] = l

ASSUME PiecesAssumption == Pieces \in [Texts -> Seq(Texts)]
ASSUME UsersAssumption == TextOf \in [Users -> Texts] /\ "import" \notin Users
ASSUME BoundsAssumption ==
  /\ Levels \subseteq Range(Layers)
  /\ MaxCalls \in Nat /\ MaxRows \in Nat /\ MaxForgotten \in Nat /\ Quota \in Nat /\ GraphEvery \in Nat \ {0}

\* What an import goes by: .json, .md or .markdown, and all the others.
Suffixes == {"json", "md", "other"}

Sources == Users \cup {"import"}
Rows == [text : Texts, layer : Range(Layers), tagged : BOOLEAN, source : Sources]

VARIABLES
  created, row,      \* rows ever saved, the latest the highest, and their contents
  stored, forgotten, \* the ids the table has now, and those that were deleted
  call,              \* per caller: its call of remember
  calls,             \* made by users so far
  errors,            \* per user: the calls that ended in an error
  told,              \* per user: the id it was told of, or 0
  file,              \* the export
  import             \* the import: what is still to come and what was counted

db == <<created, row, stored, forgotten>>
accessVars == <<created, row, stored, forgotten, call, calls, errors, told, file, import>>

NoCall == [at |-> "idle"]
Calls ==
  [at : {"prepare", "tag", "graph"}, id : 0..MaxRows, text : Texts,
   layer : Range(Layers), tagged : BOOLEAN, graph : BOOLEAN, suggested : BOOLEAN]
Records == [text : Texts, layer : Range(Layers), tagged : BOOLEAN]
NoImport == [on |-> FALSE, queue |-> <<>>, imported |-> 0, failed |-> 0, brought |-> {}]

AccessTypeOK ==
  /\ created \in 0..MaxRows /\ stored \subseteq 1..created /\ forgotten \subseteq 1..created
  /\ row \in [1..created -> Rows]
  /\ call \in [Sources -> Calls \cup {NoCall}]
  /\ calls \in 0..MaxCalls /\ errors \in [Users -> 0..MaxCalls]
  /\ told \in [Users -> 0..created]
  /\ file \in [rows : Seq(Records), markdown : BOOLEAN, suffix : Suffixes]
  /\ import \in [on : BOOLEAN, queue : Seq(Records), imported : Nat, failed : Nat,
                 brought : SUBSET (1..created)]

AccessInit ==
  /\ created = 0 /\ row = <<>> /\ stored = {} /\ forgotten = {}
  /\ call = [c \in Sources |-> NoCall]
  /\ calls = 0 /\ errors = [u \in Users |-> 0]
  /\ told = [u \in Users |-> 0]
  /\ file = [rows |-> <<>>, markdown |-> FALSE, suffix |-> "json"]
  /\ import = NoImport

-----------------------------------------------------------------------------
(* Callers *)

Asked(text, layer, tagged, graph) ==
  [at |-> "prepare", id |-> 0, text |-> text, layer |-> layer, tagged |-> tagged,
   graph |-> graph, suggested |-> FALSE]

Call(u, layer, tagged) ==
  /\ call[u].at = "idle" /\ told[u] = 0 /\ calls < MaxCalls
  /\ calls' = calls + 1
  /\ call' = [call EXCEPT ![u] = Asked(TextOf[u], layer, tagged, TRUE)]
  /\ UNCHANGED <<db, errors, told, file, import>>

\* remember returned: the id is in the answer.  For the import it is a success
\* counted.
Answered(c) ==
  /\ call' = [call EXCEPT ![c] = NoCall]
  /\ IF c \in Users
     THEN told' = [told EXCEPT ![c] = call[c].id] /\ UNCHANGED import
     ELSE import' = [import EXCEPT !.imported = @ + 1] /\ UNCHANGED told
  /\ UNCHANGED <<calls, errors, file>>

\* It raised: status 500, INTERNAL, a closed socket or a traceback.
Raised(c) ==
  /\ call' = [call EXCEPT ![c] = NoCall]
  /\ IF c \in Users
     THEN errors' = [errors EXCEPT ![c] = @ + 1] /\ UNCHANGED import
     ELSE import' = [import EXCEPT !.failed = @ + 1] /\ UNCHANGED errors
  /\ UNCHANGED <<calls, told, file>>

-----------------------------------------------------------------------------
(* remember *)

\* Short-term memories of high importance start in working.
Lifted(layer, high) == IF high /\ layer = "short_term" THEN "working" ELSE layer

SaveSwallowing(c, layer) ==
  LET id == created + 1
  IN  /\ created < MaxRows
      /\ created' = id
      /\ row' = Append(row, [text |-> call[c].text, layer |-> layer,
                             tagged |-> call[c].tagged, source |-> c])
      /\ stored' \in {stored, stored \cup {id}}
      /\ call' = [call EXCEPT ![c] = [call[c] EXCEPT !.id = id, !.layer = layer,
                                                    !.at = IF call[c].tagged THEN "graph" ELSE "tag"]]
      /\ import' = IF c \in Users THEN import ELSE [import EXCEPT !.brought = @ \cup {id}]
      /\ UNCHANGED <<forgotten, calls, errors, told, file>>

\* A new row; the model is asked for tags if there is none.
Save(c, layer) ==
  LET id == created + 1
  IN  /\ created < MaxRows
      /\ created' = id
      /\ row' = Append(row, [text |-> call[c].text, layer |-> layer,
                             tagged |-> call[c].tagged, source |-> c])
      /\ stored' = stored \cup {id}
      /\ call' = [call EXCEPT ![c] = [call[c] EXCEPT !.id = id, !.layer = layer,
                                                    !.at = IF call[c].tagged THEN "graph" ELSE "tag"]]
      /\ import' = IF c \in Users THEN import ELSE [import EXCEPT !.brought = @ \cup {id}]
      /\ UNCHANGED <<forgotten, calls, errors, told, file>>

\* The model has said what the memory is and how important, its summary and
\* embedding are made, and it is saved.
Prepared(c, high) ==
  /\ call[c].at = "prepare"
  /\ Save(c, Lifted(call[c].layer, high))

\* A question to the model failed, or the statement.
PrepareFails(c) ==
  /\ call[c].at = "prepare"
  /\ Raised(c)
  /\ UNCHANGED db

ResaveAsNew(c) ==
  LET id == created + 1
  IN  /\ created < MaxRows
      /\ created' = id
      /\ stored' = stored \cup {id}
      /\ row' = Append(row, [row[call[c].id] EXCEPT !.tagged = TRUE])
      /\ UNCHANGED forgotten

\* save_memory again.  A row that is there keeps its tags (they are not among
\* the columns that ON CONFLICT updates); one that was deleted meanwhile is
\* inserted with them.
Resave(c) ==
  LET id == call[c].id
  IN  /\ stored' = stored \cup {id}
      /\ row' = IF id \in stored THEN row ELSE [row EXCEPT ![id].tagged = TRUE]
      /\ UNCHANGED <<created, forgotten>>

AskForGraph(c, suggested) ==
  /\ call' = [call EXCEPT ![c] = [call[c] EXCEPT !.at = "graph", !.suggested = suggested]]
  /\ UNCHANGED <<calls, errors, told, file, import>>

Tagged(c) ==
  /\ call[c].at = "tag"
  /\ Resave(c)
  /\ AskForGraph(c, TRUE)

\* "Non-critical": no tags, or the row could not be saved again.
TagFails(c) ==
  /\ call[c].at = "tag"
  /\ AskForGraph(c, FALSE)
  /\ UNCHANGED db

\* The graph is stored, or was not asked for.  What the graph store refuses is
\* only logged (see KnowledgeGraph), but the question to the model may fail.
GraphDone(c) ==
  /\ call[c].at = "graph"
  /\ Answered(c)
  /\ UNCHANGED db

GraphFails(c) ==
  /\ call[c].at = "graph" /\ call[c].graph
  /\ Raised(c)
  /\ UNCHANGED db

Forget(id) ==
  /\ id \in stored /\ Cardinality(forgotten) < MaxForgotten
  /\ stored' = stored \ {id} /\ forgotten' = forgotten \cup {id}
  /\ UNCHANGED <<created, row, call, calls, errors, told, file, import>>

-----------------------------------------------------------------------------
(* export and import-memories *)

\* get_by_layer: the newest Quota rows, the newest first.
Newest(l) ==
  LET upTo[i \in 0..created] ==
        IF i = 0 THEN <<>>
        ELSE IF i \in stored /\ row[i].layer = l
             THEN <<[text |-> row[i].text, layer |-> l, tagged |-> row[i].tagged]>> \o upTo[i - 1]
             ELSE upTo[i - 1]
      all == upTo[created]
  IN  SubSeq(all, 1, IF Len(all) <= Quota THEN Len(all) ELSE Quota)

\* The format is what --format says, JSON by default, whatever the file is called.
Export(markdown, suffix) ==
  /\ file.rows = <<>> /\ stored # {}
  /\ file' = [rows |-> Newest("short_term") \o Newest("working") \o Newest("long_term") \o Newest("meta"),
              markdown |-> markdown, suffix |-> suffix]
  /\ UNCHANGED <<db, call, calls, errors, told, import>>

\* Read back without layer and tags.
Plain(t) == [text |-> t, layer |-> "short_term", tagged |-> FALSE]

\* A Markdown file, cut at what looks like the next heading and after what looks
\* like the end of a memory.
Cut(rows) ==
  LET upTo[n \in 0..Len(rows)] ==
        IF n = 0 THEN <<>>
        ELSE upTo[n - 1] \o [k \in 1..Len(Pieces[rows[n].text]) |-> Plain(Pieces[rows[n].text][k])]
  IN  upTo[Len(rows)]

\* JSON keeps text, layer and tags.
ParseJsonForgettingLayers(rows) == [n \in 1..Len(rows) |-> Plain(rows[n].text)]
ParseJson(rows) == rows

\* The parser is chosen by the suffix.  JSON text has no headings, so as Markdown
\* it is a file without memories.
Parse(f) ==
  IF f.suffix = "json" THEN ParseJson(f.rows)
  ELSE IF f.markdown THEN Cut(f.rows) ELSE <<>>

\* Markdown is no JSON, and the command ends with the parser's error; any other
\* suffix is unsupported, and it ends too.
Readable(f) == f.suffix = "md" \/ (f.suffix = "json" /\ ~f.markdown)

Import ==
  /\ ~import.on /\ import.brought = {} /\ file.rows # <<>> /\ Readable(file)
  /\ import' = [NoImport EXCEPT !.on = TRUE, !.queue = Parse(file)]
  /\ UNCHANGED <<db, call, calls, errors, told, file>>

ImportNextCounting ==
  /\ import.on /\ import.queue # <<>> /\ call["import"].at = "idle"
  /\ LET r == Head(import.queue)
     IN  call' = [call EXCEPT !["import"] =
                    Asked(r.text, r.layer, r.tagged, import.imported % GraphEvery = 0)]
  /\ import' = [import EXCEPT !.queue = Tail(@), !.imported = @ + 1]
  /\ UNCHANGED <<db, calls, errors, told, file>>

\* The next memory; its importance is assessed anew.
ImportNext ==
  /\ import.on /\ import.queue # <<>> /\ call["import"].at = "idle"
  /\ LET r == Head(import.queue)
     IN  call' = [call EXCEPT !["import"] =
                    Asked(r.text, r.layer, r.tagged, import.imported % GraphEvery = 0)]
  /\ import' = [import EXCEPT !.queue = Tail(@)]
  /\ UNCHANGED <<db, calls, errors, told, file>>

\* The process that serves c stops: users see a broken connection, and an
\* import is gone.
Stops(c) ==
  /\ call[c].at # "idle"
  /\ call' = [call EXCEPT ![c] = NoCall]
  /\ IF c \in Users
     THEN errors' = [errors EXCEPT ![c] = @ + 1] /\ UNCHANGED import
     ELSE import' = [import EXCEPT !.on = FALSE] /\ UNCHANGED errors
  /\ UNCHANGED <<db, calls, told, file>>

-----------------------------------------------------------------------------

Remember(c) ==
  \/ \E high \in BOOLEAN : Prepared(c, high)
  \/ PrepareFails(c)
  \/ Tagged(c) \/ TagFails(c)
  \/ GraphDone(c) \/ GraphFails(c)

AccessNext ==
  \/ \E u \in Users, l \in Levels, tagged \in BOOLEAN : Call(u, l, tagged)
  \/ \E c \in Sources : Remember(c) \/ Stops(c)
  \/ \E id \in stored : Forget(id)
  \/ \E markdown \in BOOLEAN, suffix \in Suffixes : Export(markdown, suffix)
  \/ Import \/ ImportNext

AccessSpec == AccessInit /\ [][AccessNext]_accessVars

-----------------------------------------------------------------------------
(* Properties *)

\* A user who was told of a memory has it, unless somebody deleted it: an error
\* after the answer's id was given out, or a deletion undone by saving again,
\* leaves no id without its row.
StoredWhenTold ==
  \A u \in Users : told[u] # 0 =>
    /\ row[told[u]].text = TextOf[u]
    /\ told[u] \in stored \cup forgotten

\* remember raises after it has saved, so who tries again until it succeeds
\* leaves copies behind: one for each error at most, besides the one asked for.
Copies(u) == {id \in 1..created : row[id].source = u}

CopiesExplained ==
  \A u \in Users :
    Cardinality(Copies(u)) <= errors[u] + (IF told[u] # 0 \/ call[u].at # "idle" THEN 1 ELSE 0)

\* "Imported n/m" is right: n memories at least were saved, and one more for
\* each failure at most; and m, what was found in the file, is what was
\* brought and what failed.
Importing == IF call["import"].at = "idle" THEN 0 ELSE 1
ImportDone == import.on /\ import.queue = <<>> /\ Importing = 0

ImportCountsRight ==
  /\ import.imported <= Cardinality(import.brought)
  /\ import.on =>
       Cardinality(import.brought) <= import.imported + import.failed + Importing
  /\ ImportDone => import.imported + import.failed = Len(Parse(file))

\* An import that reports no failure has brought everything back that the
\* export had read, if the file is called what its format is: as many memories
\* of each text, in layers at least as high, from JSON; from Markdown the
\* texts, if they do not look like several memories or an empty one.  JSON in a
\* file called .md comes to 0 of 0, and so brings nothing.
CalledWhatItIs(f) == f.suffix = (IF f.markdown THEN "md" ELSE "json")

ImportRestores ==
  ImportDone /\ import.failed = 0 /\ CalledWhatItIs(file) =>
    \A t \in Texts, l \in 1..Len(Layers) :
      LET saved(k) == {id \in import.brought : row[id].text = t /\ Rank(row[id].layer) >= k}
          read == {n \in DOMAIN file.rows : file.rows[n].text = t /\ Rank(file.rows[n].layer) >= l}
      IN  IF file.markdown
          THEN Pieces[t] = <<t>> => Cardinality(read) <= Cardinality(saved(1))
          ELSE Cardinality(read) <= Cardinality(saved(l))

\* What an import says it did it did.
ImportSound == ImportCountsRight /\ ImportRestores

\* memory_engine.py: "Re-save to persist tags to DB".
SuggestedTagsKept ==
  \A c \in Sources : call[c].at = "graph" /\ call[c].suggested /\ call[c].id \in stored =>
    row[call[c].id].tagged

=============================================================================
