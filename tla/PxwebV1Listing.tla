---- MODULE PxwebV1Listing ----
(* catalog.py, list_pxweb_tables: the flat search gives stamps, the web tree *)
(* gives paths, navigation folders give what only the web names; anything    *)
(* that goes wrong on the way falls back to the navigation crawl, whose      *)
(* outcome PxwebV1Crawl models.  Every answer is chosen when it arrives.     *)
EXTENDS Sequences, FiniteSets, Integers

CONSTANTS
  Id, Fold,          \* ids of tables, and casefold()
  Path, NoPath,      \* category paths; an item without a string path
  FlatAnswers,       \* sequences of [id : Id, path : Path \cup {NoPath}]
  WebAnswers         \* the same; NoPath is a link out of the database

ListingAssumption == NoPath \notin Path

None == [src |-> "none"]

VARIABLES
  pc,
  flat, web,        \* search_items, web_tables
  short,            \* paths the tree has fewer labels for than ids
  todo,             \* paths still to be asked by _fetch_web_only_metadata
  metadata,         \* path_metadata: keys <<path, folded id>>
  result,           \* of [id, path, meta]
  how,              \* which listing was returned
  trouble           \* history: a request or a check before the crawl went wrong
tree == <<web, short>>
vars == <<pc, flat, tree, todo, metadata, result, how, trouble>>

Elems(s) == {s[i] : i \in 1..Len(s)}
Keys(ts) == {Fold[t.id] : t \in ts}

Init ==
  /\ pc = "search" /\ flat = <<>> /\ web = <<>> /\ short = {} /\ todo = {} /\ metadata = {}
  /\ result = {} /\ how = "none" /\ trouble = FALSE

-----------------------------------------------------------------------------
\* filter=*&query=*; if the provider has no web_url, the answer is not used.
Searched ==
  /\ pc = "search"
  /\ flat' \in FlatAnswers
  /\ pc' \in {"tree", "crawl"}
  /\ UNCHANGED <<tree, todo, metadata, result, how, trouble>>

FallBack ==
  /\ pc' = "crawl" /\ trouble' = TRUE
  /\ UNCHANGED <<flat, tree, todo, metadata, result, how>>

\* _request and _json_objects raise: no response, a status that is not ok, an
\* answer of another shape; of a branch, 400 and 404 do not count.
TreeIsEnough ==
  /\ pc \in {"expand", "branches", "labels"}
  /\ pc' = "build" /\ trouble' = TRUE
  /\ UNCHANGED <<flat, tree, todo, metadata, result, how>>
RequestFails ==
  /\ pc \in {"search", "tree", "expand", "branches", "labels"}
  /\ pc = "branches" => todo # {}
  /\ FallBack

\* The page may carry the form that expands the tree; the tree of the second
\* page replaces the first.
FormFound ==
  /\ pc = "tree" /\ pc' = "expand"
  /\ UNCHANGED <<flat, tree, todo, metadata, result, how, trouble>>

\* Links outside the database are dropped (_resolved_web_tables).  Paths whose
\* tables the flat search does not know will be asked (_fetch_web_only_metadata).
Resolved(ts) == SelectSeq(ts, LAMBDA w : w.path # NoPath)

WebOnlyPaths(ts) == {t.path : t \in {u \in ts : Fold[u.id] \notin Keys(Elems(flat))}}

TreeRead ==
  /\ pc \in {"tree", "expand"}
  /\ \E answer \in WebAnswers :
       /\ web' = Resolved(answer)
       /\ todo' = WebOnlyPaths(Elems(web'))
  /\ short' \in SUBSET Path
  /\ pc' = "branches"
  /\ UNCHANGED <<flat, metadata, result, how, trouble>>

\* A branch names tables; those of them the web tree has there get metadata.
BranchRead ==
  /\ pc = "branches"
  /\ \E p \in todo, named \in SUBSET {Fold[i] : i \in Id} :
       /\ todo' = todo \ {p}
       /\ metadata' = metadata \cup
            {<<p, k>> : k \in named \cap (Keys({w \in Elems(web) : w.path = p})
                                           \ Keys(Elems(flat)))}
  /\ UNCHANGED <<pc, flat, tree, result, how, trouble>>

BranchIgnored ==
  /\ pc = "branches"
  /\ \E p \in todo : todo' = todo \ {p}
  /\ UNCHANGED <<pc, flat, tree, metadata, result, how, trouble>>

\* The API's labels are needed only if its language is not the web's.
BranchesRead ==
  /\ pc = "branches" /\ todo = {}
  /\ pc' \in {"labels", "build"}
  /\ UNCHANGED <<flat, tree, todo, metadata, result, how, trouble>>

\* _resolve_api_category_paths changes names only.
LabelsRead ==
  /\ pc = "labels" /\ pc' = "build"
  /\ UNCHANGED <<flat, tree, todo, metadata, result, how, trouble>>

-----------------------------------------------------------------------------
(* _tables_from_web                                                          *)

\* _metadata_for_web_table: the flat item of the same id at the same path, else
\* the first of that id, else what the branch said.
FirstIndex(S) == CHOOSE i \in S : \A j \in S : i <= j
OfId(id)      == {i \in 1..Len(flat) : Fold[flat[i].id] = Fold[id]}
OfIdAt(w)     == {i \in OfId(w.id) : flat[i].path = w.path}

FirstOfId(w) ==
  IF OfId(w.id) # {} THEN [src |-> "flat", path |-> flat[FirstIndex(OfId(w.id))].path]
  ELSE IF <<w.path, Fold[w.id]>> \in metadata THEN [src |-> "branch", path |-> w.path]
  ELSE None
MetadataFor(w) ==
  IF OfIdAt(w) # {} THEN [src |-> "flat", path |-> w.path] ELSE FirstOfId(w)

\* One occurrence per path and folded id, the first in the tree.
FirstOccurrences ==
  {i \in 1..Len(web) : \A j \in 1..Len(web) : j < i =>
     web[j].path # web[i].path \/ Fold[web[j].id] # Fold[web[i].id]}

Tables ==
  {[id |-> web[i].id, path |-> web[i].path, meta |-> MetadataFor(web[i])]
   : i \in {j \in FirstOccurrences : MetadataFor(web[j]) # None}}

ItemWithoutPath  == \E f \in Elems(flat) : f.path = NoPath
IncompleteLabels == \E t \in Tables : t.path \in short
Wrong == ItemWithoutPath \/ IncompleteLabels \/ Tables = {}

Build ==
  /\ pc = "build" /\ ~ Wrong
  /\ result' = Tables
  /\ pc' = "returned" /\ how' = "web"
  /\ UNCHANGED <<flat, tree, todo, metadata, trouble>>

StartsAgain ==
  /\ pc = "build" /\ Wrong
  /\ pc' = "search" /\ flat' = <<>> /\ web' = <<>> /\ short' = {} /\ metadata' = {}
  /\ UNCHANGED <<todo, result, how, trouble>>
BuildFails  == pc = "build" /\ Wrong /\ FallBack

\* One table stands for whatever the crawl lists.
Crawled ==
  /\ pc = "crawl"
  /\ \E id \in Id, p \in Path :
       result' = {[id |-> id, path |-> p, meta |-> [src |-> "crawl", path |-> p]]}
  /\ pc' = "returned" /\ how' = "crawl"
  /\ UNCHANGED <<flat, tree, todo, metadata, trouble>>

CrawlFails ==
  /\ pc = "crawl" /\ pc' = "failed"
  /\ UNCHANGED <<flat, tree, todo, metadata, result, how, trouble>>

Next ==
  \/ Searched \/ FormFound \/ TreeRead \/ RequestFails
  \/ BranchRead \/ BranchIgnored \/ BranchesRead \/ LabelsRead
  \/ Build \/ BuildFails \/ Crawled \/ CrawlFails

Spec == Init /\ [][Next]_vars

-----------------------------------------------------------------------------
Occurrences(ts) == {<<t.path, Fold[t.id]>> : t \in ts}

\* A list is built from the web tree only if nothing was wrong on the way, and
\* then of exactly those occurrences whose table the API knows: by search,
\* wherever it puts it, or in the folder the web names.  A table is in it once per
\* path, with the metadata the search has for that path if it has any, and with a
\* folder's only if the search does not know the table.
WebListIsSound ==
  how = "web" =>
    /\ ~ trouble
    /\ Occurrences(result) = Occurrences({w \in Elems(web) :
         \/ Fold[w.id] \in Keys(Elems(flat))
         \/ <<w.path, Fold[w.id]>> \in metadata})
    /\ \A t \in result :
         /\ \A u \in result : u.path = t.path /\ Fold[u.id] = Fold[t.id] => u = t
         /\ (\E f \in Elems(flat) : Fold[f.id] = Fold[t.id] /\ f.path = t.path) =>
              t.meta = [src |-> "flat", path |-> t.path]
         /\ t.meta.src = "branch" => Fold[t.id] \notin Keys(Elems(flat))
====
