---- MODULE PxwebV1Crawl ----
(* catalog.py, _crawl_navigation: a breadth-first walk of the navigation API *)
(* of one PXWeb database.  A folder is its path; the server answers each     *)
(* folder once, with any list of entries, or not at all.                     *)
(*                                                                           *)
(* A definition right above the one it varies is a mutant: what the code     *)
(* could wrongly do.  No action uses it.                                     *)
EXTENDS Integers, Sequences, FiniteSets

CONSTANTS
  Id,          \* ids of folders and tables
  Key,         \* ids after casefold()
  Fold,        \* casefold()
  Answers,     \* what a folder may answer: sequences of entries
  MaxFolders   \* MAX_NAVIGATION_FOLDERS

Path  == Seq(Id)
Entry == [type : {"l", "t", "other"}, id : Id]

ASSUME CrawlAssumption ==
  /\ MaxFolders \in Nat \ {0}
  /\ Fold \in [Id -> Key]
  /\ Answers \subseteq Seq(Entry)

VARIABLES
  pc,
  pending, seenFolders, seenTables, output,
  path, at,    \* the folder being read and the index of its next entry
  answer,      \* history: what each answered folder listed
  skipped,     \* history: the folders that answered 400 or 404
  why          \* history: how the crawl failed

lists == <<pending, seenFolders, seenTables, output>>
vars  == <<pc, lists, path, at, answer, skipped, why>>

Elems(s) == {s[i] : i \in 1..Len(s)}

TypeOK ==
  /\ pc \in {"asking", "reading", "done", "failed"}
  /\ pending \in Seq(Path)
  /\ seenFolders \subseteq Path /\ IsFiniteSet(seenFolders)
  /\ seenTables \subseteq Path \X Key
  /\ output \subseteq [path : Path, id : Id]
  /\ path \in Path /\ at \in Nat \ {0}
  /\ DOMAIN answer \subseteq Path /\ \A p \in DOMAIN answer : answer[p] \in Seq(Entry)
  /\ skipped \subseteq Path
  /\ why \in {"none", "request", "cap", "empty"}

Init ==
  /\ pc = "asking"
  /\ pending = << <<>> >> /\ seenFolders = {<<>>}
  /\ seenTables = {} /\ output = {}
  /\ path = <<>> /\ at = 1
  /\ answer = [p \in {} |-> <<>>] /\ skipped = {} /\ why = "none"

-----------------------------------------------------------------------------
Answered ==
  /\ pc = "asking" /\ pending # <<>>
  /\ \E entries \in Answers :
       answer' = [p \in DOMAIN answer \cup {Head(pending)} |->
                    IF p = Head(pending) THEN entries ELSE answer[p]]
  /\ path' = Head(pending) /\ at' = 1
  /\ pending' = Tail(pending)
  /\ pc' = "reading"
  /\ UNCHANGED <<seenFolders, seenTables, output, skipped, why>>

\* A branch that answers 400 or 404 is left out; the root may not.
AskAgainLater ==
  /\ pc = "asking" /\ pending # <<>> /\ Head(pending) # <<>>
  /\ skipped' = skipped \cup {Head(pending)}
  /\ pending' = Append(Tail(pending), Head(pending))
  /\ UNCHANGED <<pc, seenFolders, seenTables, output, path, at, answer, why>>
Unreachable ==
  /\ pc = "asking" /\ pending # <<>> /\ Head(pending) # <<>>
  /\ skipped' = skipped \cup {Head(pending)}
  /\ pending' = Tail(pending)
  /\ UNCHANGED <<pc, seenFolders, seenTables, output, path, at, answer, why>>

\* Any other status, no response, 429 to the end, or no list of objects.
RequestFails ==
  /\ pc = "asking" /\ pending # <<>>
  /\ pc' = "failed" /\ why' = "request"
  /\ UNCHANGED <<lists, path, at, answer, skipped>>

Reading  == pc = "reading" /\ at <= Len(answer[path])
NextEntry == answer[path][at]
Child    == Append(path, NextEntry.id)

FullBefore == Cardinality(seenFolders) + 1 >= MaxFolders
Full       == Cardinality(seenFolders) >= MaxFolders

Enqueue ==
  /\ seenFolders' = seenFolders \cup {Child}
  /\ pending' = Append(pending, Child)

ReadFolder ==
  /\ Reading /\ NextEntry.type = "l"
  /\ IF Child \in seenFolders
     THEN at' = at + 1 /\ UNCHANGED <<pc, pending, seenFolders, why>>
     ELSE IF Full
     THEN pc' = "failed" /\ why' = "cap" /\ UNCHANGED <<at, pending, seenFolders>>
     ELSE Enqueue /\ at' = at + 1 /\ UNCHANGED <<pc, why>>
  /\ UNCHANGED <<seenTables, output, path, answer, skipped>>

\* One occurrence per folder and casefolded id, the first one met.
KeyOfId(id)    == <<<<>>, Fold[id]>>
TableKey(id) == <<path, Fold[id]>>

ReadTable ==
  /\ Reading /\ NextEntry.type = "t"
  /\ at' = at + 1
  /\ IF TableKey(NextEntry.id) \in seenTables
     THEN UNCHANGED <<seenTables, output>>
     ELSE /\ seenTables' = seenTables \cup {TableKey(NextEntry.id)}
          /\ output' = output \cup {[path |-> path, id |-> NextEntry.id]}
  /\ UNCHANGED <<pc, pending, seenFolders, path, answer, skipped, why>>

\* An entry of another type, or without a usable id.
ReadOther ==
  /\ Reading /\ NextEntry.type = "other"
  /\ at' = at + 1
  /\ UNCHANGED <<pc, lists, path, answer, skipped, why>>

EndOfAnswer ==
  /\ pc = "reading" /\ at > Len(answer[path])
  /\ pc' = "asking"
  /\ UNCHANGED <<lists, path, at, answer, skipped, why>>

Finish ==
  /\ pc = "asking" /\ pending = <<>>
  /\ IF output = {} THEN pc' = "failed" /\ why' = "empty"
                    ELSE pc' = "done" /\ UNCHANGED why
  /\ UNCHANGED <<lists, path, at, answer, skipped>>

Next ==
  \/ Answered \/ Unreachable \/ RequestFails
  \/ ReadFolder \/ ReadTable \/ ReadOther \/ EndOfAnswer \/ Finish

Spec == Init /\ [][Next]_vars

-----------------------------------------------------------------------------
\* What the answers name: the folders, and the tables by folder and key.
Folders ==
  {<<>>} \cup UNION {{Append(p, e.id) : e \in {f \in Elems(answer[p]) : f.type = "l"}}
                     : p \in DOMAIN answer}
Tables ==
  UNION {{<<p, Fold[e.id]>> : e \in {f \in Elems(answer[p]) : f.type = "t"}}
         : p \in DOMAIN answer}

\* A crawl that ends well has asked for every folder an answer named, and no
\* other, and lists every table an answer named, and no other; what it left out
\* is below a folder that answered 400 or 404.
ListingIsExact ==
  pc = "done" =>
    /\ Folders = DOMAIN answer \cup skipped
    /\ seenTables = Tables
    /\ {<<t.path, Fold[t.id]>> : t \in output} = Tables

\* A table is listed once per folder, however its id is spelled.
OneSpelling ==
  \A s, t \in output : s.path = t.path /\ Fold[s.id] = Fold[t.id] => s = t

\* The cap bounds the folders, and only a catalogue with more folders meets it.
CapIsExact ==
  /\ Cardinality(seenFolders) <= MaxFolders
  /\ why = "cap" => \E S \in SUBSET Folders : Cardinality(S) > MaxFolders

\* No folder is asked for twice, whatever the answers repeat.
AskedOnce ==
  pc = "asking" /\ pending # <<>> => Head(pending) \notin DOMAIN answer \cup skipped
====
