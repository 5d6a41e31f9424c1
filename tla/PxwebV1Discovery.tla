---- MODULE PxwebV1Discovery ----
(* pxweb_v1/adapter.py, _discover_candidates: the databases of a provider    *)
(* one after the other, each listed by PxwebV1Listing, its occurrences       *)
(* grouped into candidates, and the runner that takes them one by one.       *)
EXTENDS Integers, Sequences, FiniteSets

CONSTANTS
  Databases,    \* db_ids, a sequence
  Id,           \* ids of tables, as spelled
  Path,         \* numbered in the order in which a listing is sorted; 0 is the root
  Stamp, NoStamp,
  Listings      \* what a database may list: sets of [id, path, stamp]

DiscoveryAssumption ==
  /\ Len(Databases) \in Nat /\ Path \subseteq Nat /\ NoStamp \notin Stamp
  /\ Listings \subseteq SUBSET [id : Id, path : Path, stamp : Stamp \cup {NoStamp}]

VARIABLES
  pc,
  db,       \* index of the database in hand
  listed,   \* what each database listed
  ready,    \* candidates of the database in hand, still to be yielded
  taken,    \* candidates the runner has accepted: its seen codes
  lost,     \* history: databases whose listing failed
  broken    \* history: <<db, id>> of tables whose processing raised
vars == <<pc, db, listed, ready, taken, lost, broken>>

Init ==
  /\ pc = "listing" /\ db = 1
  /\ listed = [d \in 1..Len(Databases) |-> {}]
  /\ ready = {} /\ taken = {} /\ lost = {} /\ broken = {}

-----------------------------------------------------------------------------
\* _candidate_from_occurrences: identity and stamp of the first occurrence, the
\* paths of all that have one.
Of(occs, id)    == {o \in occs : o.id = id}
Canonical(occs) == CHOOSE o \in occs : \A p \in occs : o.path <= p.path
AllPaths(occs)  == {o.path : o \in occs} \ {0}

Candidate(d, occs) ==
  [db |-> d, id |-> Canonical(occs).id, stamp |-> Canonical(occs).stamp,
   paths |-> AllPaths(occs)]

\* Without a stamp a table is skipped; an exception skips it alone.
EveryStamp(occs) == \A o \in occs : o.stamp # NoStamp
HasStamp(occs)   == Canonical(occs).stamp # NoStamp

Candidates(d, occs, bad) ==
  {Candidate(d, Of(occs, id)) : id \in
     {i \in {o.id : o \in occs} \ bad : HasStamp(Of(occs, i))}}

Listed ==
  /\ pc = "listing" /\ db <= Len(Databases)
  /\ \E occs \in Listings, bad \in SUBSET Id :
       /\ bad \subseteq {o.id : o \in occs}
       /\ listed' = [listed EXCEPT ![db] = occs]
       /\ ready' = Candidates(db, occs, bad)
       /\ broken' = broken \cup ({db} \X bad)
  /\ pc' = "yielding"
  /\ UNCHANGED <<db, taken, lost>>

\* Any exception of the listing is logged and the database contributes nothing.
ListFails ==
  /\ pc = "listing" /\ db <= Len(Databases)
  /\ lost' = lost \cup {db}
  /\ db' = db + 1
  /\ UNCHANGED <<pc, listed, ready, taken, broken>>

\* The runner refuses a code it has seen: two databases may share a table.
TakenInDatabase(c) == \E t \in taken : t.id = c.id /\ t.db = c.db
Taken(c)           == \E t \in taken : t.id = c.id

Yield ==
  /\ pc = "yielding"
  /\ \E c \in ready :
       /\ ready' = ready \ {c}
       /\ IF Taken(c)
          THEN pc' = "failed" /\ UNCHANGED taken
          ELSE taken' = taken \cup {c} /\ UNCHANGED pc
  /\ UNCHANGED <<db, listed, lost, broken>>

NextDatabase ==
  /\ pc = "yielding" /\ ready = {}
  /\ db' = db + 1 /\ pc' = "listing"
  /\ UNCHANGED <<listed, ready, taken, lost, broken>>

\* The loop of execute ends: the run counts as a complete listing.
Complete ==
  /\ pc = "listing" /\ db > Len(Databases)
  /\ pc' = "complete"
  /\ UNCHANGED <<db, listed, ready, taken, lost, broken>>

Next == Listed \/ ListFails \/ Yield \/ NextDatabase \/ Complete

Spec == Init /\ [][Next]_vars

-----------------------------------------------------------------------------
\* A complete listing has every table of every database that could be listed,
\* but for those whose processing raised or whose first occurrence has no stamp.
CompleteHasAll ==
  pc = "complete" => \A d \in 1..Len(Databases) : \A o \in listed[d] :
    \/ <<d, o.id>> \in broken
    \/ \E c \in taken : c.db = d /\ c.id = o.id
    \/ \E p \in listed[d] : p.id = o.id /\ p.stamp = NoStamp /\ p.path <= o.path

\* A dataset code stands for one table of one database, with every path that
\* database files it under and a stamp the provider gave it.
CodeIsOneTable ==
  /\ \A c, e \in taken : c.id = e.id => c = e
  /\ \A c \in taken :
       /\ c.paths = {o.path : o \in Of(listed[c.db], c.id)} \ {0}
       /\ c.stamp \in Stamp
       /\ \E o \in listed[c.db] : o.id = c.id /\ o.stamp = c.stamp

\* "fatal discovery or catalog failures stop the run": a run that counts as
\* complete has listed every database.
ListingFailureStopsRun == pc = "complete" => lost = {}
====
