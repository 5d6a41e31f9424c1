---- MODULE KoladaSelection ----
(* Which Kolada datasets a run fetches, over many runs: KoladaAdapter's      *)
(* discover_datasets against a provider whose observations change at any     *)
(* time and a catalog that remembers what earlier runs did, complete or not. *)
(* A change must not be lost between the change feed, the refetch after      *)
(* Window days and the checkpoint.                                           *)
(*                                                                           *)
(* A definition right above the one it varies is a mutant: what the code     *)
(* could wrongly do.  No action uses it.                                     *)
EXTENDS Integers, FiniteSets

CONSTANTS
  Kpi,
  Concurrency, \* the window of the runner
  Day,      \* instants in a day
  Window,   \* 30, the days of the change feed and of the refetch
  Start, Horizon,  \* where the clock starts, and its bound for TLC
  Changes   \* bound on the changes of all datasets, for TLC only

ASSUME SelectionAssumption ==
  /\ Day \in Nat \ {0} /\ Concurrency \in Nat /\ Window \in Nat /\ Start \in Nat /\ Horizon \in Nat /\ Changes \in Nat

\* A KPI is a municipality dataset, and an OU dataset if it has OU data.
Path    == {"data", "oudata"}
Dataset == Kpi \X Path
Never   == -1

VARIABLES
  now,
  \* when each dataset changed: observations of the years the feed is asked for,
  \* and what it never names (years before 2010, the KPI's own description)
  changes, unfed,
  \* the catalog (external)
  readAt,                   \* since when its documents are known to be current
  fetchedAt, hasError,      \* its last_fetched_at and has_error
  checkpoint,               \* previous_complete_started_at
  \* the run
  pc,
  started,                  \* of the job
  full,                     \* fetch everything
  listed,                   \* the datasets of list_kpis
  changed,                  \* ids in the change feed of each path
  decided, reading,         \* yielded so far, and those being resolved
  readFrom,                 \* when each one's resolution began
  \* history
  covered,                  \* the datasets of the last complete listing
  followed                  \* those no complete listing missed since their fetch

catalog == <<readAt, fetchedAt, hasError, checkpoint, covered, followed>>
run     == <<started, full, listed, changed, decided, reading, readFrom>>
vars    == <<now, changes, unfed, catalog, pc, run>>

TypeOK ==
  /\ now \in Nat
  /\ changes \in [Dataset -> SUBSET Nat] /\ unfed \in [Dataset -> SUBSET Nat]
  /\ readAt \in [Dataset -> Int] /\ fetchedAt \in [Dataset -> Int]
  /\ hasError \in [Dataset -> BOOLEAN]
  /\ checkpoint \in Int
  /\ pc \in {"idle", "listing", "feed", "ouFeed", "yielding"}
  /\ started \in Nat /\ full \in BOOLEAN
  /\ listed \subseteq Dataset /\ decided \subseteq Dataset /\ reading \subseteq Dataset
  /\ changed \in [Path -> SUBSET Kpi]
  /\ readFrom \in [Dataset -> Int]
  /\ covered \subseteq Dataset /\ followed \subseteq Dataset

Init ==
  /\ now = Start
  /\ changes = [d \in Dataset |-> {}] /\ unfed = [d \in Dataset |-> {}]
  /\ readAt = [d \in Dataset |-> Never] /\ fetchedAt = [d \in Dataset |-> Never]
  /\ hasError = [d \in Dataset |-> FALSE]
  /\ checkpoint = Never
  /\ pc = "idle" /\ started = 0 /\ full = FALSE
  /\ listed = {} /\ changed = [p \in Path |-> {}]
  /\ decided = {} /\ reading = {}
  /\ readFrom = [d \in Dataset |-> Never]
  /\ covered = {} /\ followed = {}

-----------------------------------------------------------------------------
(* The window is counted in whole days for the feed and the checkpoint, and  *)
(* to the instant for the refetch.                                           *)
Cutoff(s)      == ((s \div Day) - Window) * Day
StaleBefore(s) == s - Window * Day

FullOnlyFirst(force, s) == force \/ checkpoint = Never
Full(force, s) == force \/ checkpoint = Never \/ checkpoint < Cutoff(s)

\* The queue runs one job at a time.
StartRun ==
  /\ pc = "idle"
  /\ pc' = "listing"
  /\ started' = now
  /\ \E force \in BOOLEAN : full' = Full(force, now)
  /\ UNCHANGED <<now, changes, unfed, catalog, listed, changed, decided, reading,
                 readFrom>>

\* KPIs come and go, and their OU data with them.
ListKpis ==
  /\ pc = "listing"
  /\ \E kpis, withOu \in SUBSET Kpi :
       listed' = (kpis \X {"data"}) \cup ((kpis \cap withOu) \X {"oudata"})
  /\ pc' = IF full THEN "yielding" ELSE "feed"
  /\ UNCHANGED <<now, changes, unfed, catalog, started, full, changed, decided,
                 reading, readFrom>>

\* changed_kpi_ids: the KPIs with an observation changed on or after the cutoff,
\* of the years from 2010 on that it asks for.
Feed(p) == {k \in Kpi : \E c \in changes[<<k, p>>] : c >= Cutoff(started)}

ReadFeed ==
  /\ \/ pc = "feed" /\ pc' = "ouFeed" /\ changed' = [changed EXCEPT !["data"] = Feed("data")]
     \/ pc = "ouFeed" /\ pc' = "yielding"
        /\ changed' = [changed EXCEPT !["oudata"] = Feed("oudata")]
  /\ UNCHANGED <<now, changes, unfed, catalog, started, full, listed, decided,
                 reading, readFrom>>

FetchFollowsFeed(d) ==
  \/ full \/ fetchedAt[d] = Never \/ hasError[d] \/ d[1] \in changed[d[2]]
Fetch(d) ==
  \/ full
  \/ fetchedAt[d] = Never          \* no state, or never fetched
  \/ fetchedAt[d] < StaleBefore(started)
  \/ hasError[d]
  \/ d[1] \in changed[d[2]]

\* The next dataset of the listing, a KPI's own before its OU dataset; its
\* observations are read from here on.
Yield(d) ==
  /\ pc = "yielding" /\ d \in listed \ decided
  /\ d[2] = "oudata" => <<d[1], "data">> \in decided
  /\ Cardinality(reading) < Concurrency
  /\ decided' = decided \cup {d}
  /\ IF Fetch(d)
     THEN /\ reading' = reading \cup {d}
          /\ readFrom' = [readFrom EXCEPT ![d] = now]
     ELSE UNCHANGED <<reading, readFrom>>
  /\ UNCHANGED <<now, changes, unfed, catalog, pc, started, full, listed, changed>>

\* The outcome of its resolution reaches the catalog.
Save(d) ==
  /\ pc = "yielding" /\ d \in reading
  /\ reading' = reading \ {d}
  /\ readAt' = [readAt EXCEPT ![d] = readFrom[d]]
  /\ readFrom' = [readFrom EXCEPT ![d] = Never]
  /\ fetchedAt' = [fetchedAt EXCEPT ![d] = now]
  /\ hasError' = [hasError EXCEPT ![d] = FALSE]
  /\ UNCHANGED <<now, changes, unfed, checkpoint, covered, followed, pc, started,
                 full, listed, changed, decided>>

Fail(d) ==
  /\ pc = "yielding" /\ d \in reading
  /\ reading' = reading \ {d}
  /\ readFrom' = [readFrom EXCEPT ![d] = Never]
  /\ hasError' = [hasError EXCEPT ![d] = TRUE]
  /\ UNCHANGED <<now, changes, unfed, readAt, fetchedAt, checkpoint, covered, followed,
                 pc, started, full, listed, changed, decided>>

\* The locals of a run end with it.
RunOver ==
  /\ pc' = "idle" /\ started' = 0 /\ full' = FALSE
  /\ listed' = {} /\ changed' = [p \in Path |-> {}]
  /\ decided' = {} /\ reading' = {}
  /\ readFrom' = [d \in Dataset |-> Never]

\* An unbounded run that listed everything and recorded every outcome.
CheckpointNow == now
CheckpointAfter == started
Complete ==
  /\ pc = "yielding" /\ decided = listed /\ reading = {}
  /\ checkpoint' = CheckpointAfter
  /\ covered' = listed
  /\ followed' = {d \in listed : d \in followed \/ readAt[d] >= started}
  /\ RunOver
  /\ UNCHANGED <<now, changes, unfed, readAt, fetchedAt, hasError>>

\* A limit, a stop, a lost catalog or a failed discovery: no checkpoint.
Break ==
  /\ pc # "idle"
  /\ RunOver
  /\ UNCHANGED <<now, changes, unfed, catalog>>

Made == UNION {{e} \X (changes[e] \cup unfed[e]) : e \in Dataset}

Change(d) ==
  /\ Cardinality(Made) < Changes
  /\ \/ changes' = [changes EXCEPT ![d] = @ \cup {now}] /\ UNCHANGED unfed
     \/ unfed' = [unfed EXCEPT ![d] = @ \cup {now}] /\ UNCHANGED changes
  /\ UNCHANGED <<now, catalog, pc, run>>

Tick ==
  /\ now < Horizon
  /\ now' = now + 1
  /\ UNCHANGED <<changes, unfed, catalog, pc, run>>

Next ==
  \/ StartRun \/ ListKpis \/ ReadFeed \/ Complete \/ Break \/ Tick
  \/ \E d \in Dataset : Yield(d) \/ Save(d) \/ Fail(d) \/ Change(d)

Spec == Init /\ [][Next]_vars

-----------------------------------------------------------------------------
\* After a complete run, every dataset it listed is flagged for a retry or has
\* documents that show every change the feed can name that was made before the run
\* began, whichever run fetched them and however many runs broke off in between.
\* Only a dataset that was missing from a complete listing since its last fetch can
\* lack such a change, and only one made while that fetch was under way.  A change
\* no feed names waits for the refetch: after a complete run, one made more than
\* Window days before it began is older than the end of the dataset's last fetch.
NoChangeMissed ==
  \A d \in covered : ~ hasError[d] =>
    /\ \A c \in changes[d] : c < checkpoint =>
         c < (IF d \in followed THEN readAt[d] ELSE fetchedAt[d])
    /\ \A c \in unfed[d] : c < StaleBefore(checkpoint) => c < fetchedAt[d]

\* What a run has established so far: of a dataset it skipped, and of one it
\* fetched.
Current(d) == hasError[d] \/ readAt[d] >= started

SkippedSafely(d) ==
  /\ ~ full /\ ~ hasError[d] /\ fetchedAt[d] >= StaleBefore(started)
  /\ \A c \in changes[d] : c < started => c < Cutoff(started)

\* A feed that was read names every change between the cutoff and the start.
FeedComplete(p) ==
  \A k \in Kpi : (\E c \in changes[<<k, p>>] : Cutoff(started) <= c /\ c < started)
                 => k \in changed[p]

\* How the clock, the checkpoint and the run's start are ordered.
OrderInv ==
  /\ checkpoint <= now /\ started <= now
  /\ \A d \in Dataset : readAt[d] <= fetchedAt[d]
  /\ followed \subseteq covered
  /\ pc # "idle" => checkpoint <= started
  /\ pc # "idle" /\ ~ full => checkpoint >= Cutoff(started)

RunInv ==
  /\ pc # "yielding" => decided = {}
  /\ pc \in {"ouFeed", "yielding"} /\ ~ full => FeedComplete("data")
  /\ pc = "yielding" /\ ~ full => FeedComplete("oudata")
  /\ reading \subseteq decided /\ decided \subseteq listed
  /\ \A d \in reading : readFrom[d] >= started /\ readFrom[d] <= now
  /\ \A d \in decided \ reading : Current(d) \/ SkippedSafely(d)

\* The inductive invariant behind NoChangeMissed.
SelectionInv == TypeOK /\ NoChangeMissed /\ OrderInv /\ RunInv
====
