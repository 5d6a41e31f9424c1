---- MODULE TimestampSelection ----
(* Which PXWeb datasets a run fetches, over many runs: select_by_timestamp   *)
(* compares the stamp the listing shows with the one stored at the last      *)
(* fetch, while the provider publishes new versions at any time, between the *)
(* listing and the fetch too.  Instants are compared in UTC: a stamp is its  *)
(* instant.                                                                  *)
(*                                                                           *)
(* A definition right above the one it varies is a mutant: what the code     *)
(* could wrongly do.  No action uses it.                                     *)
EXTENDS Naturals, Sequences, FiniteSets

CONSTANTS
  Dataset,
  Stamp,        \* the instants a provider may stamp a version with
  Concurrency,  \* the window of the runner
  Versions      \* bound on the versions of a dataset, for TLC only

NoStamp == 0    \* None

ASSUME StampAssumption ==
  Stamp \subseteq Nat \ {NoStamp} /\ Concurrency \in Nat /\ Versions \in Nat

VARIABLES
  published,         \* the stamps of each dataset's versions, oldest first
  \* the catalog (external)
  saved,             \* the version its documents show, 0 before the first fetch
  source, hasError,  \* its source_updated_at and has_error
  \* the run
  running, force,
  listed,            \* the version whose stamp the listing showed, 0 if not listed
  decided, reading,  \* yielded so far, and those being resolved
  from,              \* the version current when the resolution began
  \* history
  shown              \* listed, of the last complete run that listed it

catalog == <<saved, source, hasError, shown>>
run     == <<running, force, listed, decided, reading, from>>
vars    == <<published, catalog, run>>

Version == [Dataset -> Nat]

TypeOK ==
  /\ published \in [Dataset -> Seq(Stamp \cup {NoStamp})]
  /\ saved \in Version /\ listed \in Version /\ from \in Version /\ shown \in Version
  /\ source \in [Dataset -> Stamp \cup {NoStamp}]
  /\ hasError \in [Dataset -> BOOLEAN]
  /\ running \in BOOLEAN /\ force \in BOOLEAN
  /\ decided \subseteq Dataset /\ reading \subseteq Dataset

None == [d \in Dataset |-> 0]

Init ==
  /\ published = [d \in Dataset |-> << >>]
  /\ saved = None /\ source = None /\ shown = None
  /\ hasError = [d \in Dataset |-> FALSE]
  /\ running = FALSE /\ force = FALSE
  /\ listed = None /\ decided = {} /\ reading = {} /\ from = None

-----------------------------------------------------------------------------
\* A stamp may be earlier than the one before, or missing, but a provider does
\* not give two versions of a dataset the same one.
Publish(d) ==
  /\ Len(published[d]) < Versions
  /\ \E s \in Stamp \cup {NoStamp} :
       /\ s # NoStamp => \A v \in DOMAIN published[d] : published[d][v] # s
       /\ published' = [published EXCEPT ![d] = Append(@, s)]
  /\ UNCHANGED <<catalog, run>>

\* The queue runs one job at a time.
StartRun ==
  /\ ~ running
  /\ running' = TRUE
  /\ force' \in BOOLEAN
  /\ UNCHANGED <<published, catalog, listed, decided, reading, from>>

\* The listing shows a dataset, pages or a whole database before it is yielded.
List(d) ==
  /\ running
  /\ listed[d] = 0 /\ published[d] # << >>
  /\ listed' = [listed EXCEPT ![d] = Len(published[d])]
  /\ UNCHANGED <<published, catalog, running, force, decided, reading, from>>

Updated(d) == published[d][listed[d]]

FetchIfNewer(d) ==
  \/ force \/ saved[d] = 0 \/ hasError[d]
  \/ Updated(d) = NoStamp \/ source[d] = NoStamp
  \/ Updated(d) > source[d]
\* The context is of the start of the run, and this run has not touched d.
ShouldFetch(d) ==
  \/ force
  \/ saved[d] = 0
  \/ hasError[d]
  \/ Updated(d) = NoStamp
  \/ source[d] = NoStamp
  \/ Updated(d) # source[d]

Yield(d) ==
  /\ running
  /\ listed[d] # 0 /\ d \notin decided
  /\ Cardinality(reading) < Concurrency
  /\ decided' = decided \cup {d}
  /\ IF ShouldFetch(d)
     THEN /\ reading' = reading \cup {d}
          /\ from' = [from EXCEPT ![d] = Len(published[d])]
     ELSE UNCHANGED <<reading, from>>
  /\ UNCHANGED <<published, catalog, running, force, listed>>

\* source_updated_at of the outcome: the stamp of the listing, not of now.
StampOfNow(d) == published[d][Len(published[d])]
StampSent(d) == Updated(d)

\* The oldest part of the documents is of a version current while they were read.
Save(d) ==
  /\ d \in reading
  /\ reading' = reading \ {d}
  /\ \E v \in from[d] .. Len(published[d]) : saved' = [saved EXCEPT ![d] = v]
  /\ source' = [source EXCEPT ![d] = StampSent(d)]
  /\ hasError' = [hasError EXCEPT ![d] = FALSE]
  /\ UNCHANGED <<published, shown, running, force, listed, decided, from>>

\* A failed outcome carries the stamp too; the catalog may keep it or not.
Fail(d) ==
  /\ d \in reading
  /\ reading' = reading \ {d}
  /\ \E s \in {source[d], StampSent(d)} : source' = [source EXCEPT ![d] = s]
  /\ hasError' = [hasError EXCEPT ![d] = TRUE]
  /\ UNCHANGED <<published, saved, shown, running, force, listed, decided, from>>

\* The locals of a run end with it.
RunOver ==
  /\ running' = FALSE /\ force' = FALSE
  /\ listed' = None /\ decided' = {} /\ reading' = {} /\ from' = None

Complete ==
  /\ running
  /\ reading = {} /\ decided = {d \in Dataset : listed[d] # 0}
  /\ shown' = [d \in Dataset |-> IF d \in decided THEN listed[d] ELSE shown[d]]
  /\ RunOver
  /\ UNCHANGED <<published, saved, source, hasError>>

\* A limit, a stop, a lost catalog or a failed discovery.
Break ==
  /\ running
  /\ RunOver
  /\ UNCHANGED <<published, catalog>>

Next ==
  \/ StartRun \/ Complete \/ Break
  \/ \E d \in Dataset : Publish(d) \/ List(d) \/ Yield(d) \/ Save(d) \/ Fail(d)

Spec == Init /\ [][Next]_vars

-----------------------------------------------------------------------------
\* After a complete run, every dataset it listed is flagged for a retry or has
\* documents at least as new as the version the listing showed, whichever run
\* fetched them, even if the version appeared with an earlier stamp than the one
\* before, or between a listing and its fetch.
NoUpdateMissed == \A d \in Dataset : ~ hasError[d] => saved[d] >= shown[d]

\* No stamp stands for two versions; the stored one is not newer than what the
\* documents show.
StampInv ==
  \A d \in Dataset :
    /\ \A v, w \in 1 .. Len(published[d]) :
         published[d][v] = published[d][w] /\ v # w => published[d][v] = NoStamp
    /\ saved[d] # 0 /\ ~ hasError[d] /\ source[d] # NoStamp =>
         \E v \in 1 .. Len(published[d]) : v <= saved[d] /\ published[d][v] = source[d]

\* What this run decided so far: it tried a flagged dataset again, and leaves the
\* others with what it listed.
RunInv ==
  /\ reading \subseteq decided
  /\ \A d \in Dataset :
       /\ listed[d] <= Len(published[d]) /\ shown[d] <= Len(published[d])
       /\ listed[d] # 0 => listed[d] >= shown[d]
       /\ d \in decided => listed[d] # 0
       /\ d \in reading => from[d] >= listed[d]
       /\ d \in decided /\ hasError[d] => from[d] # 0
       /\ d \in decided \ reading /\ ~ hasError[d] => saved[d] >= listed[d]

\* The inductive invariant behind NoUpdateMissed.
TimestampInv == TypeOK /\ NoUpdateMissed /\ StampInv /\ RunInv
====
