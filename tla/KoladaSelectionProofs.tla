---- MODULE KoladaSelectionProofs ----
(* NoChangeMissed, for any number of KPIs, runs, changes and instants.       *)
(*                                                                           *)
(* A dataset that a run skipped has no change between the cutoff and the     *)
(* start (the feed would name it), and was fetched after the refetch limit,  *)
(* which is after the cutoff.  So a change it lacks is older than the        *)
(* cutoff, hence than the previous checkpoint, or the run were a full one:   *)
(* the invariant of the previous complete run applies.  A change the feed    *)
(* never names is bounded by the refetch alone: what was skipped was fetched *)
(* after the refetch limit, and what was saved is as new as the checkpoint.  *)
EXTENDS KoladaSelection, TLAPS

\* The day of the cutoff begins no later than the instant of the refetch limit.
LEMMA CutoffIsEarlier ==
  ASSUME NEW s \in Nat
  PROVE  Cutoff(s) \in Int /\ StaleBefore(s) \in Int
         /\ Cutoff(s) <= StaleBefore(s) /\ StaleBefore(s) <= s
<1>1. (s \div Day) \in Nat /\ Day * (s \div Day) <= s
  BY SelectionAssumption, Z3
<1>2. Window * Day \in Nat
  BY SelectionAssumption
<1> QED
  BY <1>1, <1>2, SelectionAssumption DEF Cutoff, StaleBefore

LEMMA NothingYet ==
  /\ Never \in Int
  /\ [d \in Dataset |-> Never] \in [Dataset -> Int]
  /\ [d \in Dataset |-> {}] \in [Dataset -> SUBSET Nat]
  /\ [d \in Dataset |-> FALSE] \in [Dataset -> BOOLEAN]
  /\ [p \in Path |-> {}] \in [Path -> SUBSET Kpi]
<1>1. Never \in Int
  BY DEF Never
<1> QED
  BY <1>1

LEMMA InitEstablishes == Init => SelectionInv
<1> SUFFICES ASSUME Init PROVE SelectionInv
  OBVIOUS
<1> USE SelectionAssumption DEF Init
<1>1. TypeOK
  BY NothingYet DEF TypeOK
<1>2. NoChangeMissed /\ OrderInv /\ RunInv
  BY DEF NoChangeMissed, OrderInv, RunInv, Never
<1> QED
  BY <1>1, <1>2 DEF SelectionInv

\* Every step keeps the types.
LEMMA TypeStep == TypeOK /\ [Next]_vars => TypeOK'
<1> SUFFICES ASSUME TypeOK, [Next]_vars PROVE TypeOK'
  OBVIOUS
<1> USE SelectionAssumption DEF TypeOK, catalog, run
<1>1. CASE StartRun
  BY <1>1 DEF StartRun, Full
<1>2. CASE ListKpis
  BY <1>2 DEF ListKpis, Dataset, Path
<1>3. CASE ReadFeed
  <2>1. \A p \in Path : Feed(p) \in SUBSET Kpi
    BY DEF Feed
  <2>2. "data" \in Path /\ "oudata" \in Path
    BY DEF Path
  <2> QED
    BY <1>3, <2>1, <2>2 DEF ReadFeed
<1>4. CASE Complete
  <2>1. {d \in listed : d \in followed \/ readAt[d] >= started} \subseteq Dataset
    OBVIOUS
  <2>2. readFrom' \in [Dataset -> Int] /\ changed' \in [Path -> SUBSET Kpi]
    BY <1>4, NothingYet DEF Complete, RunOver
  <2>3. /\ pc' = "idle" /\ started' = 0 /\ full' = FALSE /\ checkpoint' = started
        /\ listed' = {} /\ decided' = {} /\ reading' = {} /\ covered' = listed
        /\ followed' \subseteq Dataset
        /\ UNCHANGED <<now, changes, unfed, readAt, fetchedAt, hasError>>
    BY <1>4, <2>1 DEF Complete, RunOver, CheckpointAfter
  <2>4. full' \in BOOLEAN
    BY <2>3, Zenon
  <2>5. covered' \subseteq Dataset /\ checkpoint' \in Int
    BY <2>3
  <2> QED
    BY <2>2, <2>3, <2>4, <2>5
<1>5. CASE Break
  BY <1>5, NothingYet DEF Break, RunOver
<1>6. CASE Tick
  BY <1>6 DEF Tick
<1>7. ASSUME NEW d \in Dataset, Yield(d) PROVE TypeOK'
  BY <1>7 DEF Yield
<1>8. ASSUME NEW d \in Dataset, Save(d) PROVE TypeOK'
  BY <1>8, NothingYet DEF Save
<1>9. ASSUME NEW d \in Dataset, Fail(d) PROVE TypeOK'
  BY <1>9, NothingYet DEF Fail
<1>10. ASSUME NEW d \in Dataset, Change(d) PROVE TypeOK'
  BY <1>10 DEF Change
<1>11. CASE UNCHANGED vars
  BY <1>11 DEF vars
<1> QED
  BY <1>1, <1>2, <1>3, <1>4, <1>5, <1>6, <1>7, <1>8, <1>9, <1>10, <1>11 DEF Next

\* The step that sets a checkpoint: each dataset of the listing was fetched by
\* this run, is flagged, or was skipped for good reasons.
LEMMA CompleteStep ==
  ASSUME SelectionInv, Complete
  PROVE  NoChangeMissed'
<1> USE DEF SelectionInv, TypeOK
<1> SUFFICES ASSUME NEW d \in listed, ~ hasError[d]
             PROVE  /\ \A c \in changes[d] : c < started =>
                         c < (IF d \in followed \/ readAt[d] >= started
                              THEN readAt[d] ELSE fetchedAt[d])
                    /\ \A c \in unfed[d] : c < StaleBefore(started) => c < fetchedAt[d]
  BY DEF Complete, CheckpointAfter, NoChangeMissed, StaleBefore
<1>1. /\ d \in Dataset /\ started \in Nat
      /\ readAt[d] \in Int /\ fetchedAt[d] \in Int /\ readAt[d] <= fetchedAt[d]
      /\ changes[d] \subseteq Nat /\ unfed[d] \subseteq Nat
  BY DEF OrderInv
<1>2. /\ Cutoff(started) \in Int /\ StaleBefore(started) \in Int
      /\ Cutoff(started) <= StaleBefore(started) /\ StaleBefore(started) <= started
  BY <1>1, CutoffIsEarlier
<1>3. CASE readAt[d] >= started
  BY <1>1, <1>2, <1>3
<1>4. CASE ~ readAt[d] >= started
  <2>1. d \in decided \ reading /\ ~ Current(d)
    BY <1>4 DEF Complete, Current
  <2>2. SkippedSafely(d)
    BY <2>1 DEF RunInv
  <2>3. StaleBefore(started) <= fetchedAt[d]
    BY <1>1, <1>2, <2>2 DEF SkippedSafely
  <2>4. ASSUME NEW c \in changes[d], c < started
        PROVE  c < (IF d \in followed \/ readAt[d] >= started
                    THEN readAt[d] ELSE fetchedAt[d])
    <3>1. c \in Nat /\ c < Cutoff(started)
      BY <1>1, <2>2, <2>4 DEF SkippedSafely
    <3>2. c < fetchedAt[d]
      BY <1>1, <1>2, <2>3, <3>1
    <3>3. ASSUME d \in followed PROVE c < readAt[d]
      <4>1. d \in covered
        BY <3>3 DEF OrderInv
      <4>2. c < checkpoint
        BY <1>1, <1>2, <2>2, <3>1 DEF OrderInv, SkippedSafely, Complete
      <4> QED
        BY <3>3, <4>1, <4>2 DEF NoChangeMissed
    <3> QED
      BY <1>4, <3>2, <3>3
  <2>5. ASSUME NEW c \in unfed[d], c < StaleBefore(started) PROVE c < fetchedAt[d]
    BY <1>1, <1>2, <2>3, <2>5
  <2> QED
    BY <2>4, <2>5
<1> QED
  BY <1>3, <1>4

\* The refetch limit of a checkpoint is no later than the checkpoint.
LEMMA StaleIsEarlier ==
  ASSUME NEW s \in Int
  PROVE  StaleBefore(s) \in Int /\ StaleBefore(s) <= s
<1>1. Window * Day \in Nat
  BY SelectionAssumption
<1> QED
  BY <1>1 DEF StaleBefore

LEMMA MissedStep == SelectionInv /\ [Next]_vars => NoChangeMissed'
<1> SUFFICES ASSUME SelectionInv, [Next]_vars PROVE NoChangeMissed'
  OBVIOUS
<1> USE DEF SelectionInv, TypeOK
<1>0. StaleBefore(checkpoint) \in Int /\ StaleBefore(checkpoint) <= checkpoint
  BY StaleIsEarlier
<1>1. CASE Complete
  BY <1>1, CompleteStep
<1>2. ASSUME NEW d \in Dataset, Save(d) PROVE NoChangeMissed'
  <2>1. readFrom[d] >= checkpoint /\ now >= checkpoint
    BY <1>2 DEF Save, OrderInv, RunInv
  <2>2. StaleBefore(checkpoint)' = StaleBefore(checkpoint)
    BY <1>2 DEF Save, StaleBefore
  <2> QED
    BY <1>0, <1>2, <2>1, <2>2 DEF Save, NoChangeMissed
<1>3. ASSUME NEW d \in Dataset, Fail(d) PROVE NoChangeMissed'
  BY <1>3 DEF Fail, NoChangeMissed, StaleBefore
<1>4. ASSUME NEW d \in Dataset, Change(d) PROVE NoChangeMissed'
  <2>1. StaleBefore(checkpoint)' = StaleBefore(checkpoint) /\ checkpoint <= now
    BY <1>4 DEF Change, StaleBefore, catalog, OrderInv
  <2>2. /\ \A e \in Dataset : changes'[e] \subseteq changes[e] \cup {now}
        /\ \A e \in Dataset : unfed'[e] \subseteq unfed[e] \cup {now}
    BY <1>4 DEF Change
  <2>3. UNCHANGED <<fetchedAt, readAt, hasError, checkpoint, covered, followed>>
    BY <1>4 DEF Change, catalog
  <2> QED
    BY <1>0, <2>1, <2>2, <2>3 DEF NoChangeMissed
<1>5. ASSUME UNCHANGED <<changes, unfed, catalog>> PROVE NoChangeMissed'
  BY <1>5 DEF NoChangeMissed, catalog, StaleBefore
<1> QED
  BY <1>1, <1>2, <1>3, <1>4, <1>5
  DEF Next, StartRun, ListKpis, ReadFeed, Break, Tick, Yield, vars, run

LEMMA OrderStep == SelectionInv /\ [Next]_vars => OrderInv'
<1> SUFFICES ASSUME SelectionInv, [Next]_vars PROVE OrderInv'
  OBVIOUS
<1> USE SelectionAssumption DEF SelectionInv, TypeOK, OrderInv, catalog, run
<1>1. CASE StartRun
  <2>1. Cutoff(now) \in Int
    BY CutoffIsEarlier
  <2>2. PICK force \in BOOLEAN : full' = Full(force, now)
    BY <1>1 DEF StartRun
  <2>3. ~ full' => checkpoint >= Cutoff(now)
    <3>1. full' <=> Full(force, now)
      BY <2>2
    <3>2. ~ full' => ~ (checkpoint < Cutoff(now))
      BY <3>1 DEF Full
    <3> QED
      BY <2>1, <3>2
  <2> QED
    BY <1>1, <2>1, <2>3 DEF StartRun
<1>2. CASE Complete
  BY <1>2 DEF Complete, CheckpointAfter, RunOver
<1>3. CASE Break
  BY <1>3 DEF Break, RunOver
<1>4. CASE Tick
  BY <1>4 DEF Tick
<1>5. ASSUME NEW d \in Dataset, Save(d) PROVE OrderInv'
  BY <1>5 DEF Save, RunInv
<1>6. CASE ListKpis \/ ReadFeed
  BY <1>6 DEF ListKpis, ReadFeed
<1>7. ASSUME NEW d \in Dataset, Yield(d) \/ Fail(d) \/ Change(d) PROVE OrderInv'
  BY <1>7 DEF Yield, Fail, Change
<1>8. CASE UNCHANGED vars
  BY <1>8 DEF vars
<1> QED
  BY <1>1, <1>2, <1>3, <1>4, <1>5, <1>6, <1>7, <1>8 DEF Next

LEMMA RunStep == SelectionInv /\ [Next]_vars => RunInv'
<1> SUFFICES ASSUME SelectionInv, [Next]_vars PROVE RunInv'
  OBVIOUS
<1> USE SelectionAssumption DEF SelectionInv, TypeOK, RunInv, catalog, run
<1>1. CASE StartRun
  BY <1>1 DEF StartRun
<1>2. CASE ListKpis
  BY <1>2 DEF ListKpis
<1>3. CASE ReadFeed
  BY <1>3 DEF ReadFeed, Feed, FeedComplete, Path
<1>4. CASE Complete \/ Break
  BY <1>4 DEF Complete, Break, RunOver
<1>5. ASSUME NEW d \in Dataset, Yield(d) PROVE RunInv'
  <2>1. ASSUME ~ Fetch(d) PROVE SkippedSafely(d)
    <3>1. FeedComplete("data") /\ FeedComplete("oudata")
      BY <1>5, <2>1 DEF Yield, Fetch
    <3>2. d = <<d[1], d[2]>> /\ d[1] \in Kpi /\ d[2] \in {"data", "oudata"}
      BY DEF Dataset, Path
    <3>3. d[1] \notin changed[d[2]]
      BY <2>1 DEF Fetch
    <3>4. \A c \in changes[d] : c < started => c < Cutoff(started)
      BY <3>1, <3>2, <3>3, CutoffIsEarlier DEF FeedComplete
    <3> QED
      BY <2>1, <3>4, CutoffIsEarlier DEF Fetch, SkippedSafely
  <2>2. CASE Fetch(d)
    BY <1>5, <2>2 DEF Yield, OrderInv, Current, SkippedSafely, FeedComplete
  <2>3. CASE ~ Fetch(d)
    BY <1>5, <2>1, <2>3 DEF Yield, Current, SkippedSafely, FeedComplete
  <2> QED
    BY <2>2, <2>3
<1>6. ASSUME NEW d \in Dataset, Save(d) \/ Fail(d) PROVE RunInv'
  <2>1. /\ pc = "yielding" /\ pc' = pc /\ decided' = decided /\ listed' = listed
        /\ reading' = reading \ {d} /\ d \in reading
        /\ UNCHANGED <<now, changes, unfed, started, full, changed>>
    BY <1>6 DEF Save, Fail
  <2>2. \A e \in reading' : readFrom'[e] = readFrom[e]
    BY <1>6 DEF Save, Fail
  <2>3. Current(d)'
    BY <1>6 DEF Save, Fail, Current
  <2>4. \A e \in Dataset \ {d} :
          /\ Current(e)' = Current(e)
          /\ SkippedSafely(e) => SkippedSafely(e)'
    BY <1>6, <2>1 DEF Save, Fail, Current, SkippedSafely
  <2> QED
    BY <2>1, <2>2, <2>3, <2>4 DEF FeedComplete
<1>7. ASSUME NEW d \in Dataset, Change(d) PROVE RunInv'
  <2>1. /\ started \in Nat /\ now \in Nat /\ started <= now
        /\ \A e \in Dataset : /\ changes[e] \subseteq changes'[e]
                              /\ changes'[e] \subseteq changes[e] \cup {now}
        /\ UNCHANGED <<now, catalog, pc, run>>
    BY <1>7 DEF Change, OrderInv
  <2>2. ASSUME NEW e \in Dataset PROVE Current(e)' = Current(e)
    BY <2>1 DEF Current
  <2>3. ASSUME NEW e \in Dataset, SkippedSafely(e) PROVE SkippedSafely(e)'
    BY <2>1, <2>3, CutoffIsEarlier DEF SkippedSafely
  <2>4. ASSUME NEW p \in Path, FeedComplete(p) PROVE FeedComplete(p)'
    <3>1. \A k \in Kpi : <<k, p>> \in Dataset
      BY DEF Dataset
    <3> QED
      BY <2>1, <2>4, <3>1, CutoffIsEarlier DEF FeedComplete
  <2> QED
    BY <2>1, <2>2, <2>3, <2>4 DEF Path
<1>8. CASE Tick \/ UNCHANGED vars
  <2>1. now' \in Nat /\ now <= now' /\ UNCHANGED <<changes, unfed, catalog, pc, run>>
    BY <1>8 DEF Tick, vars
  <2>2. \A d \in Dataset : Current(d)' = Current(d) /\ SkippedSafely(d)' = SkippedSafely(d)
    BY <2>1 DEF Current, SkippedSafely
  <2>3. \A p \in Path : FeedComplete(p)' = FeedComplete(p)
    BY <2>1 DEF FeedComplete
  <2> QED
    BY <2>1, <2>2, <2>3 DEF Path
<1> QED
  BY <1>1, <1>2, <1>3, <1>4, <1>5, <1>6, <1>7, <1>8 DEF Next

\* The invariant of the selection holds in every behaviour.
THEOREM SelectionInvariant == Spec => []SelectionInv
<1>1. SelectionInv /\ [Next]_vars => SelectionInv'
  BY TypeStep, MissedStep, OrderStep, RunStep DEF SelectionInv
<1> QED
  BY InitEstablishes, <1>1, PTL DEF Spec

\* For any number of KPIs, runs, failures and changes: after a complete run no
\* change the feed can name is lost, and no other is lost for longer than the
\* refetch takes (KoladaAdapter.discover_datasets).
THEOREM ChangesAreFetched == Spec => []NoChangeMissed
<1>1. SelectionInv => NoChangeMissed
  BY DEF SelectionInv
<1> QED
  BY SelectionInvariant, <1>1, PTL
====
