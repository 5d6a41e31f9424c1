---- MODULE RunnerProofs ----
(* Proofs about Runner.  While the body of execute runs (Body), a failed     *)
(* emit stays in the window until the window is waited for, so the window's  *)
(* size bounds what is fetched after a loss, and what left the window has    *)
(* its outcome recorded; the finally block starts from there.                *)
EXTENDS Runner, FiniteSetTheorems, TLAPS

Body    == pc \in {"setup", "pulling", "skipping", "waiting", "gathering"}
LiveSet == {d \in Dataset : Running(d)}
Fetched == {d \in seen : verdict[d] # "skipped"}

SeenInv ==
  /\ IsFiniteSet(seen) /\ tasks \subseteq seen
  /\ \A d \in Dataset : d \in seen <=> work[d] # "none"

\* At most one dataset is being skipped, in the loop itself.
SkipInv ==
  /\ \A d \in Dataset : work[d] = "skipping" => pc = "skipping" /\ d \notin tasks
  /\ \A d, e \in Dataset : work[d] = "skipping" /\ work[e] = "skipping" => d = e

VerdictInv ==
  \A d \in Dataset :
    /\ work[d] \in {"none", "created", "resolving", "backoff"} => verdict[d] = "none"
    /\ work[d] = "skipping" => verdict[d] = "skipped"
    /\ work[d] = "emitting" => verdict[d] # "none"
    /\ work[d] = "done" => verdict[d] # "none" /\ recorded[d] = verdict[d]
    /\ recorded[d] \in {"none", verdict[d]}

\* What is still to do is in the window; in the body, so is what failed.
WindowInv ==
  /\ \A d \in Dataset : work[d] \in Live \cup {"created"} => d \in tasks
  /\ Body => /\ pending = "none" /\ ~ cut
             /\ \A d \in seen : work[d] \notin {"cancelling", "cancelled"}
             /\ \A d \in seen \ tasks : work[d] \in {"done", "skipping"}

SizeInv ==
  /\ Cardinality(tasks) <= Concurrency
  /\ pc \in {"setup", "pulling", "skipping"} => Cardinality(tasks) < Concurrency
  /\ inFlight = Cardinality(LiveSet)

LossInv ==
  /\ sinceLoss < Concurrency
  /\ Body => IF \E d \in Dataset : work[d] = "raised"
             THEN sinceLoss + 1 <= Cardinality(tasks) ELSE sinceLoss = 0

LimitInv ==
  /\ attempts = Cardinality(Fetched)
  /\ limit # 0 => /\ attempts <= limit
                  /\ pc \in {"setup", "pulling", "skipping"} => attempts < limit
  /\ listing => seen = Dataset /\ limit = 0

\* How the run ends.
EndInv ==
  /\ ~ Body /\ pending = "none" => \A d \in seen : work[d] = "done"
  /\ pc = "closingManager" /\ ~ cut => ~ adapterOpen
  /\ CleanEnd

IInv ==
  /\ TypeOK /\ SeenInv /\ SkipInv /\ VerdictInv /\ WindowInv /\ SizeInv
  /\ LossInv /\ LimitInv /\ EndInv

-----------------------------------------------------------------------------
LEMMA Sizes ==
  ASSUME IInv
  PROVE  /\ IsFiniteSet(tasks) /\ IsFiniteSet(LiveSet) /\ IsFiniteSet(Fetched)
         /\ Cardinality(tasks) \in Nat /\ Cardinality(LiveSet) \in Nat
         /\ LiveSet \subseteq tasks /\ Concurrency \in Nat \ {0}
<1>1. LiveSet \subseteq tasks
  BY DEF IInv, WindowInv, LiveSet, Running
<1>2. IsFiniteSet(tasks) /\ IsFiniteSet(Fetched)
  BY FS_Subset DEF IInv, SeenInv, Fetched
<1>3. IsFiniteSet(LiveSet)
  BY <1>1, <1>2, FS_Subset
<1> QED BY <1>1, <1>2, <1>3, FS_CardinalityType, RunnerAssumption

LEMMA InitInv == Init => IInv
<1> SUFFICES ASSUME Init PROVE IInv
  OBVIOUS
<1>1. Cardinality({}) = 0 /\ IsFiniteSet({})
  BY FS_EmptySet
<1>2. LiveSet = {} /\ Fetched = {}
  BY DEF Init, LiveSet, Running, Live, Fetched
<1>3. TypeOK
  <2>1. work \in [Dataset -> {"none", "skipping", "created"} \cup Live \cup Finished]
    BY DEF Init
  <2>2. tries \in [Dataset -> 0..Retries]
    BY RunnerAssumption DEF Init
  <2>3. /\ verdict \in [Dataset -> {"none", "skipped", "saved", "failed"}]
        /\ recorded \in [Dataset -> {"none", "skipped", "saved", "failed"}]
    BY DEF Init
  <2>4. limit \in Limits /\ seen \subseteq Dataset /\ tasks \subseteq Dataset
    BY DEF Init
  <2>5. attempts \in Nat /\ inFlight \in Nat /\ sinceLoss \in Nat /\ cancels \in 0..2
    BY SMT DEF Init
  <2>6. /\ listing \in BOOLEAN /\ adapterOpen \in BOOLEAN /\ managerOpen \in BOOLEAN
        /\ cut \in BOOLEAN
    BY Zenon DEF Init
  <2> QED BY <2>1, <2>2, <2>3, <2>4, <2>5, <2>6 DEF Init, TypeOK
<1>4. SeenInv /\ SkipInv /\ VerdictInv /\ WindowInv
  BY <1>1 DEF Init, SeenInv, SkipInv, VerdictInv, WindowInv, Live
<1>5. SizeInv /\ LossInv
  BY <1>1, <1>2, RunnerAssumption DEF Init, SizeInv, LossInv
<1>6. LimitInv
  BY <1>1, <1>2, RunnerAssumption DEF Init, LimitInv
<1>7. EndInv
  BY DEF Init, EndInv, CleanEnd, Body
<1> QED BY <1>3, <1>4, <1>5, <1>6, <1>7 DEF IInv

-----------------------------------------------------------------------------
(* The finally block.                                                        *)

\* Entering it from the body keeps the invariant, whatever the reason, if what
\* leaves the window is finished.
LEMMA FinallyStep ==
  ASSUME IInv, Body, NEW why \in {"none", "error", "cancel"}, NEW rest \in SUBSET tasks,
         \A d \in tasks \ rest : work[d] \in Finished,
         why = "none" => \A d \in seen : work[d] = "done",
         Finally(why, rest),
         UNCHANGED <<limit, progress, tries, verdict, recorded, managerOpen, cut, sinceLoss>>,
         adapterOpen' \in BOOLEAN, cancels' \in 0..2
  PROVE  IInv'
<1>1. /\ pc' = "draining" /\ pending' = why /\ tasks' = rest /\ ~ Body'
      /\ work' = [d \in Dataset |-> IF d \in rest THEN Cancelled(work[d])
                                    ELSE IF work[d] = "skipping" THEN "cancelled" ELSE work[d]]
  BY DEF Finally, Body
<1>2. ASSUME NEW d \in Dataset
      PROVE  /\ work[d] = "none" <=> work'[d] = "none"
             /\ work'[d] \in Live <=> work[d] \in Live
             /\ work'[d] \notin {"skipping"}
             /\ work'[d] \in {work[d], "cancelling", "cancelled"}
             /\ work'[d] = "created" => work[d] = "created"
             /\ work[d] = "done" => work'[d] = "done"
  <2>1. work[d] \in {"none", "skipping", "created"} \cup Live \cup Finished
    BY DEF IInv, TypeOK
  <2>2. d \in rest => work[d] # "skipping" /\ work[d] # "none"
    BY DEF IInv, SkipInv, SeenInv
  <2> QED BY <1>1, <2>1, <2>2 DEF Cancelled, Live, Finished
<1>3. TypeOK'
  <2>1. work' \in [Dataset -> {"none", "skipping", "created"} \cup Live \cup Finished]
    <3>1. ASSUME NEW d \in Dataset
          PROVE  work'[d] \in {"none", "skipping", "created"} \cup Live \cup Finished
      BY <1>2 DEF IInv, TypeOK, Live, Finished
    <3> QED BY <3>1, <1>1
  <2> QED BY <1>1, <2>1 DEF IInv, TypeOK, progress
<1>4. SeenInv'
  BY <1>1, <1>2 DEF IInv, SeenInv, TypeOK, progress
<1>5. SkipInv'
  BY <1>2 DEF SkipInv
<1>6. VerdictInv'
  BY <1>2 DEF IInv, VerdictInv
<1>7. WindowInv'
  <2>1. ASSUME NEW d \in Dataset, work'[d] \in Live \cup {"created"} PROVE d \in rest
    <3>1. work[d] \in Live \cup {"created"} /\ d \in tasks
      BY <1>2, <2>1 DEF IInv, WindowInv
    <3>2. work[d] \notin Finished
      BY <3>1 DEF Live, Finished
    <3> QED BY <3>1, <3>2
  <2> QED BY <1>1, <2>1 DEF WindowInv
<1>8. LiveSet' = LiveSet
  BY <1>2 DEF LiveSet, Running
<1>9. SizeInv'
  <2>1. Cardinality(rest) <= Cardinality(tasks) /\ Cardinality(rest) \in Nat
    BY Sizes, FS_Subset, FS_CardinalityType
  <2> QED BY <1>1, <1>8, <2>1, Sizes DEF IInv, SizeInv, progress
<1>10. LossInv'
  BY <1>1 DEF IInv, LossInv
<1>11. LimitInv'
  BY <1>1 DEF IInv, LimitInv, Fetched, progress
<1>12. EndInv'
  BY <1>1, <1>2 DEF EndInv, CleanEnd, IInv, SeenInv, TypeOK, progress
<1> QED BY <1>3, <1>4, <1>5, <1>6, <1>7, <1>9, <1>10, <1>11, <1>12 DEF IInv

-----------------------------------------------------------------------------
(* A resolve task.                                                           *)

\* One live task goes on, or ends, with the outcome v.
LEMMA TaskStep ==
  ASSUME IInv, NEW d \in Dataset, work[d] \in Live \cup {"created"},
         NEW w \in {"resolving", "backoff", "emitting"} \cup Finished,
         NEW v \in {"none", "skipped", "saved", "failed"},
         v = verdict[d] \/ (verdict[d] = "none" /\ v \in {"saved", "failed"}),
         w \in {"resolving", "backoff"} => v = "none",
         w \in {"emitting", "done"} => v # "none",
         w = "done" => recorded[d] = v,
         w = "cancelled" => ~ Body,
         IF w \in Live THEN inFlight' = IF work[d] \in Live THEN inFlight ELSE inFlight + 1
         ELSE work[d] \in Live /\ inFlight' = inFlight - 1,
         work' = [work EXCEPT ![d] = w], verdict' = [verdict EXCEPT ![d] = v],
         tries' \in [Dataset -> 0..Retries],
         UNCHANGED <<limit, pc, pending, seen, attempts, listing, tasks, recorded,
                     closing, sinceLoss>>
  PROVE  IInv'
<1> DEFINE S == {"none", "skipping", "created"} \cup Live \cup Finished
<1>1. /\ work \in [Dataset -> S] /\ verdict \in [Dataset -> {"none", "skipped", "saved", "failed"}]
      /\ recorded \in [Dataset -> {"none", "skipped", "saved", "failed"}]
      /\ d \in tasks /\ d \in seen /\ work[d] \notin Finished \cup {"none", "skipping"}
  BY DEF IInv, TypeOK, WindowInv, SeenInv, Live, Finished
<1>2. w \in S /\ w # "none" /\ w # "skipping" /\ w # "created" /\ w # "cancelling"
  BY DEF Live, Finished
<1>3. /\ work'[d] = w /\ verdict'[d] = v /\ recorded' = recorded
      /\ \A e \in Dataset : e # d => work'[e] = work[e] /\ verdict'[e] = verdict[e]
  BY <1>1
<1>4. pc \notin {"closingAdapter", "closingManager", "over"} /\ (~ Body => pending # "none")
  BY <1>1 DEF IInv, EndInv, CleanEnd, Live, Finished
<1>5. LiveSet' = IF w \in Live THEN LiveSet \cup {d} ELSE LiveSet \ {d}
  BY <1>3 DEF LiveSet, Running
<1>6. inFlight' \in Nat /\ inFlight' = Cardinality(LiveSet')
  <2>1. /\ IsFiniteSet(LiveSet) /\ inFlight = Cardinality(LiveSet) /\ inFlight \in Nat
        /\ d \in LiveSet <=> work[d] \in Live
    BY Sizes DEF IInv, SizeInv, LiveSet, Running
  <2>2. CASE w \in Live
    <3>1. Cardinality(LiveSet \cup {d}) = IF d \in LiveSet THEN Cardinality(LiveSet)
                                          ELSE Cardinality(LiveSet) + 1
      BY <2>1, FS_AddElement
    <3> QED BY <1>5, <2>1, <2>2, <3>1
  <2>3. CASE w \notin Live
    <3>1. /\ IsFiniteSet(LiveSet \ {d})
          /\ Cardinality(LiveSet \ {d}) = IF d \in LiveSet THEN Cardinality(LiveSet) - 1
                                          ELSE Cardinality(LiveSet)
      BY <2>1, FS_RemoveElement
    <3>2. Cardinality(LiveSet \ {d}) \in Nat
      BY <3>1, FS_CardinalityType
    <3> QED BY <1>5, <2>1, <2>3, <3>1, <3>2
  <2> QED BY <2>2, <2>3
<1>7. TypeOK'
  <2>1. work' \in [Dataset -> S] /\ verdict' \in [Dataset -> {"none", "skipped", "saved", "failed"}]
    BY <1>1, <1>2
  <2> QED BY <1>6, <2>1 DEF IInv, TypeOK, closing
<1>8. SeenInv'
  BY <1>1, <1>2, <1>3 DEF IInv, SeenInv
<1>9. SkipInv'
  BY <1>2, <1>3 DEF IInv, SkipInv
<1>10. VerdictInv'
  BY <1>2, <1>3 DEF IInv, VerdictInv
<1>11. WindowInv'
  BY <1>1, <1>2, <1>3 DEF IInv, WindowInv, Body, closing, Finished, SeenInv
<1>12. SizeInv'
  BY <1>6 DEF IInv, SizeInv
<1>13. LossInv'
  <2>1. Cardinality(tasks) \in Nat /\ Cardinality(tasks) # 0
    BY <1>1, Sizes, FS_EmptySet
  <2>2. \A e \in Dataset : work[e] = "raised" => work'[e] = "raised"
    BY <1>1, <1>3 DEF Finished
  <2> QED BY <2>1, <2>2 DEF IInv, LossInv, Body, TypeOK
<1>14. LimitInv'
  <2>1. Fetched' = Fetched
    BY <1>1, <1>3 DEF Fetched, IInv, TypeOK
  <2> QED BY <2>1 DEF IInv, LimitInv
<1>15. EndInv'
  BY <1>4 DEF EndInv, CleanEnd, Body, closing
<1> QED BY <1>7, <1>8, <1>9, <1>10, <1>11, <1>12, <1>13, <1>14, <1>15 DEF IInv

LEMMA TaskSteps ==
  ASSUME IInv, NEW d \in Dataset,
         \/ Start(d) \/ Resolve(d) \/ ResolveTransient(d) \/ BackoffOver(d) \/ TaskCancelled(d)
         \/ work[d] = "emitting" /\ (EmitReturns(d) \/ EmitRaises(d))
  PROVE  IInv'
<1> DEFINE Outcomes == {"none", "skipped", "saved", "failed"}
<1>1. /\ verdict \in [Dataset -> Outcomes] /\ tries \in [Dataset -> 0..Retries]
      /\ inFlight \in Nat /\ Retries \in Nat /\ verdict = [verdict EXCEPT ![d] = verdict[d]]
      /\ verdict[d] \in Outcomes
  BY RunnerAssumption DEF IInv, TypeOK
<1>2. /\ work[d] \in {"created", "resolving", "backoff"} => verdict[d] = "none"
      /\ work[d] = "emitting" => verdict[d] # "none"
  BY DEF IInv, VerdictInv
<1>3. CASE Start(d)
  <2>1. /\ work[d] = "created" /\ work' = [work EXCEPT ![d] = "resolving"]
        /\ verdict' = [verdict EXCEPT ![d] = verdict[d]] /\ tries' = tries
        /\ inFlight' = inFlight + 1
        /\ UNCHANGED <<limit, pc, pending, seen, attempts, listing, tasks, recorded, closing, sinceLoss>>
    BY <1>1, <1>3 DEF Start
  <2> QED BY <1>1, <1>2, <2>1, TaskStep DEF Live, Finished
<1>4. CASE Resolve(d)
  <2>1. /\ work[d] = "resolving" /\ work' = [work EXCEPT ![d] = "emitting"]
        /\ tries' = tries /\ inFlight' = inFlight
        /\ UNCHANGED <<limit, pc, pending, seen, attempts, listing, tasks, recorded, closing, sinceLoss>>
    BY <1>4 DEF Resolve, Emit, progress
  <2>2. PICK v \in {"saved", "failed"} : verdict' = [verdict EXCEPT ![d] = v]
    BY <1>4 DEF Resolve, Emit
  <2> QED BY <1>1, <1>2, <2>1, <2>2, TaskStep DEF Live, Finished
<1>5. CASE ResolveTransient(d)
  <2>1. /\ work[d] = "resolving" /\ inFlight' = inFlight
        /\ UNCHANGED <<limit, pc, pending, seen, attempts, listing, tasks, recorded, closing, sinceLoss>>
    BY <1>5 DEF ResolveTransient, progress
  <2>2. CASE tries[d] < Retries
    <3>1. /\ work' = [work EXCEPT ![d] = "backoff"]
          /\ verdict' = [verdict EXCEPT ![d] = verdict[d]]
          /\ tries' = [tries EXCEPT ![d] = tries[d] + 1]
      BY <1>1, <1>5, <2>2 DEF ResolveTransient
    <3>2. tries' \in [Dataset -> 0..Retries]
      BY <1>1, <2>2, <3>1
    <3> QED BY <1>1, <1>2, <2>1, <3>1, <3>2, TaskStep DEF Live, Finished
  <2>3. CASE ~ (tries[d] < Retries)
    <3>1. /\ work' = [work EXCEPT ![d] = "emitting"] /\ tries' = tries
          /\ verdict' = [verdict EXCEPT ![d] = "failed"]
      BY <1>5, <2>3 DEF ResolveTransient, Emit
    <3> QED BY <1>1, <1>2, <2>1, <3>1, TaskStep DEF Live, Finished
  <2> QED BY <2>2, <2>3
<1>6. CASE BackoffOver(d)
  <2>1. /\ work[d] = "backoff" /\ work' = [work EXCEPT ![d] = "resolving"]
        /\ verdict' = [verdict EXCEPT ![d] = verdict[d]] /\ tries' = tries
        /\ inFlight' = inFlight
        /\ UNCHANGED <<limit, pc, pending, seen, attempts, listing, tasks, recorded, closing, sinceLoss>>
    BY <1>1, <1>6 DEF BackoffOver, progress
  <2> QED BY <1>1, <1>2, <2>1, TaskStep DEF Live, Finished
<1>7. CASE TaskCancelled(d)
  <2>1. /\ work[d] = "cancelling" /\ work' = [work EXCEPT ![d] = "cancelled"]
        /\ verdict' = [verdict EXCEPT ![d] = verdict[d]] /\ tries' = tries
        /\ inFlight' = inFlight - 1
        /\ UNCHANGED <<limit, pc, pending, seen, attempts, listing, tasks, recorded, closing, sinceLoss>>
    BY <1>1, <1>7 DEF TaskCancelled
  <2>2. ~ Body
    BY <2>1 DEF IInv, WindowInv, SeenInv
  <2> QED BY <1>1, <2>1, <2>2, TaskStep DEF Live, Finished
<1>8. CASE work[d] = "emitting" /\ EmitReturns(d)
  <2>1. /\ work[d] = "emitting" /\ work' = [work EXCEPT ![d] = "done"]
        /\ verdict' = [verdict EXCEPT ![d] = verdict[d]] /\ tries' = tries
        /\ inFlight' = inFlight - 1 /\ recorded[d] = verdict[d]
        /\ UNCHANGED <<limit, pc, pending, seen, attempts, listing, tasks, recorded, closing, sinceLoss>>
    BY <1>1, <1>8 DEF EmitReturns
  <2> QED BY <1>1, <1>2, <2>1, TaskStep DEF Live, Finished
<1>9. CASE work[d] = "emitting" /\ EmitRaises(d)
  <2>1. /\ work[d] = "emitting" /\ work' = [work EXCEPT ![d] = "raised"]
        /\ verdict' = [verdict EXCEPT ![d] = verdict[d]] /\ tries' = tries
        /\ inFlight' = inFlight - 1
        /\ UNCHANGED <<limit, pc, pending, seen, attempts, listing, tasks, recorded, closing, sinceLoss>>
    BY <1>1, <1>9 DEF EmitRaises
  <2> QED BY <1>1, <1>2, <2>1, TaskStep DEF Live, Finished
<1> QED BY <1>3, <1>4, <1>5, <1>6, <1>7, <1>8, <1>9

\* The catalog may take an outcome at any time.
LEMMA RecordStep == ASSUME IInv, NEW d \in Dataset, Record(d) PROVE IInv'
<1>1. /\ recorded' = [recorded EXCEPT ![d] = verdict[d]]
      /\ UNCHANGED <<limit, pc, pending, seen, attempts, listing, inFlight, tasks, work, tries,
                     verdict, adapterOpen, managerOpen, cancels, cut, sinceLoss>>
  BY DEF Record, progress, closing
<1>2. TypeOK'
  <2>1. recorded' \in [Dataset -> {"none", "skipped", "saved", "failed"}]
    BY <1>1 DEF IInv, TypeOK
  <2> QED BY <1>1, <2>1 DEF IInv, TypeOK
<1>3. VerdictInv'
  BY <1>1 DEF IInv, VerdictInv, TypeOK
<1>4. SeenInv' /\ SkipInv' /\ WindowInv'
  BY <1>1 DEF IInv, SeenInv, SkipInv, WindowInv, Body
<1>5. LiveSet' = LiveSet /\ Fetched' = Fetched
  BY <1>1 DEF LiveSet, Running, Fetched
<1>6. SizeInv' /\ LossInv' /\ LimitInv' /\ EndInv'
  BY <1>1, <1>5 DEF IInv, SizeInv, LossInv, LimitInv, EndInv, CleanEnd, Body
<1> QED BY <1>2, <1>3, <1>4, <1>6 DEF IInv

-----------------------------------------------------------------------------
(* The discovery loop takes a dataset.                                       *)

LEMMA SkipStep == ASSUME IInv, NEW d \in Dataset, Skip(d) PROVE IInv'
<1>1. /\ pc = "pulling" /\ pc' = "skipping" /\ d \notin seen /\ seen' = seen \cup {d}
      /\ work' = [work EXCEPT ![d] = "skipping"] /\ verdict' = [verdict EXCEPT ![d] = "skipped"]
      /\ UNCHANGED <<limit, pending, attempts, listing, inFlight, tasks, tries,
                     recorded, adapterOpen, managerOpen, cancels, cut, sinceLoss>>
  BY DEF Skip, Fresh, closing
<1>2. /\ work[d] = "none" /\ verdict[d] = "none" /\ recorded[d] = "none" /\ d \notin tasks
      /\ \A e \in Dataset : work[e] # "skipping"
  BY <1>1 DEF IInv, SeenInv, VerdictInv, SkipInv
<1>3. /\ work'[d] = "skipping" /\ verdict'[d] = "skipped"
      /\ \A e \in Dataset : e # d => work'[e] = work[e] /\ verdict'[e] = verdict[e]
  BY <1>1 DEF IInv, TypeOK
<1>4. TypeOK'
  <2>1. /\ work' \in [Dataset -> {"none", "skipping", "created"} \cup Live \cup Finished]
        /\ verdict' \in [Dataset -> {"none", "skipped", "saved", "failed"}]
    BY <1>1 DEF IInv, TypeOK
  <2> QED BY <1>1, <2>1 DEF IInv, TypeOK
<1>5. IsFiniteSet(seen')
  BY <1>1, FS_AddElement DEF IInv, SeenInv
<1>6. SeenInv'
  BY <1>1, <1>3, <1>5 DEF IInv, SeenInv
<1>7. SkipInv'
  BY <1>1, <1>2, <1>3 DEF IInv, SkipInv
<1>8. VerdictInv'
  BY <1>1, <1>2, <1>3 DEF IInv, VerdictInv
<1>9. WindowInv'
  BY <1>1, <1>3 DEF IInv, WindowInv, Body, Live
<1>10. LiveSet' = LiveSet /\ Fetched' = Fetched
  BY <1>1, <1>2, <1>3 DEF LiveSet, Running, Live, Fetched, IInv, TypeOK
<1>11. SizeInv' /\ LimitInv' /\ EndInv'
  BY <1>1, <1>10 DEF IInv, SizeInv, LimitInv, EndInv, CleanEnd, Body, TypeOK
<1>12. LossInv'
  BY <1>1, <1>2, <1>3 DEF IInv, LossInv, Body
<1> QED BY <1>4, <1>6, <1>7, <1>8, <1>9, <1>11, <1>12 DEF IInv

LEMMA FetchStep == ASSUME IInv, NEW d \in Dataset, Fetch(d) PROVE IInv'
<1>1. /\ pc = "pulling" /\ d \notin seen /\ seen' = seen \cup {d}
      /\ attempts' = attempts + 1 /\ tasks' = tasks \cup {d}
      /\ work' = [work EXCEPT ![d] = "created"]
      /\ pc' = IF WindowFull(Cardinality(tasks')) THEN "waiting"
               ELSE IF LimitReached(attempts') THEN "gathering" ELSE "pulling"
      /\ sinceLoss' = IF \E e \in Dataset : work[e] = "raised" THEN sinceLoss + 1 ELSE sinceLoss
      /\ UNCHANGED <<limit, pending, listing, inFlight, tries, verdict, recorded,
                     adapterOpen, managerOpen, cancels, cut>>
  BY DEF Fetch, Fresh, closing
<1>2. work[d] = "none" /\ verdict[d] = "none" /\ recorded[d] = "none" /\ d \notin tasks
  BY <1>1 DEF IInv, SeenInv, VerdictInv
<1>3. work'[d] = "created" /\ \A e \in Dataset : e # d => work'[e] = work[e]
  BY <1>1 DEF IInv, TypeOK
<1>4. Body /\ Body' /\ pc' \in {"waiting", "gathering", "pulling"}
  BY <1>1 DEF Body
<1>5. /\ IsFiniteSet(tasks') /\ Cardinality(tasks') = Cardinality(tasks) + 1
      /\ Cardinality(tasks) \in Nat /\ Cardinality(tasks) < Concurrency
      /\ Concurrency \in Nat /\ limit \in Nat /\ attempts \in Nat /\ sinceLoss \in Nat
  BY <1>1, <1>2, Sizes, FS_AddElement, RunnerAssumption DEF IInv, SizeInv, TypeOK
<1>6. TypeOK'
  <2>1. work' \in [Dataset -> {"none", "skipping", "created"} \cup Live \cup Finished]
    BY <1>1 DEF IInv, TypeOK
  <2>2. attempts' \in Nat /\ sinceLoss' \in Nat /\ seen' \subseteq Dataset /\ tasks' \subseteq Dataset
    BY <1>1, <1>5 DEF IInv, TypeOK
  <2> QED BY <1>1, <1>4, <2>1, <2>2 DEF IInv, TypeOK
<1>7. SeenInv'
  <2>1. IsFiniteSet(seen')
    BY <1>1, FS_AddElement DEF IInv, SeenInv
  <2> QED BY <1>1, <1>3, <2>1 DEF IInv, SeenInv
<1>8. SkipInv'
  BY <1>1, <1>3 DEF IInv, SkipInv
<1>9. VerdictInv'
  BY <1>1, <1>2, <1>3 DEF IInv, VerdictInv
<1>10. WindowInv'
  BY <1>1, <1>3, <1>4 DEF IInv, WindowInv
<1>11. LiveSet' = LiveSet
  BY <1>2, <1>3 DEF LiveSet, Running, Live
<1>12. SizeInv'
  BY <1>1, <1>4, <1>5, <1>11 DEF IInv, SizeInv, WindowFull
<1>13. LossInv'
  <2>1. (\E e \in Dataset : work'[e] = "raised") <=> \E e \in Dataset : work[e] = "raised"
    BY <1>2, <1>3
  <2> QED BY <1>1, <1>4, <1>5, <2>1 DEF IInv, LossInv
<1>14. LimitInv'
  <2>1. Fetched' = Fetched \cup {d} /\ d \notin Fetched
    BY <1>1, <1>2 DEF Fetched
  <2>2. Cardinality(Fetched') = Cardinality(Fetched) + 1
    BY <2>1, Sizes, FS_AddElement
  <2>3. limit # 0 => attempts' <= limit /\ (pc' = "pulling" => attempts' < limit)
    BY <1>1, <1>5 DEF IInv, LimitInv, LimitReached
  <2>4. listing' => FALSE
    BY <1>1 DEF IInv, LimitInv, TypeOK
  <2> QED BY <1>1, <1>4, <2>2, <2>3, <2>4 DEF IInv, LimitInv
<1>15. EndInv'
  BY <1>4 DEF EndInv, CleanEnd, Body
<1> QED BY <1>6, <1>7, <1>8, <1>9, <1>10, <1>12, <1>13, <1>14, <1>15 DEF IInv

\* The skip is recorded and the loop goes on, or it fails and the run ends.
LEMMA SkipEnds ==
  ASSUME IInv, NEW d \in Dataset, work[d] = "skipping", EmitReturns(d) \/ EmitRaises(d)
  PROVE  IInv'
<1>1. /\ pc = "skipping" /\ d \notin tasks /\ verdict[d] = "skipped" /\ Body
      /\ \A e \in Dataset : work[e] = "skipping" => e = d
  BY DEF IInv, SkipInv, VerdictInv, Body
<1>2. CASE EmitRaises(d)
  <2>1. Finally("error", tasks)
    BY <1>2 DEF EmitRaises
  <2>2. UNCHANGED <<limit, progress, tries, verdict, recorded, managerOpen, cut, sinceLoss,
                    adapterOpen, cancels>>
    BY <1>2 DEF EmitRaises, progress, closing
  <2>3. adapterOpen' \in BOOLEAN /\ cancels' \in 0..2
    BY <2>2 DEF IInv, TypeOK
  <2> QED BY <1>1, <2>1, <2>2, <2>3, FinallyStep
<1>3. CASE EmitReturns(d)
  <2>1. /\ recorded[d] = "skipped" /\ pc' = "pulling" /\ work' = [work EXCEPT ![d] = "done"]
        /\ UNCHANGED <<limit, pending, seen, attempts, listing, inFlight, tasks, tries, verdict,
                       recorded, adapterOpen, managerOpen, cancels, cut, sinceLoss>>
    BY <1>1, <1>3 DEF EmitReturns, closing
  <2>2. work'[d] = "done" /\ \A e \in Dataset : e # d => work'[e] = work[e]
    BY <2>1 DEF IInv, TypeOK
  <2>3. TypeOK'
    <3>1. work' \in [Dataset -> {"none", "skipping", "created"} \cup Live \cup Finished]
      BY <2>1 DEF IInv, TypeOK, Finished
    <3> QED BY <2>1, <3>1 DEF IInv, TypeOK
  <2>4. SeenInv' /\ SkipInv'
    BY <1>1, <2>1, <2>2 DEF IInv, SeenInv, SkipInv
  <2>5. VerdictInv'
    BY <1>1, <2>1, <2>2 DEF IInv, VerdictInv
  <2>6. WindowInv'
    BY <1>1, <2>1, <2>2 DEF IInv, WindowInv, Body, Live
  <2>7. LiveSet' = LiveSet /\ Fetched' = Fetched
    BY <2>1, <2>2 DEF LiveSet, Running, Live, Fetched
  <2>8. SizeInv' /\ LimitInv' /\ EndInv'
    BY <1>1, <2>1, <2>7 DEF IInv, SizeInv, LimitInv, EndInv, CleanEnd, Body
  <2>9. LossInv'
    BY <1>1, <2>1, <2>2 DEF IInv, LossInv, Body
  <2> QED BY <2>3, <2>4, <2>5, <2>6, <2>8, <2>9 DEF IInv
<1> QED BY <1>2, <1>3

-----------------------------------------------------------------------------
(* The loop and the clean-up.                                                *)

\* A step of execute that touches no dataset.
LEMMA LoopStep ==
  ASSUME IInv, pc # "skipping", pc' # "skipping",
         UNCHANGED <<limit, seen, attempts, inFlight, tasks, work, tries, verdict, recorded,
                     sinceLoss>>,
         TypeOK', EndInv',
         Body' => Body /\ pending' = "none" /\ ~ cut',
         pc' \in {"setup", "pulling"} => pc \in {"setup", "pulling"},
         listing' => seen = Dataset /\ limit = 0
  PROVE  IInv'
<1>1. SeenInv' /\ VerdictInv'
  BY DEF IInv, SeenInv, VerdictInv
<1>2. SkipInv'
  BY DEF IInv, SkipInv
<1>3. WindowInv'
  BY DEF IInv, WindowInv
<1>4. LiveSet' = LiveSet /\ Fetched' = Fetched
  BY DEF LiveSet, Running, Fetched
<1>5. SizeInv'
  BY <1>4 DEF IInv, SizeInv
<1>6. LossInv'
  BY DEF IInv, LossInv
<1>7. LimitInv'
  BY <1>4 DEF IInv, LimitInv
<1> QED BY <1>1, <1>2, <1>3, <1>5, <1>6, <1>7 DEF IInv

LEMMA SetUpStep == ASSUME IInv, SetUp PROVE IInv'
<1>1. /\ pc = "setup" /\ Body
      /\ UNCHANGED <<limit, progress, tries, verdict, recorded, managerOpen, cancels, cut, sinceLoss>>
  BY DEF SetUp, Body
<1>2. CASE pc' = "pulling" /\ adapterOpen' = TRUE /\ UNCHANGED <<pending, tasks, work>>
  <2>1. TypeOK'
    BY <1>1, <1>2 DEF IInv, TypeOK, progress
  <2>2. EndInv' /\ Body'
    BY <1>2 DEF EndInv, CleanEnd, Body
  <2>3. pending = "none" /\ ~ cut /\ (listing => seen = Dataset /\ limit = 0)
    BY <1>1 DEF IInv, WindowInv, LimitInv
  <2> QED BY <1>1, <1>2, <2>1, <2>2, <2>3, LoopStep DEF progress
<1>3. CASE Finally("error", tasks) /\ UNCHANGED adapterOpen
  <2>1. adapterOpen' \in BOOLEAN /\ cancels' \in 0..2
    BY <1>1, <1>3 DEF IInv, TypeOK
  <2> QED BY <1>1, <1>3, <2>1, FinallyStep
<1> QED BY <1>2, <1>3 DEF SetUp

\* What the wait took out of the window is done, or the run ends.
LEMMA WaitStep == ASSUME IInv, WaitReturns PROVE IInv'
<1> DEFINE finished == {d \in tasks : work[d] \in Finished}
<1>1. /\ pc = "waiting" /\ Body /\ finished # {} /\ finished \subseteq tasks
      /\ UNCHANGED <<limit, progress, tries, verdict, recorded, closing, sinceLoss>>
  BY DEF WaitReturns, Body
<1>2. adapterOpen' \in BOOLEAN /\ cancels' \in 0..2 /\ UNCHANGED <<managerOpen, cut>>
  BY <1>1 DEF IInv, TypeOK, closing
<1>3. CASE \E d \in finished : work[d] = "raised"
  <2>1. Finally("error", tasks \ finished)
    BY <1>3 DEF WaitReturns
  <2>2. tasks \ finished \in SUBSET tasks /\ \A d \in tasks \ (tasks \ finished) : work[d] \in Finished
    OBVIOUS
  <2> QED BY <1>1, <1>2, <2>1, <2>2, FinallyStep
<1>4. CASE ~ \E d \in finished : work[d] = "raised"
  <2>1. /\ tasks' = tasks \ finished
        /\ pc' = IF LimitReached(attempts) THEN "gathering" ELSE "pulling"
        /\ UNCHANGED <<pending, work>>
    BY <1>4 DEF WaitReturns
  <2>2. Body' /\ pc' \in {"gathering", "pulling"}
    BY <2>1 DEF Body
  <2>3. \A d \in finished : work[d] = "done"
    BY <1>1, <1>4 DEF IInv, WindowInv, SeenInv, Finished
  <2>4. \A d \in Dataset : work[d] # "raised"
    BY <1>1, <1>4 DEF IInv, WindowInv, SeenInv, Finished
  <2>5. \A d \in Dataset : work[d] # "skipping"
    BY <1>1 DEF IInv, SkipInv
  <2>6. TypeOK'
    BY <1>1, <2>1, <2>2 DEF IInv, TypeOK, progress, closing
  <2>7. SeenInv' /\ SkipInv' /\ VerdictInv'
    BY <1>1, <2>1, <2>5 DEF IInv, SeenInv, SkipInv, VerdictInv, progress
  <2>8. WindowInv'
    <3>1. \A d \in Dataset : work[d] \in Live \cup {"created"} => d \notin finished
      BY <2>3 DEF Live
    <3> QED BY <1>1, <2>1, <2>3, <3>1 DEF IInv, WindowInv, progress, closing
  <2>9. /\ Cardinality(tasks') \in Nat /\ Cardinality(tasks) \in Nat /\ Concurrency \in Nat
        /\ Cardinality(tasks') < Cardinality(tasks)
    <3>1. tasks' \in SUBSET tasks /\ tasks' # tasks
      BY <1>1, <2>1
    <3> QED BY <3>1, Sizes, FS_Subset, FS_CardinalityType
  <2>10. LiveSet' = LiveSet /\ Fetched' = Fetched
    BY <1>1, <2>1 DEF LiveSet, Running, Fetched, progress
  <2>11. SizeInv'
    BY <1>1, <2>9, <2>10 DEF IInv, SizeInv, progress
  <2>12. LossInv'
    BY <1>1, <2>1, <2>4 DEF IInv, LossInv
  <2>13. LimitInv'
    <3>1. limit \in Nat /\ attempts \in Nat /\ UNCHANGED <<limit, attempts, listing, seen>>
      BY <1>1, RunnerAssumption DEF IInv, TypeOK, progress
    <3> QED BY <2>1, <2>2, <2>10, <3>1 DEF IInv, LimitInv, LimitReached
  <2>14. EndInv'
    BY <2>2 DEF EndInv, CleanEnd, Body
  <2> QED BY <2>6, <2>7, <2>8, <2>11, <2>12, <2>13, <2>14 DEF IInv
<1> QED BY <1>3, <1>4

LEMMA EndOfListing == ASSUME IInv, DiscoveryFails \/ ListingEnds \/ GatherReturns PROVE IInv'
<1>1. CASE ListingEnds
  <2>1. /\ pc = "pulling" /\ seen = Dataset /\ listing' = (limit = 0) /\ pc' = "gathering"
        /\ UNCHANGED <<limit, pending, seen, attempts, inFlight, tasks, work, tries, verdict,
                       recorded, adapterOpen, managerOpen, cancels, cut, sinceLoss>>
    BY <1>1 DEF ListingEnds, ListedAll, closing
  <2>2. TypeOK'
    BY <2>1 DEF IInv, TypeOK
  <2>3. EndInv' /\ Body /\ pending = "none" /\ ~ cut
    BY <2>1 DEF EndInv, CleanEnd, Body, IInv, WindowInv
  <2> QED BY <2>1, <2>2, <2>3, LoopStep
<1>2. CASE DiscoveryFails \/ GatherReturns
  <2>1. /\ pc \in {"pulling", "gathering"} /\ Body
        /\ UNCHANGED <<limit, progress, tries, verdict, recorded, closing, sinceLoss>>
    BY <1>2 DEF DiscoveryFails, GatherReturns, Body
  <2>2. adapterOpen' \in BOOLEAN /\ cancels' \in 0..2 /\ UNCHANGED <<managerOpen, cut>>
    BY <2>1 DEF IInv, TypeOK, closing
  <2>3. CASE Finally("error", tasks)
    BY <2>1, <2>2, <2>3, FinallyStep
  <2>4. CASE Finally("none", tasks) /\ pc = "gathering" /\ \A d \in tasks : work[d] = "done"
    <3>1. \A d \in seen : work[d] = "done"
      BY <2>1, <2>4 DEF IInv, WindowInv, SkipInv, SeenInv, TypeOK
    <3> QED BY <2>1, <2>2, <2>4, <3>1, FinallyStep
  <2> QED BY <1>2, <2>3, <2>4 DEF DiscoveryFails, GatherReturns
<1> QED BY <1>1, <1>2

LEMMA CloseStep == ASSUME IInv, Drained \/ AdapterClosed \/ ManagerClosed PROVE IInv'
<1>1. /\ pc \in {"draining", "closingAdapter", "closingManager"} /\ ~ Body /\ ~ Body'
      /\ pc' \in {"closingAdapter", "closingManager", "over"}
      /\ UNCHANGED <<limit, seen, attempts, listing, inFlight, tasks, work, tries, verdict, recorded,
                     sinceLoss, cancels, cut>>
  BY DEF Drained, AdapterClosed, ManagerClosed, Body, progress, closing
<1>2. /\ pending' \in {pending, "error"}
      /\ adapterOpen' \in {adapterOpen, FALSE} /\ managerOpen' \in {managerOpen, FALSE}
  BY DEF Drained, AdapterClosed, ManagerClosed, closing
<1>3. TypeOK'
  BY <1>1, <1>2 DEF IInv, TypeOK
<1>4. \A d \in Dataset : work[d] \notin Live \cup {"created", "skipping"}
  <2>1. CASE pc = "draining"
    <3>1. Drained
      BY <2>1 DEF AdapterClosed, ManagerClosed
    <3>2. \A d \in tasks : work[d] \in Finished
      BY <3>1 DEF Drained
    <3> QED BY <2>1, <3>2 DEF IInv, WindowInv, SkipInv, Live, Finished
  <2> QED BY <1>1, <2>1 DEF IInv, EndInv, CleanEnd
<1>5. EndInv'
  <2>1. ~ Body' /\ pending' = "none" => \A d \in seen' : work'[d] = "done"
    BY <1>1, <1>2 DEF IInv, EndInv
  <2>2. /\ pc' = "closingManager" /\ ~ cut' => ~ adapterOpen'
        /\ pc' = "over" /\ ~ cut' => ~ adapterOpen' /\ ~ managerOpen'
    BY <1>1 DEF IInv, EndInv, Drained, AdapterClosed, ManagerClosed, closing
  <2> QED BY <1>1, <1>4, <2>1, <2>2 DEF EndInv, CleanEnd
<1>6. listing' => seen = Dataset /\ limit = 0
  BY <1>1 DEF IInv, LimitInv
<1> QED BY <1>1, <1>3, <1>5, <1>6, LoopStep

LEMMA CancelStep == ASSUME IInv, Cancel PROVE IInv'
<1>1. /\ cancels' = cancels + 1 /\ cancels < 2 /\ cancels' \in 0..2 /\ pc # "over"
      /\ UNCHANGED <<limit, progress, tries, verdict, recorded, adapterOpen, managerOpen, sinceLoss>>
  BY DEF Cancel, IInv, TypeOK
<1>2. CASE Body
  <2>1. Finally("cancel", tasks) /\ UNCHANGED cut /\ adapterOpen' \in BOOLEAN
    BY <1>1, <1>2 DEF Cancel, Body, IInv, TypeOK
  <2> QED BY <1>1, <1>2, <2>1, FinallyStep
<1>3. CASE ~ Body
  <2>1. /\ cut' = TRUE /\ pending' = "cancel" /\ UNCHANGED <<tasks, work>>
        /\ pc' = CASE pc = "draining" -> "draining" [] pc = "closingAdapter" -> "closingManager"
                   [] OTHER -> "over"
    BY <1>3 DEF Cancel, Body
  <2>2. pc \in {"draining", "closingAdapter", "closingManager"}
    BY <1>1, <1>3 DEF IInv, TypeOK, Body
  <2>3. /\ ~ Body' /\ pc' \in {"draining", "closingManager", "over"}
        /\ pc = "draining" => pc' = "draining"
    BY <2>1, <2>2 DEF Body
  <2>4. TypeOK'
    BY <1>1, <2>1, <2>3 DEF IInv, TypeOK, progress
  <2>5. EndInv'
    BY <2>1, <2>2, <2>3 DEF IInv, EndInv, CleanEnd
  <2>6. listing' => seen = Dataset /\ limit = 0
    BY <1>1 DEF IInv, LimitInv, progress
  <2> QED BY <1>1, <2>1, <2>2, <2>3, <2>4, <2>5, <2>6, LoopStep DEF progress
<1> QED BY <1>2, <1>3

LEMMA StepInv == IInv /\ [Next]_vars => IInv'
<1> SUFFICES ASSUME IInv, [Next]_vars PROVE IInv'
  OBVIOUS
<1>1. CASE SetUp
  BY <1>1, SetUpStep
<1>2. CASE WaitReturns
  BY <1>2, WaitStep
<1>3. CASE DiscoveryFails \/ ListingEnds \/ GatherReturns
  BY <1>3, EndOfListing
<1>4. CASE Drained \/ AdapterClosed \/ ManagerClosed
  BY <1>4, CloseStep
<1>5. CASE Cancel
  BY <1>5, CancelStep
<1>6. ASSUME NEW d \in Dataset, Task(d) PROVE IInv'
  <2>1. CASE Skip(d)
    BY <2>1, SkipStep
  <2>2. CASE Fetch(d)
    BY <2>2, FetchStep
  <2>3. CASE Record(d)
    BY <2>3, RecordStep
  <2>4. CASE Start(d) \/ Resolve(d) \/ ResolveTransient(d) \/ BackoffOver(d) \/ TaskCancelled(d)
    BY <2>4, TaskSteps
  <2>5. CASE EmitReturns(d) \/ EmitRaises(d)
    <3>1. work[d] \in {"emitting", "skipping"}
      BY <2>5 DEF EmitReturns, EmitRaises
    <3> QED BY <2>5, <3>1, TaskSteps, SkipEnds
  <2> QED BY <1>6, <2>1, <2>2, <2>3, <2>4, <2>5 DEF Task
<1>7. CASE UNCHANGED vars
  <2>1. UNCHANGED <<limit, pc, pending, seen, attempts, listing, inFlight, tasks, work, tries,
                    verdict, recorded, adapterOpen, managerOpen, cancels, cut, sinceLoss>>
    BY <1>7 DEF vars, progress, closing
  <2>2. LiveSet' = LiveSet /\ Fetched' = Fetched
    BY <2>1 DEF LiveSet, Running, Fetched
  <2>3. TypeOK' /\ SeenInv' /\ SkipInv' /\ VerdictInv' /\ WindowInv'
    BY <2>1 DEF IInv, TypeOK, SeenInv, SkipInv, VerdictInv, WindowInv, Body
  <2>4. SizeInv' /\ LossInv' /\ LimitInv' /\ EndInv'
    BY <2>1, <2>2 DEF IInv, SizeInv, LossInv, LimitInv, EndInv, CleanEnd, Body
  <2> QED BY <2>3, <2>4 DEF IInv
<1> QED BY <1>1, <1>2, <1>3, <1>4, <1>5, <1>6, <1>7 DEF Next, Loop

-----------------------------------------------------------------------------
\* Every reachable state of a run satisfies the strengthened invariant.
THEOREM RunnerInvariant == Spec => []IInv
  BY InitInv, StepInv, PTL DEF Spec

\* Every variable keeps its type: the counters never go negative.
THEOREM TypeCorrect == Spec => []TypeOK
<1>1. IInv => TypeOK
  BY DEF IInv
<1> QED BY <1>1, RunnerInvariant, PTL

\* in_flight is exactly the number of started resolves, and the window is never
\* exceeded, whatever fails or is cancelled.
THEOREM InFlightExact == Spec => []InFlightIsExact
<1>1. IInv => InFlightIsExact
  <2> SUFFICES ASSUME IInv PROVE InFlightIsExact
    OBVIOUS
  <2>1. inFlight = Cardinality(LiveSet) /\ Cardinality(tasks) <= Concurrency
    BY DEF IInv, SizeInv
  <2>2. /\ Cardinality(LiveSet) <= Cardinality(tasks)
        /\ Cardinality(LiveSet) \in Nat /\ Cardinality(tasks) \in Nat /\ Concurrency \in Nat
    BY Sizes, FS_Subset
  <2> QED BY <2>1, <2>2 DEF InFlightIsExact, LiveSet
<1> QED BY <1>1, RunnerInvariant, PTL

\* Once an emit has failed, fewer than Concurrency further datasets are fetched.
THEOREM LossBound == Spec => []LossStopsDiscovery
<1>1. IInv => LossStopsDiscovery
  BY DEF IInv, LossInv, LossStopsDiscovery
<1> QED BY <1>1, RunnerInvariant, PTL

\* A run that returns has recorded an outcome of everything it saw.
THEOREM ReturnedRecorded == Spec => []ReturnedIsRecorded
<1>1. IInv => ReturnedIsRecorded
  BY DEF IInv, EndInv, VerdictInv, LimitInv, Body, ReturnedIsRecorded, TypeOK
<1> QED BY <1>1, RunnerInvariant, PTL

\* A limit bounds the outcomes of fetches, and a bounded run is never complete.
THEOREM LimitBound == Spec => []LimitBounds
<1>1. IInv => LimitBounds
  <2> SUFFICES ASSUME IInv, limit # 0 PROVE LimitBounds
    BY DEF LimitBounds
  <2> DEFINE Told == {d \in Dataset : verdict[d] \in {"saved", "failed"}}
  <2>1. Told \subseteq Fetched
    BY DEF IInv, SeenInv, VerdictInv, Fetched
  <2>2. Cardinality(Told) <= Cardinality(Fetched) /\ Cardinality(Told) \in Nat
    BY <2>1, Sizes, FS_Subset, FS_CardinalityType
  <2>3. attempts = Cardinality(Fetched) /\ attempts <= limit /\ attempts \in Nat /\ limit \in Nat
    BY RunnerAssumption DEF IInv, LimitInv, TypeOK
  <2>4. ~ listing
    BY DEF IInv, LimitInv
  <2> QED BY <2>2, <2>3, <2>4 DEF LimitBounds
<1> QED BY <1>1, RunnerInvariant, PTL

\* Nothing is left running when the adapter closes.
THEOREM CleanEnding == Spec => []CleanEnd
<1>1. IInv => CleanEnd
  BY DEF IInv, EndInv
<1> QED BY <1>1, RunnerInvariant, PTL

\* What the catalog has heard of a dataset never changes.
THEOREM OneOutcome == Spec => RecordedOnce
<1> DEFINE Kept == \A d \in Dataset : recorded[d] # "none" => recorded'[d] = recorded[d]
<1>1. IInv /\ [Next]_vars => Kept
  <2> SUFFICES ASSUME IInv, [Next]_vars, NEW d \in Dataset, recorded[d] # "none"
               PROVE  recorded'[d] = recorded[d]
    OBVIOUS
  <2>1. recorded[d] = verdict[d] /\ recorded \in [Dataset -> {"none", "skipped", "saved", "failed"}]
    BY DEF IInv, VerdictInv, TypeOK
  <2>2. CASE Loop \/ UNCHANGED vars
    BY <2>2 DEF Loop, SetUp, WaitReturns, DiscoveryFails, ListingEnds, GatherReturns, Drained,
                AdapterClosed, ManagerClosed, Cancel, vars
  <2>3. ASSUME NEW e \in Dataset, Task(e) PROVE recorded'[d] = recorded[d]
    <3>1. CASE Record(e)
      BY <2>1, <3>1 DEF Record
    <3>2. CASE ~ Record(e)
      BY <2>3, <3>2 DEF Task, Skip, Fetch, Start, Resolve, ResolveTransient, BackoffOver,
                        EmitReturns, EmitRaises, TaskCancelled
    <3> QED BY <3>1, <3>2
  <2> QED BY <2>2, <2>3 DEF Next
<1>2. IInv /\ [Next]_vars => [Kept]_vars
  BY <1>1
<1> QED BY <1>2, RunnerInvariant, PTL DEF Spec, RecordedOnce
====
