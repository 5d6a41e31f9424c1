---- MODULE TimestampSelectionProofs ----
(* NoUpdateMissed, for any number of datasets, versions and stamps.          *)
(*                                                                           *)
(* A dataset is skipped when the stamp of its listing is the stored one.  A  *)
(* stamp stands for one version, and the stored one for a version no newer   *)
(* than the documents, so the documents are as new as what was listed.       *)
EXTENDS TimestampSelection, TLAPS

LEMMA NothingYet ==
  /\ None \in Version
  /\ None \in [Dataset -> Stamp \cup {NoStamp}]
  /\ \A d \in Dataset : None[d] = 0
<1> QED
  BY DEF None, Version, NoStamp

LEMMA InitEstablishes == Init => TimestampInv
<1> SUFFICES ASSUME Init PROVE TimestampInv
  OBVIOUS
<1> USE NothingYet DEF Init
<1>1. TypeOK
  <2>1. published \in [Dataset -> Seq(Stamp \cup {NoStamp})]
    OBVIOUS
  <2>2. running \in BOOLEAN /\ force \in BOOLEAN /\ hasError \in [Dataset -> BOOLEAN]
    OBVIOUS
  <2> QED
    BY <2>1, <2>2 DEF TypeOK
<1>2. \A d \in Dataset : published[d] = << >> /\ Len(published[d]) = 0
  OBVIOUS
<1>3. NoUpdateMissed /\ StampInv /\ RunInv
  BY <1>2 DEF NoUpdateMissed, StampInv, RunInv
<1> QED
  BY <1>1, <1>3 DEF TimestampInv

\* Publishing a version leaves the earlier ones and their stamps alone.
LEMMA PublishStep ==
  ASSUME TypeOK, NEW d \in Dataset, Publish(d)
  PROVE  /\ published' \in [Dataset -> Seq(Stamp \cup {NoStamp})]
         /\ \A e \in Dataset : /\ Len(published'[e]) >= Len(published[e])
                               /\ \A v \in 1 .. Len(published[e]) :
                                    published'[e][v] = published[e][v]
         /\ \A e \in Dataset \ {d} : published'[e] = published[e]
         /\ Len(published'[d]) = Len(published[d]) + 1
         /\ \A v \in 1 .. Len(published[d]) :
              published[d][v] = published'[d][Len(published'[d])]
              => published[d][v] = NoStamp
<1>1. PICK s \in Stamp \cup {NoStamp} :
        /\ s # NoStamp => \A v \in DOMAIN published[d] : published[d][v] # s
        /\ published' = [published EXCEPT ![d] = Append(@, s)]
  BY DEF Publish
<1>2. published[d] \in Seq(Stamp \cup {NoStamp})
      /\ \A e \in Dataset : published[e] \in Seq(Stamp \cup {NoStamp})
  BY DEF TypeOK
<1>3. /\ published'[d] = Append(published[d], s)
      /\ \A e \in Dataset \ {d} : published'[e] = published[e]
  BY <1>1 DEF TypeOK
<1>4. /\ Append(published[d], s) \in Seq(Stamp \cup {NoStamp})
      /\ Len(Append(published[d], s)) = Len(published[d]) + 1
      /\ \A v \in 1 .. Len(published[d]) : Append(published[d], s)[v] = published[d][v]
      /\ Append(published[d], s)[Len(published[d]) + 1] = s
  BY <1>1, <1>2
<1>5. DOMAIN published[d] = 1 .. Len(published[d])
  BY <1>2
<1>6. \A e \in Dataset : Len(published[e]) \in Nat
  BY <1>2
<1>7. published' \in [Dataset -> Seq(Stamp \cup {NoStamp})]
  BY <1>1, <1>4 DEF TypeOK
<1> QED
  BY <1>1, <1>3, <1>4, <1>5, <1>6, <1>7

\* A dataset that was listed has a stamp to send.
LEMMA ListedHasStamp ==
  ASSUME TypeOK, RunInv, NEW d \in Dataset, d \in decided
  PROVE  /\ listed[d] \in 1 .. Len(published[d]) /\ Len(published[d]) \in Nat
         /\ Updated(d) \in Stamp \cup {NoStamp}
<1>1. published[d] \in Seq(Stamp \cup {NoStamp}) /\ listed[d] \in Nat
  BY DEF TypeOK, Version
<1>2. listed[d] \in 1 .. Len(published[d]) /\ Len(published[d]) \in Nat
  BY <1>1 DEF RunInv
<1> QED
  BY <1>1, <1>2 DEF Updated

LEMMA TypeStep == TypeOK /\ RunInv /\ [Next]_vars => TypeOK'
<1> SUFFICES ASSUME TypeOK, RunInv, [Next]_vars PROVE TypeOK'
  OBVIOUS
<1>0. \A d \in Dataset : Len(published[d]) \in Nat
  BY DEF TypeOK
<1> USE DEF catalog, run
<1>1. ASSUME NEW d \in Dataset, Publish(d) PROVE TypeOK'
  BY <1>1, PublishStep DEF Publish, TypeOK
<1>2. CASE StartRun
  BY <1>2 DEF StartRun, TypeOK
<1>3. ASSUME NEW d \in Dataset, List(d) PROVE TypeOK'
  BY <1>0, <1>3 DEF List, TypeOK, Version
<1>4. ASSUME NEW d \in Dataset, Yield(d) PROVE TypeOK'
  BY <1>0, <1>4 DEF Yield, TypeOK, Version
<1>5. ASSUME NEW d \in Dataset, Save(d) PROVE TypeOK'
  <2>1. StampSent(d) \in Stamp \cup {NoStamp}
    BY <1>5, ListedHasStamp DEF Save, RunInv, StampSent
  <2>2. PICK v \in from[d] .. Len(published[d]) : saved' = [saved EXCEPT ![d] = v]
    BY <1>5 DEF Save
  <2>3. v \in Nat
    BY <1>0, <2>2 DEF TypeOK, Version
  <2> QED
    BY <1>5, <2>1, <2>2, <2>3 DEF Save, TypeOK, Version
<1>6. ASSUME NEW d \in Dataset, Fail(d) PROVE TypeOK'
  <2>1. StampSent(d) \in Stamp \cup {NoStamp}
    BY <1>6, ListedHasStamp DEF Fail, RunInv, StampSent
  <2> QED
    BY <1>6, <2>1 DEF Fail, TypeOK
<1>7. CASE Complete
  BY <1>7, NothingYet DEF Complete, RunOver, TypeOK, Version
<1>8. CASE Break
  BY <1>8, NothingYet DEF Break, RunOver, TypeOK
<1>9. CASE UNCHANGED vars
  BY <1>9 DEF vars, TypeOK
<1> QED
  BY <1>1, <1>2, <1>3, <1>4, <1>5, <1>6, <1>7, <1>8, <1>9 DEF Next

\* What a dataset that the run skipped has in the catalog.
LEMMA SkipIsSafe ==
  ASSUME TimestampInv, NEW d \in Dataset, Yield(d), ~ ShouldFetch(d)
  PROVE  ~ hasError[d] /\ saved[d] >= listed[d]
<1> USE DEF TimestampInv, TypeOK, Version
<1>1. /\ ~ hasError[d] /\ saved[d] # 0 /\ source[d] # NoStamp
      /\ Updated(d) # NoStamp /\ Updated(d) = source[d]
  BY DEF ShouldFetch
<1>2. PICK v \in 1 .. Len(published[d]) : v <= saved[d] /\ published[d][v] = source[d]
  BY <1>1 DEF StampInv
<1>3. listed[d] \in 1 .. Len(published[d])
  BY DEF Yield, RunInv
<1>4. v = listed[d]
  BY <1>1, <1>2, <1>3 DEF Updated, StampInv
<1> QED
  BY <1>1, <1>2, <1>4

LEMMA MissedStep == TimestampInv /\ [Next]_vars => NoUpdateMissed'
<1> SUFFICES ASSUME TimestampInv, [Next]_vars PROVE NoUpdateMissed'
  OBVIOUS
<1> USE DEF TimestampInv, TypeOK, Version, NoUpdateMissed
<1>1. CASE Complete
  BY <1>1 DEF Complete, RunInv
<1>2. ASSUME NEW d \in Dataset, Save(d) PROVE NoUpdateMissed'
  <2>1. from[d] >= shown[d]
    BY <1>2 DEF Save, RunInv
  <2>2. PICK v \in from[d] .. Len(published[d]) : saved' = [saved EXCEPT ![d] = v]
    BY <1>2 DEF Save
  <2>3. saved'[d] >= shown[d] /\ \A e \in Dataset \ {d} : saved'[e] = saved[e]
    BY <2>1, <2>2
  <2> QED
    BY <1>2, <2>3 DEF Save
<1>3. ASSUME NEW d \in Dataset, Fail(d) PROVE NoUpdateMissed'
  BY <1>3 DEF Fail
<1>4. ASSUME UNCHANGED <<saved, hasError, shown>> PROVE NoUpdateMissed'
  BY <1>4
<1> QED
  BY <1>1, <1>2, <1>3, <1>4
  DEF Next, StartRun, Publish, List, Yield, Break, catalog, vars

LEMMA StampStep == TimestampInv /\ [Next]_vars => StampInv'
<1> SUFFICES ASSUME TimestampInv, [Next]_vars PROVE StampInv'
  OBVIOUS
<1> USE DEF TimestampInv, TypeOK, Version
<1>0. \A d \in Dataset : Len(published[d]) \in Nat
  OBVIOUS
<1>1. ASSUME NEW d \in Dataset, Publish(d) PROVE StampInv'
  <2>1. /\ \A e \in Dataset : /\ Len(published'[e]) >= Len(published[e])
                              /\ Len(published'[e]) \in Nat
                              /\ \A v \in 1 .. Len(published[e]) :
                                   published'[e][v] = published[e][v]
        /\ \A e \in Dataset \ {d} : published'[e] = published[e]
        /\ Len(published'[d]) = Len(published[d]) + 1
        /\ \A v \in 1 .. Len(published[d]) :
             published[d][v] = published'[d][Len(published'[d])]
             => published[d][v] = NoStamp
    BY <1>1, PublishStep
  <2>2. UNCHANGED catalog
    BY <1>1 DEF Publish
  <2>3. ASSUME NEW e \in Dataset,
               NEW v \in 1 .. Len(published'[e]), NEW w \in 1 .. Len(published'[e]),
               published'[e][v] = published'[e][w], v # w
        PROVE  published'[e][v] = NoStamp
    <3>1. \A a, b \in 1 .. Len(published[e]) :
            published[e][a] = published[e][b] /\ a # b => published[e][a] = NoStamp
      BY DEF StampInv
    <3>2. CASE e # d
      BY <2>1, <2>3, <3>1, <3>2
    <3>3. CASE e = d /\ v # Len(published'[d]) /\ w # Len(published'[d])
      <4>1. v \in 1 .. Len(published[d]) /\ w \in 1 .. Len(published[d])
        BY <1>0, <2>1, <2>3, <3>3
      <4> QED
        BY <2>1, <2>3, <3>1, <3>3, <4>1
    <3>4. CASE e = d /\ v = Len(published'[d])
      <4>1. w \in 1 .. Len(published[d])
        BY <1>0, <2>1, <2>3, <3>4
      <4> QED
        BY <2>1, <2>3, <3>4, <4>1
    <3>5. CASE e = d /\ w = Len(published'[d])
      <4>1. v \in 1 .. Len(published[d])
        BY <1>0, <2>1, <2>3, <3>5
      <4> QED
        BY <2>1, <2>3, <3>5, <4>1
    <3> QED
      BY <3>2, <3>3, <3>4, <3>5
  <2>4. ASSUME NEW e \in Dataset, saved[e] # 0, ~ hasError[e], source[e] # NoStamp
        PROVE  \E v \in 1 .. Len(published'[e]) : v <= saved[e] /\ published'[e][v] = source[e]
    <3>1. PICK v \in 1 .. Len(published[e]) : v <= saved[e] /\ published[e][v] = source[e]
      BY <2>4 DEF StampInv
    <3>2. v \in 1 .. Len(published'[e]) /\ published'[e][v] = source[e]
      BY <1>0, <2>1, <3>1
    <3> QED
      BY <3>1, <3>2
  <2> QED
    BY <2>2, <2>3, <2>4 DEF StampInv, catalog
<1>2. ASSUME NEW d \in Dataset, Save(d) PROVE StampInv'
  <2>1. /\ listed[d] \in 1 .. Len(published[d]) /\ from[d] >= listed[d]
    BY <1>2, ListedHasStamp DEF Save, RunInv
  <2>2. PICK v \in from[d] .. Len(published[d]) : saved' = [saved EXCEPT ![d] = v]
    BY <1>2 DEF Save
  <2>3. /\ saved'[d] >= listed[d] /\ source'[d] = published[d][listed[d]]
        /\ \A e \in Dataset \ {d} : /\ saved'[e] = saved[e] /\ source'[e] = source[e]
                                    /\ hasError'[e] = hasError[e]
        /\ published' = published
    BY <1>2, <2>1, <2>2 DEF Save, StampSent, Updated
  <2>4. /\ published'[d] = published[d]
        /\ listed[d] <= saved'[d] /\ published'[d][listed[d]] = source'[d]
    BY <2>3
  <2>5. ASSUME NEW e \in Dataset, saved'[e] # 0, ~ hasError'[e], source'[e] # NoStamp
        PROVE  \E w \in 1 .. Len(published'[e]) : w <= saved'[e] /\ published'[e][w] = source'[e]
    <3>1. CASE e = d
      BY <2>1, <2>4, <3>1
    <3>2. CASE e # d
      BY <2>3, <2>5, <3>2 DEF StampInv
    <3> QED
      BY <3>1, <3>2
  <2> QED
    BY <2>3, <2>5 DEF StampInv
<1>3. ASSUME NEW d \in Dataset, Fail(d) PROVE StampInv'
  BY <1>3 DEF Fail, StampInv
<1>4. ASSUME UNCHANGED <<published, saved, source, hasError>> PROVE StampInv'
  BY <1>4 DEF StampInv
<1> QED
  BY <1>1, <1>2, <1>3, <1>4 DEF Next, StartRun, List, Yield, Complete, Break, catalog, vars

LEMMA RunStep == TimestampInv /\ [Next]_vars => RunInv'
<1> SUFFICES ASSUME TimestampInv, [Next]_vars PROVE RunInv'
  OBVIOUS
<1> USE DEF TimestampInv, TypeOK, Version, catalog, run
<1>0. \A d \in Dataset : Len(published[d]) \in Nat /\ (published[d] # << >> => Len(published[d]) # 0)
  OBVIOUS
<1>1. ASSUME NEW d \in Dataset, Publish(d) PROVE RunInv'
  BY <1>0, <1>1, PublishStep DEF Publish, RunInv
<1>2. CASE StartRun
  BY <1>2 DEF StartRun, RunInv
<1>3. ASSUME NEW d \in Dataset, List(d) PROVE RunInv'
  BY <1>0, <1>3 DEF List, RunInv
<1>4. ASSUME NEW d \in Dataset, Yield(d) PROVE RunInv'
  <2>1. CASE ShouldFetch(d)
    BY <1>0, <1>4, <2>1 DEF Yield, RunInv
  <2>2. CASE ~ ShouldFetch(d)
    BY <1>4, <2>2, SkipIsSafe DEF Yield, RunInv
  <2> QED
    BY <2>1, <2>2
<1>5. ASSUME NEW d \in Dataset, Save(d) PROVE RunInv'
  <2>1. PICK v \in from[d] .. Len(published[d]) : saved' = [saved EXCEPT ![d] = v]
    BY <1>5 DEF Save
  <2>2. saved'[d] >= listed[d] /\ \A e \in Dataset \ {d} : saved'[e] = saved[e]
    BY <1>0, <1>5, <2>1 DEF Save, RunInv
  <2> QED
    BY <1>5, <2>2 DEF Save, RunInv
<1>6. ASSUME NEW d \in Dataset, Fail(d) PROVE RunInv'
  BY <1>6 DEF Fail, RunInv
<1>7. CASE Complete
  BY <1>7, NothingYet DEF Complete, RunOver, RunInv
<1>8. CASE Break
  BY <1>8, NothingYet DEF Break, RunOver, RunInv
<1>9. CASE UNCHANGED vars
  BY <1>9 DEF vars, RunInv
<1> QED
  BY <1>1, <1>2, <1>3, <1>4, <1>5, <1>6, <1>7, <1>8, <1>9 DEF Next

\* The invariant of the selection by stamp holds in every behaviour.
THEOREM TimestampInvariant == Spec => []TimestampInv
<1>1. TimestampInv /\ [Next]_vars => TimestampInv'
  BY TypeStep, MissedStep, StampStep, RunStep DEF TimestampInv
<1> QED
  BY InitEstablishes, <1>1, PTL DEF Spec

\* No version listed by a complete run is missed, for any number of datasets,
\* runs, failures, versions and stamps (select_by_timestamp).
THEOREM UpdatesAreFetched == Spec => []NoUpdateMissed
<1>1. TimestampInv => NoUpdateMissed
  BY DEF TimestampInv
<1> QED
  BY TimestampInvariant, <1>1, PTL
====
