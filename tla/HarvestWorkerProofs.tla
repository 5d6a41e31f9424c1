---- MODULE HarvestWorkerProofs ----
(* Proofs about HarvestWorker for every number of workers and jobs and every *)
(* choice of its seconds that its assumptions allow.                         *)
EXTENDS HarvestWorker, TLAPS

LEMMA TypeInit == Init => TypeOK
  BY ConstantsAssumption DEF Init, TypeOK, Terminal, Report

\* What the end of the clean-up budget does: it cancels the work once more, or
\* leaves the job.
SecondCancel(w) ==
  /\ pc' = [pc EXCEPT ![w] = "overdue"]
  /\ age' = [age EXCEPT ![w] = 0]
  /\ listing' = [listing EXCEPT ![w] = FALSE]
  /\ error' = [error EXCEPT ![w] = FALSE]
  /\ UNCHANGED <<job, wire, left, task, pulse, status, cancelRequested, holder, ttl,
                 checkpoints, lateClaims, lateBeats, reports, stop, result>>

LEMMA BudgetEnds ==
  ASSUME NEW w \in Worker, CleanupTimesOut(w)
  PROVE  \/ SecondCancel(w)
         \/ Leave(w, "top") /\ UNCHANGED <<catalogVars, lateVars, stop, result>>
  BY DEF CleanupTimesOut, SecondCancel, catalogVars, lateVars

LEMMA TypeNext == TypeOK /\ [Next]_vars => TypeOK'
<1> SUFFICES ASSUME TypeOK, [Next]_vars PROVE TypeOK'
  OBVIOUS
<1> USE ConstantsAssumption
    DEF TypeOK, Terminal, Report, catalogVars, lateVars, childVars
<1>1. ASSUME NEW w \in Worker, Claiming(w) PROVE TypeOK'
  <2>1. CASE ClaimStart(w)  BY <2>1 DEF ClaimStart
  <2>2. CASE Exit(w)        BY <2>2 DEF Exit, Leave
  <2>3. CASE SignalStop(w)  BY <2>3 DEF SignalStop
  <2>4. CASE ClaimAbandon(w)  BY <2>4 DEF ClaimAbandon, Leave, Stray
  <2>5. CASE ClaimAnswered(w)  BY <2>5 DEF ClaimAnswered, ClaimDeadline
  <2>6. CASE ClaimEmpty(w)  BY <2>6 DEF ClaimEmpty, Leave
  <2>7. CASE ClaimFails(w)  BY <2>7 DEF ClaimFails, Leave, Stray
  <2> QED BY <1>1, <2>1, <2>2, <2>3, <2>4, <2>5, <2>6, <2>7 DEF Claiming
<1>2. ASSUME NEW w \in Worker, Running(w) PROVE TypeOK'
  <2>1. CASE HeartbeatReply(w)  BY <2>1 DEF HeartbeatReply, RenewedDeadline, AfterBeat
  <2>2. CASE HeartbeatRaises(w)  BY <2>2 DEF HeartbeatRaises, Stray
  <2>3. CASE HeartbeatWakes(w)  BY <2>3 DEF HeartbeatWakes
  <2>4. CASE Resend(w)  BY <2>4 DEF Resend, Stray
  <2>5. CASE Lists(w)  BY <2>5 DEF Lists
  <2>6. CASE WorkEnds(w)
    <3>1. PICK how \in {"returned", "raised"} :
            /\ task' = [task EXCEPT ![w] = how]
            /\ result' = [result EXCEPT ![job[w]] =
                            IF how = "raised" THEN "raised"
                            ELSE IF listing[w] THEN "complete" ELSE "partial"]
      BY <2>6 DEF WorkEnds
    <3>2. result' \in [Job -> {"none", "raised", "partial", "complete"}]
      BY <3>1
    <3>3. task' \in [Worker -> {"idle", "running", "returned", "raised",
                               "cancelling", "cancelled"}]
      BY <3>1
    <3> QED BY <2>6, <3>2, <3>3 DEF WorkEnds
  <2>7. CASE Wake(w)  BY <2>7 DEF Wake, Stray, Fault
  <2> QED BY <1>2, <2>1, <2>2, <2>3, <2>4, <2>5, <2>6, <2>7 DEF Running
<1>3. ASSUME NEW w \in Worker, Finalizing(w) PROVE TypeOK'
  <2>1. CASE TaskStops(w)  BY <2>1 DEF TaskStops
  <2>2. CASE PostComplete(w)
    <3>1. job[w] \in Job
      BY <2>2 DEF PostComplete
    <3>2. ReportOf(w) \in Report
      BY <3>1 DEF ReportOf
    <3>3. reports' \subseteq Report
      BY <2>2, <3>2 DEF PostComplete
    <3> QED BY <2>2, <3>3 DEF PostComplete
  <2>3. CASE CompleteEnds(w)  BY <2>3 DEF CompleteEnds, Leave
  <2>4. CASE CleanupTimesOut(w)
    <3>1. CASE SecondCancel(w)
      BY <3>1 DEF SecondCancel
    <3>2. CASE Leave(w, "top") /\ UNCHANGED <<catalogVars, lateVars, stop, result>>
      BY <3>2 DEF Leave
    <3> QED BY <2>4, <3>1, <3>2, BudgetEnds
  <2>5. CASE GatherCancelled(w)  BY <2>5 DEF GatherCancelled, Leave
  <2>6. CASE Crash(w)  BY <2>6 DEF Crash, Leave, Stray
  <2> QED BY <1>3, <2>1, <2>2, <2>3, <2>4, <2>5, <2>6 DEF Finalizing
<1>4. ASSUME NEW w \in Worker, Serving(w) PROVE TypeOK'
  <2>1. CASE ServeClaim(w)  BY <2>1 DEF ServeClaim, Grant
  <2>2. CASE ServeNothing(w)  BY <2>2 DEF ServeNothing
  <2>3. CASE ServeBeat(w)  BY <2>3 DEF ServeBeat
  <2> QED BY <1>4, <2>1, <2>2, <2>3 DEF Serving
<1>5. ASSUME Catalog PROVE TypeOK'
  <2>1. CASE ServeLateClaim  BY <2>1 DEF ServeLateClaim, Grant
  <2>2. CASE ServeLateBeat  BY <2>2 DEF ServeLateBeat
  <2>3. CASE ServeReport  BY <2>3 DEF ServeReport, Settle
  <2>4. CASE Expire  BY <2>4 DEF Expire, Settle
  <2>5. CASE \E j \in Job : Cancel(j)  BY <2>5 DEF Cancel
  <2> QED BY <1>5, <2>1, <2>2, <2>3, <2>4, <2>5 DEF Catalog
<1>6. CASE Tick  BY <1>6 DEF Tick
<1>7. CASE UNCHANGED vars  BY <1>7 DEF vars
<1> QED BY <1>1, <1>2, <1>3, <1>4, <1>5, <1>6, <1>7 DEF Next

\* Every variable keeps its type.
THEOREM TypeCorrect == Spec => []TypeOK
  BY TypeInit, TypeNext, PTL DEF Spec

\* A lease that ran out belongs to nobody who still acts on it.
LEMMA ExpiredIsFree ==
  ASSUME TypeOK, LeaseOutlasts, ttl = 0, NEW w \in Worker
  PROVE  pc[w] # "running" /\ ~ (pc[w] = "claiming" /\ wire[w] = "granted")
  BY ConstantsAssumption, MarginAssumption, ClaimAssumption
     DEF TypeOK, LeaseOutlasts

LEMMA OneAttachedNext == TypeOK /\ OneAttached /\ LeaseOutlasts /\ [Next]_vars => OneAttached'
<1> SUFFICES ASSUME TypeOK, OneAttached, LeaseOutlasts, [Next]_vars PROVE OneAttached'
  OBVIOUS
<1> USE ConstantsAssumption, MarginAssumption, ClaimAssumption
    DEF TypeOK, Terminal, Report, Attached, catalogVars, lateVars, childVars, OneAttached
<1>1. ASSUME NEW w \in Worker, Claiming(w) PROVE OneAttached'
  <2>1. CASE ClaimStart(w)
    BY <2>1 DEF ClaimStart
  <2>2. CASE Exit(w)
    BY <2>2 DEF Exit, Leave
  <2>3. CASE SignalStop(w)
    BY <2>3 DEF SignalStop
  <2>4. CASE ClaimAbandon(w)
    BY <2>4 DEF ClaimAbandon, Leave, Stray
  <2>5. CASE ClaimAnswered(w)
    BY <2>5 DEF ClaimAnswered, ClaimDeadline
  <2>6. CASE ClaimEmpty(w)
    BY <2>6 DEF ClaimEmpty, Leave
  <2>7. CASE ClaimFails(w)
    BY <2>7 DEF ClaimFails, Leave, Stray
  <2> QED BY <1>1, <2>1, <2>2, <2>3, <2>4, <2>5, <2>6, <2>7 DEF Claiming
<1>2. ASSUME NEW w \in Worker, Running(w) PROVE OneAttached'
  <2>1. CASE HeartbeatReply(w)
    BY <2>1 DEF HeartbeatReply, RenewedDeadline, AfterBeat
  <2>2. CASE HeartbeatRaises(w)
    BY <2>2 DEF HeartbeatRaises, Stray
  <2>3. CASE HeartbeatWakes(w)
    BY <2>3 DEF HeartbeatWakes
  <2>4. CASE Resend(w)
    BY <2>4 DEF Resend, Stray
  <2>5. CASE Lists(w)
    BY <2>5 DEF Lists
  <2>6. CASE WorkEnds(w)
    BY <2>6 DEF WorkEnds
  <2>7. CASE Wake(w)
    BY <2>7 DEF Wake, Stray
  <2> QED BY <1>2, <2>1, <2>2, <2>3, <2>4, <2>5, <2>6, <2>7 DEF Running
<1>3. ASSUME NEW w \in Worker, Finalizing(w) PROVE OneAttached'
  <2>1. CASE TaskStops(w)
    BY <2>1 DEF TaskStops
  <2>2. CASE PostComplete(w)
    BY <2>2 DEF PostComplete, ReportOf
  <2>3. CASE CompleteEnds(w)
    BY <2>3 DEF CompleteEnds, Leave
  <2>4. CASE CleanupTimesOut(w)
    <3>1. CASE SecondCancel(w)
      BY <3>1 DEF SecondCancel
    <3>2. CASE Leave(w, "top") /\ UNCHANGED <<catalogVars, lateVars, stop, result>>
      BY <3>2 DEF Leave
    <3> QED BY <2>4, <3>1, <3>2, BudgetEnds
  <2>5. CASE GatherCancelled(w)
    BY <2>5 DEF GatherCancelled, Leave
  <2>6. CASE Crash(w)
    BY <2>6 DEF Crash, Leave, Stray
  <2> QED BY <1>3, <2>1, <2>2, <2>3, <2>4, <2>5, <2>6 DEF Finalizing
<1>4. ASSUME NEW w \in Worker, Serving(w) PROVE OneAttached'
  <2>1. CASE ServeClaim(w)
    BY <2>1 DEF ServeClaim, Grant
  <2>2. CASE ServeNothing(w)
    BY <2>2 DEF ServeNothing
  <2>3. CASE ServeBeat(w)
    BY <2>3 DEF ServeBeat
  <2> QED BY <1>4, <2>1, <2>2, <2>3 DEF Serving
<1>5. ASSUME Catalog PROVE OneAttached'
  <2>1. CASE ServeLateClaim
    BY <2>1 DEF ServeLateClaim, Grant
  <2>2. CASE ServeLateBeat
    BY <2>2 DEF ServeLateBeat
  <2>3. CASE ServeReport
    BY <2>3 DEF ServeReport, Settle
  <2>4. CASE Expire
    <3>1. PICK s \in Terminal : Settle(s, FALSE)
      BY <2>4 DEF Expire
    <3>2. ttl = 0 /\ holder # NoJob
      BY <2>4 DEF Expire
    <3>3. \A w \in Worker :
            pc[w] # "running" /\ ~ (pc[w] = "claiming" /\ wire[w] = "granted")
      BY <3>2, ExpiredIsFree
    <3> QED BY <3>1, <3>2, <3>3 DEF Settle
  <2>5. CASE \E j \in Job : Cancel(j)
    BY <2>5 DEF Cancel
  <2> QED BY <1>5, <2>1, <2>2, <2>3, <2>4, <2>5 DEF Catalog
<1>6. CASE Tick
  BY <1>6 DEF Tick, Timed, Limit
<1>7. CASE UNCHANGED vars
  BY <1>7 DEF vars
<1> QED BY <1>1, <1>2, <1>3, <1>4, <1>5, <1>6, <1>7 DEF Next

LEMMA LeaseOutlastsNext == TypeOK /\ OneAttached /\ LeaseOutlasts /\ [Next]_vars => LeaseOutlasts'
<1> SUFFICES ASSUME TypeOK, OneAttached, LeaseOutlasts, [Next]_vars PROVE LeaseOutlasts'
  OBVIOUS
<1> USE ConstantsAssumption, MarginAssumption, ClaimAssumption
    DEF TypeOK, Terminal, Report, Attached, catalogVars, lateVars, childVars, LeaseOutlasts
<1>1. ASSUME NEW w \in Worker, Claiming(w) PROVE LeaseOutlasts'
  <2>1. CASE ClaimStart(w)
    BY <2>1 DEF ClaimStart
  <2>2. CASE Exit(w)
    BY <2>2 DEF Exit, Leave
  <2>3. CASE SignalStop(w)
    BY <2>3 DEF SignalStop
  <2>4. CASE ClaimAbandon(w)
    BY <2>4 DEF ClaimAbandon, Leave, Stray
  <2>5. CASE ClaimAnswered(w)
    BY <2>5 DEF ClaimAnswered, ClaimDeadline
  <2>6. CASE ClaimEmpty(w)
    BY <2>6 DEF ClaimEmpty, Leave
  <2>7. CASE ClaimFails(w)
    BY <2>7 DEF ClaimFails, Leave, Stray
  <2> QED BY <1>1, <2>1, <2>2, <2>3, <2>4, <2>5, <2>6, <2>7 DEF Claiming
<1>2. ASSUME NEW w \in Worker, Running(w) PROVE LeaseOutlasts'
  <2>1. CASE HeartbeatReply(w)
    BY <2>1 DEF HeartbeatReply, RenewedDeadline, AfterBeat
  <2>2. CASE HeartbeatRaises(w)
    BY <2>2 DEF HeartbeatRaises, Stray
  <2>3. CASE HeartbeatWakes(w)
    BY <2>3 DEF HeartbeatWakes
  <2>4. CASE Resend(w)
    BY <2>4 DEF Resend, Stray
  <2>5. CASE Lists(w)
    BY <2>5 DEF Lists
  <2>6. CASE WorkEnds(w)
    BY <2>6 DEF WorkEnds
  <2>7. CASE Wake(w)
    BY <2>7 DEF Wake, Stray
  <2> QED BY <1>2, <2>1, <2>2, <2>3, <2>4, <2>5, <2>6, <2>7 DEF Running
<1>3. ASSUME NEW w \in Worker, Finalizing(w) PROVE LeaseOutlasts'
  <2>1. CASE TaskStops(w)
    BY <2>1 DEF TaskStops
  <2>2. CASE PostComplete(w)
    BY <2>2 DEF PostComplete
  <2>3. CASE CompleteEnds(w)
    BY <2>3 DEF CompleteEnds, Leave
  <2>4. CASE CleanupTimesOut(w)
    BY <2>4 DEF CleanupTimesOut, Leave
  <2>5. CASE GatherCancelled(w)
    BY <2>5 DEF GatherCancelled, Leave
  <2>6. CASE Crash(w)
    BY <2>6 DEF Crash, Leave, Stray
  <2> QED BY <1>3, <2>1, <2>2, <2>3, <2>4, <2>5, <2>6 DEF Finalizing
<1>4. ASSUME NEW w \in Worker, Serving(w) PROVE LeaseOutlasts'
  <2>1. CASE ServeClaim(w)
    BY <2>1 DEF ServeClaim, Grant
  <2>2. CASE ServeNothing(w)
    BY <2>2 DEF ServeNothing
  <2>3. CASE ServeBeat(w)
    BY <2>3 DEF ServeBeat
  <2> QED BY <1>4, <2>1, <2>2, <2>3 DEF Serving
<1>5. ASSUME Catalog PROVE LeaseOutlasts'
  <2>1. CASE ServeLateClaim
    BY <2>1 DEF ServeLateClaim, Grant
  <2>2. CASE ServeLateBeat
    BY <2>2 DEF ServeLateBeat
  <2>3. CASE ServeReport
    <3>1. \A w \in Worker : ~ Attached(w)
      BY <2>3 DEF ServeReport, OneAttached
    <3> QED BY <2>3, <3>1 DEF ServeReport, Settle
  <2>4. CASE Expire
    <3>1. \A w \in Worker :
            pc[w] # "running" /\ ~ (pc[w] = "claiming" /\ wire[w] = "granted")
      BY <2>4, ExpiredIsFree DEF Expire
    <3> QED BY <2>4, <3>1 DEF Expire, Settle
  <2>5. CASE \E j \in Job : Cancel(j)
    BY <2>5 DEF Cancel
  <2> QED BY <1>5, <2>1, <2>2, <2>3, <2>4, <2>5 DEF Catalog
<1>6. CASE Tick
  BY <1>6 DEF Tick, Timed, Limit
<1>7. CASE UNCHANGED vars
  BY <1>7 DEF vars
<1> QED BY <1>1, <1>2, <1>3, <1>4, <1>5, <1>6, <1>7 DEF Next

LEMMA LeaseInit == Init => LeaseInv
<1> SUFFICES ASSUME Init PROVE LeaseInv
  OBVIOUS
<1>1. TypeOK
  BY TypeInit
<1>2. OneAttached
  BY ConstantsAssumption DEF Init, OneAttached, Attached
<1>3. LeaseOutlasts
  BY DEF Init, LeaseOutlasts
<1> QED BY <1>1, <1>2, <1>3 DEF LeaseInv

LEMMA LeaseNext == LeaseInv /\ [Next]_vars => LeaseInv'
  BY TypeNext, OneAttachedNext, LeaseOutlastsNext DEF LeaseInv

\* The inductive invariant holds of every behaviour.
THEOREM LeaseInvariant == Spec => []LeaseInv
  BY LeaseInit, LeaseNext, PTL DEF Spec

\* A worker at work holds the job and a lease that outlasts its deadline.
THEOREM LeaseSafety == Spec => []LeaseCoversWork
<1>1. LeaseInv => LeaseCoversWork
  <2> SUFFICES ASSUME LeaseInv, NEW w \in Worker, pc[w] = "running"
               PROVE  /\ holder = job[w] /\ status[job[w]] = "running"
                      /\ ttl > 0 /\ ttl >= left[w] + Margin
    BY DEF LeaseCoversWork
  <2>1. job[w] \in Job /\ holder = job[w] /\ status[job[w]] = "running"
    BY DEF LeaseInv, TypeOK, OneAttached, Attached
  <2>2. ttl > 0 /\ ttl >= left[w] + Margin
    BY ConstantsAssumption, MarginAssumption DEF LeaseInv, TypeOK, LeaseOutlasts
  <2> QED BY <2>1, <2>2
<1> QED BY <1>1, LeaseInvariant, PTL

\* Two workers are never both at work.
THEOREM MutualExclusion == Spec => []AtMostOneWorking
<1>1. LeaseInv => AtMostOneWorking
  BY DEF LeaseInv, OneAttached, Attached, AtMostOneWorking
<1> QED BY <1>1, LeaseInvariant, PTL

-----------------------------------------------------------------------------
(* Outcomes and checkpoints.                                                 *)

LEMMA OutcomeNext == LeaseInv /\ OutcomeInv /\ [Next]_vars => OutcomeInv'
<1> SUFFICES ASSUME LeaseInv, OutcomeInv, [Next]_vars PROVE OutcomeInv'
  OBVIOUS
<1> USE DEF LeaseInv
<1> USE ConstantsAssumption
    DEF TypeOK, Terminal, Report, OneAttached, Attached, OutcomeInv, OutcomeIsEarned,
        Returned, catalogVars, lateVars, childVars
<1>1. ASSUME NEW w \in Worker, Claiming(w) PROVE OutcomeInv'
  <2>1. CASE ClaimStart(w)
    BY <2>1 DEF ClaimStart
  <2>2. CASE Exit(w)
    BY <2>2 DEF Exit, Leave
  <2>3. CASE SignalStop(w)
    BY <2>3 DEF SignalStop
  <2>4. CASE ClaimAbandon(w)
    BY <2>4 DEF ClaimAbandon, Leave, Stray
  <2>5. CASE ClaimAnswered(w)
    BY <2>5 DEF ClaimAnswered, ClaimDeadline
  <2>6. CASE ClaimEmpty(w)
    BY <2>6 DEF ClaimEmpty, Leave
  <2>7. CASE ClaimFails(w)
    BY <2>7 DEF ClaimFails, Leave, Stray
  <2> QED BY <1>1, <2>1, <2>2, <2>3, <2>4, <2>5, <2>6, <2>7 DEF Claiming
<1>2. ASSUME NEW w \in Worker, Running(w) PROVE OutcomeInv'
  <2>1. CASE HeartbeatReply(w)
    BY <2>1 DEF HeartbeatReply, RenewedDeadline, AfterBeat
  <2>2. CASE HeartbeatRaises(w)
    BY <2>2 DEF HeartbeatRaises, Stray
  <2>3. CASE HeartbeatWakes(w)
    BY <2>3 DEF HeartbeatWakes
  <2>4. CASE Resend(w)
    BY <2>4 DEF Resend, Stray
  <2>5. CASE Lists(w)
    BY <2>5 DEF Lists
  <2>6. CASE WorkEnds(w)
    BY <2>6 DEF WorkEnds
  <2>7. CASE Wake(w)
    BY <2>7 DEF Wake, Stray, Fault
  <2> QED BY <1>2, <2>1, <2>2, <2>3, <2>4, <2>5, <2>6, <2>7 DEF Running
<1>3. ASSUME NEW w \in Worker, Finalizing(w) PROVE OutcomeInv'
  <2>1. CASE TaskStops(w)
    BY <2>1 DEF TaskStops
  <2>2. CASE PostComplete(w)
    <3>1. /\ ReportOf(w).job = job[w]
          /\ ReportOf(w).error <=> error[w]
          /\ ReportOf(w).listing <=> /\ listing[w] /\ ~ error[w]
                                    /\ task[w] \in {"returned", "raised"}
      BY DEF ReportOf
    <3>2. ASSUME holder = job[w], ~ ReportOf(w).error
          PROVE  \/ Returned(ReportOf(w).job, ReportOf(w).listing)
                 \/ ReportOf(w).job \in cancelRequested
      <4>1. \/ task[w] = "returned" /\ Returned(job[w], listing[w])
            \/ job[w] \in cancelRequested
        BY <2>2, <3>1, <3>2 DEF PostComplete
      <4>2. CASE task[w] = "returned" /\ Returned(job[w], listing[w])
        <5>1. ReportOf(w).listing <=> listing[w]
          BY <3>1, <3>2, <4>2
        <5> QED BY <3>1, <4>2, <5>1
      <4> QED BY <3>1, <4>1, <4>2
    <3>3. ASSUME NEW r \in reports'
          PROVE  /\ r.listing => ~ r.error
                 /\ ~ r.error => \/ Returned(r.job, r.listing)
                                 \/ r.job \in cancelRequested
      <4>1. CASE r \in reports
        BY <4>1
      <4>2. CASE r = ReportOf(w) /\ holder = job[w]
        BY <3>1, <3>2, <4>2
      <4> QED BY <2>2, <4>1, <4>2 DEF PostComplete
    <3> QED BY <2>2, <3>3 DEF PostComplete
  <2>3. CASE CompleteEnds(w)
    BY <2>3 DEF CompleteEnds, Leave
  <2>4. CASE CleanupTimesOut(w)
    BY <2>4 DEF CleanupTimesOut, Leave
  <2>5. CASE GatherCancelled(w)
    BY <2>5 DEF GatherCancelled, Leave
  <2>6. CASE Crash(w)
    BY <2>6 DEF Crash, Leave, Stray
  <2> QED BY <1>3, <2>1, <2>2, <2>3, <2>4, <2>5, <2>6 DEF Finalizing
<1>4. ASSUME NEW w \in Worker, Serving(w) PROVE OutcomeInv'
  <2>1. CASE ServeClaim(w)
    BY <2>1 DEF ServeClaim, Grant
  <2>2. CASE ServeNothing(w)
    BY <2>2 DEF ServeNothing
  <2>3. CASE ServeBeat(w)
    BY <2>3 DEF ServeBeat
  <2> QED BY <1>4, <2>1, <2>2, <2>3 DEF Serving
<1>5. ASSUME Catalog PROVE OutcomeInv'
  <2>1. CASE ServeLateClaim
    BY <2>1 DEF ServeLateClaim, Grant
  <2>2. CASE ServeLateBeat
    BY <2>2 DEF ServeLateBeat
  <2>3. CASE ServeReport
    BY <2>3 DEF ServeReport, Settle
  <2>4. CASE Expire
    BY <2>4 DEF Expire, Settle
  <2>5. CASE \E j \in Job : Cancel(j)
    BY <2>5 DEF Cancel
  <2> QED BY <1>5, <2>1, <2>2, <2>3, <2>4, <2>5 DEF Catalog
<1>6. CASE Tick
  BY <1>6 DEF Tick, Timed, Limit
<1>7. CASE UNCHANGED vars
  BY <1>7 DEF vars
<1> QED BY <1>1, <1>2, <1>3, <1>4, <1>5, <1>6, <1>7 DEF Next

\* What each stage from the end of the work to the catalog's verdict knows of the
\* work stays true.
THEOREM OutcomeInvariant == Spec => []OutcomeInv
<1>1. Init => OutcomeInv
  BY DEF Init, OutcomeInv, OutcomeIsEarned
<1> QED BY <1>1, OutcomeNext, LeaseInvariant, PTL DEF Spec

\* A job succeeds, and a checkpoint is kept, only for work that was done.
THEOREM OutcomeSafety == Spec => []OutcomeIsEarned
<1>1. OutcomeInv => OutcomeIsEarned
  BY DEF OutcomeInv
<1> QED BY <1>1, OutcomeInvariant, PTL

\* A POST /complete claims more than the work did only for a job being cancelled.
THEOREM ReportTruth == Spec => []ReportTellsTruth
<1>1. OutcomeInv => ReportTellsTruth
  BY DEF OutcomeInv, ReportTellsTruth, Returned
<1> QED BY <1>1, OutcomeInvariant, PTL

-----------------------------------------------------------------------------
(* The deadline.                                                             *)

\* A claim is answered no later than a heartbeat round takes.
PacedClaim == ClaimSeconds <= CallSeconds + HeartbeatSeconds

LEMMA DeadlineNext == PacedClaim /\ LeaseInv /\ DeadlineInv /\ [Next]_vars => DeadlineInv'
<1> SUFFICES ASSUME PacedClaim, LeaseInv, DeadlineInv, [Next]_vars PROVE DeadlineInv'
  OBVIOUS
<1> USE ConstantsAssumption
    DEF PacedClaim, LeaseInv, TypeOK, LeaseOutlasts, DeadlineInv,
        catalogVars, lateVars, childVars
<1>1. ASSUME NEW w \in Worker, Claiming(w) PROVE DeadlineInv'
  <2>1. CASE ClaimStart(w)
    BY <2>1 DEF ClaimStart
  <2>2. CASE Exit(w)
    BY <2>2 DEF Exit, Leave
  <2>3. CASE SignalStop(w)
    BY <2>3 DEF SignalStop
  <2>4. CASE ClaimAbandon(w)
    BY <2>4 DEF ClaimAbandon, Leave, Stray
  <2>5. CASE ClaimAnswered(w)
    BY <2>5 DEF ClaimAnswered, ClaimDeadline
  <2>6. CASE ClaimEmpty(w)
    BY <2>6 DEF ClaimEmpty, Leave
  <2>7. CASE ClaimFails(w)
    BY <2>7 DEF ClaimFails, Leave, Stray
  <2> QED BY <1>1, <2>1, <2>2, <2>3, <2>4, <2>5, <2>6, <2>7 DEF Claiming
<1>2. ASSUME NEW w \in Worker, Running(w) PROVE DeadlineInv'
  <2>1. CASE HeartbeatReply(w)
    BY <2>1 DEF HeartbeatReply, RenewedDeadline, AfterBeat
  <2>2. CASE HeartbeatRaises(w)
    BY <2>2 DEF HeartbeatRaises, Stray
  <2>3. CASE HeartbeatWakes(w)
    BY <2>3 DEF HeartbeatWakes
  <2>4. CASE Resend(w)
    BY <2>4 DEF Resend, Stray
  <2>5. CASE Lists(w)
    BY <2>5 DEF Lists
  <2>6. CASE WorkEnds(w)
    BY <2>6 DEF WorkEnds
  <2>7. CASE Wake(w)
    BY <2>7 DEF Wake, Stray
  <2> QED BY <1>2, <2>1, <2>2, <2>3, <2>4, <2>5, <2>6, <2>7 DEF Running
<1>3. ASSUME NEW w \in Worker, Finalizing(w) PROVE DeadlineInv'
  <2>1. CASE TaskStops(w)
    BY <2>1 DEF TaskStops
  <2>2. CASE PostComplete(w)
    BY <2>2 DEF PostComplete
  <2>3. CASE CompleteEnds(w)
    BY <2>3 DEF CompleteEnds, Leave
  <2>4. CASE CleanupTimesOut(w)
    BY <2>4 DEF CleanupTimesOut, Leave
  <2>5. CASE GatherCancelled(w)
    BY <2>5 DEF GatherCancelled, Leave
  <2>6. CASE Crash(w)
    BY <2>6 DEF Crash, Leave, Stray
  <2> QED BY <1>3, <2>1, <2>2, <2>3, <2>4, <2>5, <2>6 DEF Finalizing
<1>4. ASSUME NEW w \in Worker, Serving(w) PROVE DeadlineInv'
  <2>1. CASE ServeClaim(w)
    BY <2>1 DEF ServeClaim, Grant
  <2>2. CASE ServeNothing(w)
    BY <2>2 DEF ServeNothing
  <2>3. CASE ServeBeat(w)
    BY <2>3 DEF ServeBeat
  <2> QED BY <1>4, <2>1, <2>2, <2>3 DEF Serving
<1>5. ASSUME Catalog PROVE DeadlineInv'
  <2>1. CASE ServeLateClaim
    BY <2>1 DEF ServeLateClaim, Grant
  <2>2. CASE ServeLateBeat
    BY <2>2 DEF ServeLateBeat
  <2>3. CASE ServeReport
    BY <2>3 DEF ServeReport, Settle
  <2>4. CASE Expire
    BY <2>4 DEF Expire, Settle
  <2>5. CASE \E j \in Job : Cancel(j)
    BY <2>5 DEF Cancel
  <2> QED BY <1>5, <2>1, <2>2, <2>3, <2>4, <2>5 DEF Catalog
<1>6. CASE Tick
  BY <1>6 DEF Tick, Timed, Limit
<1>7. CASE UNCHANGED vars
  BY <1>7 DEF vars
<1> QED BY <1>1, <1>2, <1>3, <1>4, <1>5, <1>6, <1>7 DEF Next

\* In each phase of a heartbeat the deadline is as far off as the phases before it
\* leave it, if a claim is answered as fast as a heartbeat round.
THEOREM DeadlineInvariant == PacedClaim /\ Spec => []DeadlineInv
<1>1. Init => DeadlineInv
  BY DEF Init, DeadlineInv
<1>2. CASE PacedClaim
  BY <1>1, <1>2, DeadlineNext, LeaseInvariant, PTL DEF Spec
<1> QED BY <1>2

\* With enough slack between two heartbeats and the lease, no work is ever
\* stopped by the watchdog.
THEOREM WatchdogRests == Spec => []WatchdogIsBackstop
<1>2. TypeOK /\ DeadlineInv => WatchdogIsBackstop
  BY ConstantsAssumption DEF TypeOK, DeadlineInv, WatchdogIsBackstop
<1>3. CASE PacedClaim
  BY <1>2, <1>3, DeadlineInvariant, TypeCorrect, PTL
<1>4. CASE ~ PacedClaim
  <2>1. WatchdogIsBackstop
    BY <1>4 DEF PacedClaim, WatchdogIsBackstop
  <2> QED BY <2>1, PTL
<1> QED BY <1>3, <1>4

-----------------------------------------------------------------------------
(* Refinement: every step of HarvestWorker is a step of HarvestQueue.        *)

\* Settling a job nobody works on is a step of the abstract queue.
LEMMA SettleRefines ==
  ASSUME LeaseInv, holder \in Job, \A w \in Worker : pc[w] # "running",
         NEW s \in Terminal, NEW earned, Settle(s, earned),
         s = "succeeded" => result[holder] \in {"partial", "complete"},
         earned => s = "succeeded" /\ result[holder] = "complete"
  PROVE  Queue!Next
<1>1. status[holder] = "running"
  BY DEF LeaseInv, OneAttached
<1>2. Executing' = Executing /\ ~ Queue!Executed(holder)
  BY ConstantsAssumption DEF Settle, Executing, Queue!Executed
<1>3. Queue!Settle(holder, s)
  BY <1>1, <1>2 DEF Settle, Queue!Settle
<1> QED BY <1>3 DEF Queue!Next, Queue!Terminal, Terminal

LEMMA ExpireRefines ==
  ASSUME LeaseInv, Expire
  PROVE  Queue!Next
<1>1. ttl = 0 /\ holder \in Job
  BY DEF Expire, LeaseInv, TypeOK
<1>2. \A w \in Worker : pc[w] # "running"
  BY <1>1, ExpiredIsFree DEF LeaseInv
<1>3. PICK s \in Terminal : Settle(s, FALSE) /\ s # "succeeded"
  BY DEF Expire, Terminal
<1> QED BY <1>1, <1>2, <1>3, SettleRefines

LEMMA ReportRefines ==
  ASSUME LeaseInv, OutcomeInv, ServeReport
  PROVE  Queue!Next
<1>1. PICK r \in reports :
        \/ r.job \in cancelRequested /\ Settle("cancelled", FALSE)
        \/ r.error /\ Settle("failed", FALSE)
        \/ ~ r.error /\ r.job \notin cancelRequested
           /\ Settle("succeeded", r.listing)
  BY DEF ServeReport
<1>2. r.job = holder /\ holder \in Job
  BY DEF LeaseInv, TypeOK, OneAttached, Report
<1>3. \A w \in Worker : pc[w] # "running"
  BY DEF LeaseInv, OneAttached, Attached
<1>4. CASE Settle("cancelled", FALSE) \/ Settle("failed", FALSE)
  <2>1. PICK s \in Terminal : Settle(s, FALSE) /\ s # "succeeded"
    BY <1>4 DEF Terminal
  <2> QED BY <1>2, <1>3, <2>1, SettleRefines
<1>5. CASE ~ r.error /\ r.job \notin cancelRequested
           /\ Settle("succeeded", r.listing)
  <2>1. /\ result[holder] \in {"partial", "complete"}
        /\ r.listing => result[holder] = "complete"
    BY <1>2, <1>5 DEF OutcomeInv, Returned
  <2> QED BY <1>2, <1>3, <1>5, <2>1, SettleRefines DEF Terminal
<1> QED BY <1>1, <1>4, <1>5

LEMMA QueueNext == LeaseInv /\ OutcomeInv /\ [Next]_vars => [Queue!Next]_(Queue!vars)
<1> SUFFICES ASSUME LeaseInv, OutcomeInv, [Next]_vars PROVE [Queue!Next]_(Queue!vars)
  OBVIOUS
<1> USE ConstantsAssumption
    DEF LeaseInv, TypeOK, Terminal, OneAttached, Attached, OutcomeInv, Returned,
        catalogVars, lateVars, childVars, Queue!vars
<1>1. ASSUME NEW w \in Worker, Claiming(w) PROVE [Queue!Next]_(Queue!vars)
  <2>1. CASE ClaimStart(w)
    BY <2>1 DEF ClaimStart, Executing
  <2>2. CASE Exit(w)
    BY <2>2 DEF Exit, Leave, Executing
  <2>3. CASE SignalStop(w)
    BY <2>3 DEF SignalStop, Executing
  <2>4. CASE ClaimAbandon(w)
    BY <2>4 DEF ClaimAbandon, Leave, Stray, Executing
  <2>5. CASE ClaimAnswered(w)
    <3>1. \A v \in Worker : Executing[v] = NoJob
      BY <2>5 DEF ClaimAnswered, ClaimDeadline, Executing
    <3>2. Executing' = [Executing EXCEPT ![w] = job[w]]
      BY <2>5 DEF ClaimAnswered, ClaimDeadline, Executing
    <3>3. job[w] \in Job /\ status[job[w]] = "running"
      BY <2>5 DEF ClaimAnswered, ClaimDeadline
    <3>4. Queue!Execute(w, job[w])
      BY <2>5, <3>1, <3>2, <3>3 DEF ClaimAnswered, ClaimDeadline, Queue!Execute
    <3> QED BY <3>3, <3>4 DEF Queue!Next
  <2>6. CASE ClaimEmpty(w)
    BY <2>6 DEF ClaimEmpty, Leave, Executing
  <2>7. CASE ClaimFails(w)
    BY <2>7 DEF ClaimFails, Leave, Stray, Executing
  <2> QED BY <1>1, <2>1, <2>2, <2>3, <2>4, <2>5, <2>6, <2>7 DEF Claiming
<1>2. ASSUME NEW w \in Worker, Running(w) PROVE [Queue!Next]_(Queue!vars)
  <2>1. CASE HeartbeatReply(w)
    BY <2>1 DEF HeartbeatReply, RenewedDeadline, AfterBeat, Executing
  <2>2. CASE HeartbeatRaises(w)
    BY <2>2 DEF HeartbeatRaises, Stray, Executing
  <2>3. CASE HeartbeatWakes(w)
    BY <2>3 DEF HeartbeatWakes, Executing
  <2>4. CASE Resend(w)
    BY <2>4 DEF Resend, Stray, Executing
  <2>5. CASE Lists(w)
    BY <2>5 DEF Lists, Executing
  <2>6. CASE WorkEnds(w)
    <3>1. PICK r \in Queue!Ended : result' = [result EXCEPT ![job[w]] = r]
      BY <2>6 DEF WorkEnds, Queue!Ended
    <3>2. Executing[w] = job[w] /\ job[w] \in Job /\ result[job[w]] = "none"
      BY <2>6 DEF WorkEnds, Executing
    <3>3. Executing' = Executing
      BY <2>6 DEF WorkEnds, Executing
    <3>4. UNCHANGED <<status, checkpoints>>
      BY <2>6 DEF WorkEnds
    <3>5. Queue!Finish(w, r)
      BY <3>1, <3>2, <3>3, <3>4 DEF Queue!Finish
    <3> QED BY <3>5 DEF Queue!Next
  <2>7. CASE Wake(w)
    <3>1. Executing[w] = job[w] /\ job[w] \in Job
      BY <2>7 DEF Wake, Executing
    <3>2. Executing' = [Executing EXCEPT ![w] = NoJob]
      BY <2>7 DEF Wake, Executing
    <3>3. Queue!Stop(w)
      BY <2>7, <3>1, <3>2 DEF Wake, Queue!Stop
    <3> QED BY <3>3 DEF Queue!Next
  <2> QED BY <1>2, <2>1, <2>2, <2>3, <2>4, <2>5, <2>6, <2>7 DEF Running
<1>3. ASSUME NEW w \in Worker, Finalizing(w) PROVE [Queue!Next]_(Queue!vars)
  <2>1. CASE TaskStops(w)
    BY <2>1 DEF TaskStops, Executing
  <2>2. CASE PostComplete(w)
    BY <2>2 DEF PostComplete, ReportOf, Executing
  <2>3. CASE CompleteEnds(w)
    BY <2>3 DEF CompleteEnds, Leave, Executing
  <2>4. CASE CleanupTimesOut(w)
    BY <2>4 DEF CleanupTimesOut, Leave, Executing
  <2>5. CASE GatherCancelled(w)
    BY <2>5 DEF GatherCancelled, Leave, Executing
  <2>6. CASE Crash(w)
    <3>1. CASE pc[w] = "running"
      <4>1. Executing[w] = job[w] /\ job[w] \in Job
        BY <3>1 DEF Executing
      <4>2. Executing' = [Executing EXCEPT ![w] = NoJob]
        BY <2>6 DEF Crash, Leave, Executing
      <4>3. Queue!Stop(w)
        BY <2>6, <4>1, <4>2 DEF Crash, Queue!Stop
      <4> QED BY <4>3 DEF Queue!Next
    <3>2. CASE pc[w] # "running"
      <4>1. Executing' = Executing
        BY <2>6, <3>2 DEF Crash, Leave, Executing
      <4> QED BY <2>6, <4>1 DEF Crash
    <3> QED BY <3>1, <3>2
  <2> QED BY <1>3, <2>1, <2>2, <2>3, <2>4, <2>5, <2>6 DEF Finalizing
<1>4. ASSUME NEW w \in Worker, Serving(w) PROVE [Queue!Next]_(Queue!vars)
  <2>1. CASE ServeClaim(w)
    <3>1. PICK j \in Job : Grant(j)
      BY <2>1 DEF ServeClaim
    <3>2. Executing' = Executing
      BY <2>1 DEF ServeClaim, Executing
    <3>3. Queue!Claim(j)
      BY <2>1, <3>1, <3>2 DEF ServeClaim, Grant, Queue!Claim
    <3> QED BY <3>3 DEF Queue!Next
  <2>2. CASE ServeNothing(w)
    BY <2>2 DEF ServeNothing, Executing
  <2>3. CASE ServeBeat(w)
    BY <2>3 DEF ServeBeat, Executing
  <2> QED BY <1>4, <2>1, <2>2, <2>3 DEF Serving
<1>5. ASSUME Catalog PROVE [Queue!Next]_(Queue!vars)
  <2>1. CASE ServeLateClaim
    <3>1. Executing' = Executing
      BY <2>1 DEF ServeLateClaim, Executing
    <3>2. CASE UNCHANGED <<catalogVars, lateBeats>>
      BY <2>1, <3>1, <3>2 DEF ServeLateClaim
    <3>3. ASSUME NEW j \in Job, Grant(j) PROVE Queue!Next
      <4>1. Queue!Claim(j)
        BY <2>1, <3>1, <3>3 DEF ServeLateClaim, Grant, Queue!Claim
      <4> QED BY <4>1 DEF Queue!Next
    <3> QED BY <2>1, <3>2, <3>3 DEF ServeLateClaim
  <2>2. CASE ServeLateBeat
    BY <2>2 DEF ServeLateBeat, Executing
  <2>3. CASE ServeReport
    BY <2>3, ReportRefines
  <2>4. CASE Expire
    BY <2>4, ExpireRefines
  <2>5. CASE \E j \in Job : Cancel(j)
    <3>1. PICK j \in Job : Cancel(j)
      BY <2>5
    <3>2. Executing' = Executing
      BY <3>1 DEF Cancel, Executing
    <3>3. CASE status[j] = "queued" /\ status' = [status EXCEPT ![j] = "cancelled"]
      <4>1. Queue!Withdraw(j)
        BY <3>1, <3>2, <3>3 DEF Cancel, Queue!Withdraw
      <4> QED BY <4>1 DEF Queue!Next
    <3>4. CASE UNCHANGED status
      BY <3>1, <3>2, <3>4 DEF Cancel
    <3> QED BY <3>1, <3>3, <3>4 DEF Cancel
  <2> QED BY <1>5, <2>1, <2>2, <2>3, <2>4, <2>5 DEF Catalog
<1>6. CASE Tick
  BY <1>6 DEF Tick, Executing
<1>7. CASE UNCHANGED vars
  BY <1>7 DEF vars, Executing
<1> QED BY <1>1, <1>2, <1>3, <1>4, <1>5, <1>6, <1>7 DEF Next

\* The worker and its catalog implement the abstract queue.
THEOREM Refinement == Spec => ImplementsQueue
<1>1. Init => Queue!Init
  BY DEF Init, Queue!Init, Executing
<1> QED
  BY <1>1, QueueNext, OutcomeInvariant, LeaseInvariant, PTL
     DEF Spec, ImplementsQueue, Queue!Spec
====
