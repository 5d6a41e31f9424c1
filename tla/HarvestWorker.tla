---- MODULE HarvestWorker ----
(* The queue consumer (worker.py) against the catalog's job queue.           *)
(*                                                                           *)
(* Time is discrete: Tick moves every clock one second.  Timers are the      *)
(* seconds that have passed (age) or that remain (left, ttl), never absolute *)
(* instants, so the state space is finite without a bound on time.           *)
(* A job is claimed at most once (a retry is a new job), so a job also       *)
(* stands for its claim token.                                               *)
(*                                                                           *)
(* A definition right above the one it varies (DeadlineFromAnswer above      *)
(* ClaimDeadline) is a mutant: what the code could wrongly do.  No action    *)
(* uses it.                                                                  *)
EXTENDS Integers, FiniteSets

CONSTANTS
  Worker, Job, NoJob,
  Lease,             \* lease_seconds of a claim, renewed by a heartbeat
  Margin,            \* the 5 seconds worker.py keeps between deadline and lease
  ClaimSeconds,      \* longest claim request (one attempt)
  CallSeconds,       \* longest heartbeat request (three attempts and backoff)
  HeartbeatSeconds,  \* sleep between heartbeats
  CleanupSeconds,    \* budget of gather and complete
  Stall,             \* how late the event loop may act on a timer that is due
  MaxLate            \* bound on stray requests of one kind still on the wire

ASSUME ConstantsAssumption ==
  /\ {Lease, Margin, ClaimSeconds, CallSeconds, HeartbeatSeconds,
      CleanupSeconds, Stall, MaxLate} \subseteq Nat
  /\ NoJob \notin Job
ASSUME MarginAssumption == Stall < Margin
ASSUME ClaimAssumption == ClaimSeconds + Margin <= Lease

VARIABLES
  \* the catalog (external)
  status,           \* of each job
  cancelRequested,  \* jobs whose cancellation was asked for while running
  holder,           \* the job that holds the one claim token
  ttl,              \* seconds before its lease runs out
  checkpoints,      \* jobs that established a checkpoint
  \* requests no worker waits for any more
  lateClaims, lateBeats,
  reports,          \* POST /complete bodies not delivered yet
  \* each worker process
  pc,
  stop,             \* the stop event: SIGTERM or SIGINT was received
  job,              \* claimed["job"]
  wire,             \* the claim or heartbeat request: sent, or its answer
  age,              \* seconds since the current request, sleep or cleanup began
  left,             \* deadline - now
  task, pulse,      \* the children of run_job that do work() and heartbeat()
  listing,          \* progress.listing_complete
  error,            \* run_job's error is set
  \* history: how the execution of each job ended
  result

catalogVars == <<status, cancelRequested, holder, ttl, checkpoints>>
lateVars    == <<lateClaims, lateBeats, reports>>
childVars   == <<task, pulse, listing, error>>
vars == <<catalogVars, lateVars, pc, stop, job, wire, age, left, childVars, result>>

Terminal == {"succeeded", "failed", "cancelled"}
Report   == [job : Job, listing : BOOLEAN, error : BOOLEAN]

TypeOK ==
  /\ status \in [Job -> {"queued", "running"} \cup Terminal]
  /\ cancelRequested \subseteq Job
  /\ holder \in Job \cup {NoJob}
  /\ ttl \in 0..Lease
  /\ checkpoints \subseteq Job
  /\ lateClaims \in Nat /\ lateBeats \in Nat
  /\ reports \subseteq Report
  /\ pc \in [Worker -> {"top", "claiming", "running", "gathering",
                        "overdue", "completing", "exited", "dead"}]
  /\ stop \in [Worker -> BOOLEAN]
  /\ job \in [Worker -> Job \cup {NoJob}]
  /\ \A w \in Worker :
       \/ pc[w] \in {"running", "gathering"}
       \/ pc[w] = "claiming" /\ wire[w] = "granted"
       => job[w] \in Job
  /\ wire \in [Worker -> {"idle", "sent", "granted", "cancel", "refused"}]
  /\ age \in [Worker -> Nat]
  /\ left \in [Worker -> Int]
  /\ task \in [Worker -> {"idle", "running", "returned", "raised",
                          "cancelling", "cancelled"}]
  /\ pulse \in [Worker -> {"idle", "calling", "sleeping", "cancelled", "raised"}]
  /\ listing \in [Worker -> BOOLEAN]
  /\ error \in [Worker -> BOOLEAN]
  /\ result \in [Job -> {"none", "raised", "partial", "complete"}]

Init ==
  /\ status = [j \in Job |-> "queued"]
  /\ cancelRequested = {}
  /\ holder = NoJob /\ ttl = 0
  /\ checkpoints = {}
  /\ lateClaims = 0 /\ lateBeats = 0 /\ reports = {}
  /\ pc = [w \in Worker |-> "top"]
  /\ stop = [w \in Worker |-> FALSE]
  /\ job = [w \in Worker |-> NoJob]
  /\ wire = [w \in Worker |-> "idle"]
  /\ age = [w \in Worker |-> 0]
  /\ left = [w \in Worker |-> 0]
  /\ task = [w \in Worker |-> "idle"]
  /\ pulse = [w \in Worker |-> "idle"]
  /\ listing = [w \in Worker |-> FALSE]
  /\ error = [w \in Worker |-> FALSE]
  /\ result = [j \in Job |-> "none"]

-----------------------------------------------------------------------------
(* The loop of worker(): claim one job and run it, over and over.            *)

\* Back at the top of the loop, or out of it, a worker keeps nothing of a job.
Leave(w, to) ==
  /\ pc' = [pc EXCEPT ![w] = to]
  /\ job' = [job EXCEPT ![w] = NoJob]
  /\ wire' = [wire EXCEPT ![w] = "idle"]
  /\ age' = [age EXCEPT ![w] = 0]
  /\ left' = [left EXCEPT ![w] = 0]
  /\ task' = [task EXCEPT ![w] = "idle"]
  /\ pulse' = [pulse EXCEPT ![w] = "idle"]
  /\ listing' = [listing EXCEPT ![w] = FALSE]
  /\ error' = [error EXCEPT ![w] = FALSE]

\* An abandoned request may still reach the catalog.
Stray(w) ==
  /\ lateClaims' = IF pc[w] = "claiming" /\ wire[w] = "sent" /\ lateClaims < MaxLate
                   THEN lateClaims + 1 ELSE lateClaims
  /\ lateBeats' = IF /\ pc[w] = "running" /\ wire[w] = "sent"
                     /\ job[w] = holder /\ lateBeats < MaxLate
                  THEN lateBeats + 1 ELSE lateBeats

ClaimStart(w) ==
  /\ pc[w] = "top" /\ ~ stop[w]
  /\ pc' = [pc EXCEPT ![w] = "claiming"]
  /\ wire' = [wire EXCEPT ![w] = "sent"]
  /\ age' = [age EXCEPT ![w] = 0]
  /\ UNCHANGED <<catalogVars, lateVars, stop, job, left, childVars, result>>

Exit(w) ==
  /\ pc[w] = "top" /\ stop[w]
  /\ Leave(w, "exited")
  /\ UNCHANGED <<catalogVars, lateVars, stop, result>>

\* The signal sets the event, and with it the child that waits for it is done: a
\* step that the child, a turn of the loop later, could not stop any more is the
\* same step taken before the signal.
SignalStop(w) ==
  /\ pc[w] \notin {"exited", "dead"} /\ ~ stop[w]
  /\ stop' = [stop EXCEPT ![w] = TRUE]
  /\ UNCHANGED <<catalogVars, lateVars, pc, job, wire, age, left, childVars,
                 result>>

\* stop_task in done: leave, even if the claim was granted in the same turn.
ClaimAbandon(w) ==
  /\ pc[w] = "claiming" /\ stop[w]
  /\ Leave(w, "exited") /\ Stray(w)
  /\ UNCHANGED <<catalogVars, reports, stop, result>>

\* The deadline counts from before the claim was sent, not from its answer.
DeadlineFromAnswer(w) == Lease - Margin
ClaimDeadline(w) == Lease - Margin - age[w]

\* The answer holds a job: run_job creates its children.
ClaimAnswered(w) ==
  /\ pc[w] = "claiming" /\ ~ stop[w] /\ wire[w] = "granted"
  /\ pc' = [pc EXCEPT ![w] = "running"]
  /\ left' = [left EXCEPT ![w] = ClaimDeadline(w)]
  /\ age' = [age EXCEPT ![w] = 0]
  /\ wire' = [wire EXCEPT ![w] = "sent"]
  /\ task' = [task EXCEPT ![w] = "running"]
  /\ pulse' = [pulse EXCEPT ![w] = "calling"]
  /\ UNCHANGED <<catalogVars, lateVars, stop, job, listing, error,
                 result>>

\* Nothing queued (204), or the one attempt failed: an error, a lost request
\* or answer, the client's timeout.  It is not repeated: the loop pauses for
\* poll_seconds, or until the stop event, and starts over (the pause only sets the
\* pace, so it is part of being at the top).
ClaimEmpty(w) ==
  /\ pc[w] = "claiming" /\ ~ stop[w] /\ wire[w] = "refused"
  /\ Leave(w, "top")
  /\ UNCHANGED <<catalogVars, lateVars, stop, result>>

ClaimFails(w) ==
  /\ pc[w] = "claiming" /\ ~ stop[w]
  /\ Leave(w, "top") /\ Stray(w)
  /\ UNCHANGED <<catalogVars, reports, stop, result>>

-----------------------------------------------------------------------------
(* run_job: work, heartbeat, lease_watchdog and the stop event race.         *)

\* The deadline counts from before the request, whichever attempt answered.
DeadlineNotRenewed(w) == left[w]
RenewedDeadline(w) == Lease - Margin - age[w]

CancelIgnored(w) == "sleeping"
AfterBeat(w) == IF wire[w] = "cancel" THEN "cancelled" ELSE "sleeping"

HeartbeatReply(w) ==
  /\ pc[w] = "running" /\ pulse[w] = "calling" /\ wire[w] \in {"granted", "cancel"}
  /\ left' = [left EXCEPT ![w] = RenewedDeadline(w)]
  /\ pulse' = [pulse EXCEPT ![w] = AfterBeat(w)]
  /\ wire' = [wire EXCEPT ![w] = "idle"]
  /\ age' = [age EXCEPT ![w] = 0]
  /\ UNCHANGED <<catalogVars, lateVars, pc, stop, job, task,
                 listing, error, result>>

\* A refusal (409), or the third attempt failed.
HeartbeatRaises(w) ==
  /\ pc[w] = "running" /\ pulse[w] = "calling"
  /\ Stray(w)
  /\ pulse' = [pulse EXCEPT ![w] = "raised"]
  /\ wire' = [wire EXCEPT ![w] = "idle"]
  /\ age' = [age EXCEPT ![w] = 0]
  /\ UNCHANGED <<catalogVars, reports, pc, stop, job, left, task,
                 listing, error, result>>

HeartbeatWakes(w) ==
  /\ pc[w] = "running" /\ pulse[w] = "sleeping" /\ age[w] >= HeartbeatSeconds
  /\ pulse' = [pulse EXCEPT ![w] = "calling"]
  /\ wire' = [wire EXCEPT ![w] = "sent"]
  /\ age' = [age EXCEPT ![w] = 0]
  /\ UNCHANGED <<catalogVars, lateVars, pc, stop, job, left, task,
                 listing, error, result>>

\* client.request sends the heartbeat again after a lost request or answer.
Resend(w) ==
  /\ pc[w] = "running" /\ pulse[w] = "calling" /\ wire[w] # "refused"
  /\ Stray(w)
  /\ wire' = [wire EXCEPT ![w] = "sent"]
  /\ UNCHANGED <<catalogVars, reports, pc, stop, job, age, left,
                 childVars, result>>

\* Inside execute: an unbounded run reached the end of the listing.
Lists(w) ==
  /\ pc[w] = "running" /\ task[w] = "running" /\ ~ listing[w]
  /\ listing' = [listing EXCEPT ![w] = TRUE]
  /\ UNCHANGED <<catalogVars, lateVars, pc, stop, job, wire, age, left,
                 task, pulse, error, result>>

WorkEnds(w) ==
  /\ pc[w] = "running" /\ task[w] = "running"
  /\ \E how \in {"returned", "raised"} :
       /\ task' = [task EXCEPT ![w] = how]
       /\ result' = [result EXCEPT ![job[w]] =
                       IF how = "raised" THEN "raised"
                       ELSE IF listing[w] THEN "complete" ELSE "partial"]
  /\ UNCHANGED <<catalogVars, lateVars, pc, stop, job, wire, age, left,
                 pulse, listing, error>>

\* The first of stopped, watchdog, pulse, task that is done decides the error.
FaultWithoutStop(w, expired) ==
  \/ expired \/ pulse[w] = "raised"
  \/ pulse[w] # "cancelled" /\ task[w] = "raised"
FaultWithoutPulse(w, expired) ==
  \/ stop[w] \/ expired
  \/ pulse[w] # "cancelled" /\ task[w] = "raised"
Fault(w, expired) ==
  \/ stop[w] \/ expired
  \/ pulse[w] = "raised"
  \/ pulse[w] # "cancelled" /\ task[w] = "raised"

\* asyncio.wait returns, and the finally block cancels every child.  The
\* watchdog is done if it looked at the clock after the deadline (expired).
Wake(w) ==
  /\ pc[w] = "running"
  /\ \E expired \in BOOLEAN :
       /\ expired => left[w] <= 0
       /\ \/ stop[w] \/ expired
          \/ pulse[w] \in {"cancelled", "raised"}
          \/ task[w] \in {"returned", "raised"}
       /\ error' = [error EXCEPT ![w] = Fault(w, expired)]
  /\ task' = [task EXCEPT ![w] = IF @ = "running" THEN "cancelling" ELSE @]
  /\ Stray(w)
  /\ pc' = [pc EXCEPT ![w] = "gathering"]
  /\ pulse' = [pulse EXCEPT ![w] = "idle"]
  /\ wire' = [wire EXCEPT ![w] = "idle"]
  /\ age' = [age EXCEPT ![w] = 0]
  /\ left' = [left EXCEPT ![w] = 0]
  /\ UNCHANGED <<catalogVars, reports, stop, job, listing, result>>

\* The cancelled work ends; an exception of its clean-up hides the cancellation.
TaskStops(w) ==
  /\ pc[w] = "gathering" /\ task[w] = "cancelling"
  /\ \E how \in {"cancelled", "raised"} : task' = [task EXCEPT ![w] = how]
  /\ UNCHANGED <<catalogVars, lateVars, pc, stop, job, wire, age, left,
                 pulse, listing, error, result>>

ReportOf(w) ==
  [job |-> job[w], error |-> error[w],
   listing |-> listing[w] /\ ~ error[w] /\ task[w] \in {"returned", "raised"}]

\* The locals that made the body are not read again.
PostComplete(w) ==
  /\ pc[w] = "gathering" /\ task[w] # "cancelling"
  /\ pc' = [pc EXCEPT ![w] = "completing"]
  /\ reports' = IF holder = job[w] THEN reports \cup {ReportOf(w)} ELSE reports
  /\ task' = [task EXCEPT ![w] = "idle"]
  /\ listing' = [listing EXCEPT ![w] = FALSE]
  /\ error' = [error EXCEPT ![w] = FALSE]
  /\ UNCHANGED <<catalogVars, lateClaims, lateBeats, stop, job, wire,
                 age, left, pulse, result>>

\* /complete answered, was refused, or failed: run_job returns all the same.
CompleteEnds(w) ==
  /\ pc[w] = "completing"
  /\ Leave(w, "top")
  /\ UNCHANGED <<catalogVars, lateVars, stop, result>>

\* The budget spans the gather and the request.  The timeout cancels what is
\* awaited: the request ends there, but a gather passes the cancellation on to
\* the work and still waits until the work is done.
BudgetForRequestOnly(w) ==
  /\ pc[w] = "completing" /\ age[w] >= CleanupSeconds
  /\ Leave(w, "top")
  /\ UNCHANGED <<catalogVars, lateVars, stop, result>>
CleanupTimesOut(w) ==
  /\ pc[w] \in {"gathering", "completing"} /\ age[w] >= CleanupSeconds
  /\ \/ task[w] # "cancelling" /\ Leave(w, "top")
     \/ /\ task[w] = "cancelling"
        /\ pc' = [pc EXCEPT ![w] = "overdue"]
        /\ age' = [age EXCEPT ![w] = 0]
        /\ listing' = [listing EXCEPT ![w] = FALSE]
        /\ error' = [error EXCEPT ![w] = FALSE]
        /\ UNCHANGED <<job, wire, left, task, pulse>>
  /\ UNCHANGED <<catalogVars, lateVars, stop, result>>

\* The work cancelled twice ends, the gather with it and run_job: its timeout
\* skips /complete.
GatherCancelled(w) ==
  /\ pc[w] = "overdue"
  /\ Leave(w, "top")
  /\ UNCHANGED <<catalogVars, lateVars, stop, result>>

\* The process dies.  A new one would start with nothing, and with an identity
\* of its own: it is another worker.
Crash(w) ==
  /\ pc[w] \notin {"exited", "dead"}
  /\ Leave(w, "dead") /\ Stray(w)
  /\ stop' = [stop EXCEPT ![w] = FALSE]
  /\ UNCHANGED <<catalogVars, reports, result>>

-----------------------------------------------------------------------------
(* The catalog, as worker.py uses it: one claim at a time, a lease on it,    *)
(* and a token that every later request of the job must present.             *)

GrantBesideAnother(j) ==
  /\ status[j] = "queued"
  /\ status' = [status EXCEPT ![j] = "running"]
  /\ holder' = j
  /\ ttl' = Lease
  /\ lateBeats' = 0
  /\ UNCHANGED <<cancelRequested, checkpoints>>
Grant(j) ==
  /\ holder = NoJob /\ status[j] = "queued"
  /\ status' = [status EXCEPT ![j] = "running"]
  /\ holder' = j
  /\ ttl' = Lease
  /\ lateBeats' = 0
  /\ UNCHANGED <<cancelRequested, checkpoints>>

ServeClaim(w) ==
  /\ pc[w] = "claiming" /\ wire[w] = "sent"
  /\ \E j \in Job :
       /\ Grant(j)
       /\ job' = [job EXCEPT ![w] = j]
  /\ wire' = [wire EXCEPT ![w] = "granted"]
  /\ UNCHANGED <<lateClaims, reports, pc, stop, age, left, childVars,
                 result>>

\* Nothing to claim, a claim is out already, or the queue is paused.
ServeNothing(w) ==
  /\ pc[w] = "claiming" /\ wire[w] = "sent"
  /\ wire' = [wire EXCEPT ![w] = "refused"]
  /\ UNCHANGED <<catalogVars, lateVars, pc, stop, job, age, left,
                 childVars, result>>

\* The claim of a worker that went away: the job has no worker.
ServeLateClaim ==
  /\ lateClaims > 0
  /\ lateClaims' = lateClaims - 1
  /\ \/ \E j \in Job : Grant(j)
     \/ UNCHANGED <<catalogVars, lateBeats>>
  /\ UNCHANGED <<reports, pc, stop, job, wire, age, left, childVars,
                 result>>

ServeBeat(w) ==
  /\ pc[w] = "running" /\ pulse[w] = "calling" /\ wire[w] = "sent"
  /\ IF holder = job[w] /\ ttl > 0
     THEN /\ ttl' = Lease
          /\ wire' = [wire EXCEPT ![w] = IF job[w] \in cancelRequested
                                         THEN "cancel" ELSE "granted"]
     ELSE /\ wire' = [wire EXCEPT ![w] = "refused"]
          /\ UNCHANGED ttl
  /\ UNCHANGED <<status, cancelRequested, holder, checkpoints, lateVars, pc,
                 stop, job, age, left, childVars, result>>

ServeLateBeat ==
  /\ lateBeats > 0
  /\ lateBeats' = lateBeats - 1
  /\ ttl' = IF ttl > 0 THEN Lease ELSE ttl
  /\ UNCHANGED <<status, cancelRequested, holder, checkpoints, lateClaims,
                 reports, pc, stop, job, wire, age, left, childVars,
                 result>>

\* Settling releases the claim; requests that carry its token are refused now.
Settle(s, earned) ==
  /\ status' = [status EXCEPT ![holder] = s]
  /\ checkpoints' = IF earned THEN checkpoints \cup {holder} ELSE checkpoints
  /\ holder' = NoJob
  /\ ttl' = 0
  /\ lateBeats' = 0
  /\ reports' = {}
  /\ UNCHANGED <<cancelRequested, lateClaims, pc, stop, job, wire, age,
                 left, childVars, result>>

\* A cancellation that was asked for wins over success.
ServeReport ==
  \E r \in reports :
    /\ r.job = holder /\ ttl > 0
    /\ \/ r.job \in cancelRequested /\ Settle("cancelled", FALSE)
       \/ r.error /\ Settle("failed", FALSE)
       \/ ~ r.error /\ r.job \notin cancelRequested
          /\ Settle("succeeded", r.listing)

\* A lease that ran out records the failure and frees the claim.
ExpireUnlessCancelling ==
  /\ holder \notin cancelRequested \cup {NoJob} /\ ttl = 0
  /\ Settle("failed", FALSE)
Expire ==
  /\ holder # NoJob /\ ttl = 0
  /\ \E s \in {"failed"} \cup
               (IF holder \in cancelRequested THEN {"cancelled"} ELSE {}) :
       Settle(s, FALSE)

Cancel(j) ==
  /\ \/ /\ status[j] = "queued"
        /\ status' = [status EXCEPT ![j] = "cancelled"]
        /\ UNCHANGED cancelRequested
     \/ /\ status[j] = "running" /\ j \notin cancelRequested
        /\ cancelRequested' = cancelRequested \cup {j}
        /\ UNCHANGED status
  /\ UNCHANGED <<holder, ttl, checkpoints, lateVars, pc, stop, job,
                 wire, age, left, childVars, result>>

-----------------------------------------------------------------------------
(* Time.  A timer that is due is acted on at most Stall seconds late.        *)

Timed(w) == pc[w] \in {"claiming", "running", "gathering", "completing"}

\* A heartbeat that is done leaves nothing to wait for: asyncio.wait returns.
Limit(w) ==
  CASE pc[w] = "claiming" -> ClaimSeconds
    [] pc[w] = "running"  -> CASE pulse[w] = "calling"  -> CallSeconds
                               [] pulse[w] = "sleeping" -> HeartbeatSeconds
                               [] OTHER                 -> 0
    [] OTHER              -> CleanupSeconds

Tick ==
  /\ \A w \in Worker :
       /\ Timed(w) => age[w] < Limit(w) + Stall
       /\ pc[w] = "running" => left[w] > - Stall
  /\ age' = [w \in Worker |-> IF Timed(w) THEN age[w] + 1 ELSE age[w]]
  /\ left' = [w \in Worker |-> IF pc[w] = "running" THEN left[w] - 1 ELSE left[w]]
  /\ ttl' = IF ttl > 0 THEN ttl - 1 ELSE 0
  /\ UNCHANGED <<status, cancelRequested, holder, checkpoints, lateVars, pc,
                 stop, job, wire, childVars, result>>

-----------------------------------------------------------------------------
Claiming(w) ==
  \/ ClaimStart(w) \/ Exit(w) \/ SignalStop(w)
  \/ ClaimAbandon(w) \/ ClaimAnswered(w) \/ ClaimEmpty(w) \/ ClaimFails(w)

Running(w) ==
  \/ HeartbeatReply(w) \/ HeartbeatRaises(w) \/ HeartbeatWakes(w) \/ Resend(w)
  \/ Lists(w) \/ WorkEnds(w) \/ Wake(w)

Finalizing(w) ==
  \/ TaskStops(w) \/ PostComplete(w) \/ CompleteEnds(w) \/ CleanupTimesOut(w)
  \/ GatherCancelled(w) \/ Crash(w)

Serving(w) == ServeClaim(w) \/ ServeNothing(w) \/ ServeBeat(w)

Catalog ==
  \/ ServeLateClaim \/ ServeLateBeat \/ ServeReport \/ Expire
  \/ \E j \in Job : Cancel(j)

Next ==
  \/ \E w \in Worker : Claiming(w) \/ Running(w) \/ Finalizing(w) \/ Serving(w)
  \/ Catalog
  \/ Tick

Spec == Init /\ [][Next]_vars

\* What runs by itself: the event loop acts on what is due, time passes, and the
\* catalog's lease recovery runs.  Work that was cancelled twice ends: what
\* execute still waits for then is no answer of the network (CancelEnds of Runner).
\* Nothing says that a request is ever answered, that the work ends by itself or
\* within the budget of its first cancellation, or that a job is ever claimed.
Fairness ==
  /\ WF_vars(Tick) /\ WF_vars(Expire)
  /\ \A w \in Worker :
       /\ WF_vars(Exit(w)) /\ WF_vars(ClaimAbandon(w))
       /\ WF_vars(Wake(w)) /\ WF_vars(HeartbeatWakes(w))
       /\ WF_vars(age[w] >= ClaimSeconds /\ ClaimFails(w))
       /\ WF_vars(age[w] >= CallSeconds /\ HeartbeatRaises(w))
       /\ WF_vars(CleanupTimesOut(w)) /\ WF_vars(GatherCancelled(w))

FairSpec == Spec /\ Fairness

-----------------------------------------------------------------------------
(* Safety.                                                                   *)

\* The job a worker holds the claim of, from the answer that grants it to the
\* end of the race in run_job.
Owns(w, j) ==
  /\ job[w] = j /\ j # NoJob
  /\ pc[w] = "running" \/ pc[w] = "claiming"

\* While run_job lets the work go on, the catalog still holds the job for it and
\* the lease outlasts the local deadline by the margin: the watchdog stops the
\* work before the catalog can give the job up ("The worker stops before its
\* local lease deadline if renewal fails").
LeaseCoversWork ==
  \A w \in Worker : pc[w] = "running" =>
    /\ holder = job[w] /\ status[job[w]] = "running"
    /\ ttl > 0 /\ ttl >= left[w] + Margin

\* However claims, answers and heartbeats are lost or late, two workers are
\* never both at work ("global claim token").
AtMostOneWorking ==
  \A v, w \in Worker : pc[v] = "running" /\ pc[w] = "running" => v = w

\* A job succeeds only when its execution returned, and only an execution that
\* listed everything and fetched it leaves a checkpoint ("Only a complete,
\* unbounded successful run establishes a checkpoint"): a stop, a fault or a
\* cancellation in between never does.
OutcomeIsEarned ==
  /\ \A j \in Job : status[j] = "succeeded" => result[j] \in {"partial", "complete"}
  /\ \A j \in checkpoints : status[j] = "succeeded" /\ result[j] = "complete"

\* listing_complete of POST /complete claims more than the execution did only if
\* the job is being cancelled: a cancellation seen by the heartbeat masks the
\* failure of the work, and the catalog's precedence of cancellation decides.
ReportTellsTruth ==
  \A r \in reports :
    /\ r.listing /\ result[r.job] # "complete" => r.job \in cancelRequested
    /\ ~ r.error /\ result[r.job] \notin {"partial", "complete"}
         => r.job \in cancelRequested

\* With the deployed seconds the watchdog is only a backstop: as long as every
\* heartbeat ends in an answer or an exception, the deadline never comes.
WatchdogIsBackstop ==
  /\ 2 * CallSeconds + HeartbeatSeconds + 4 * Stall < Lease - Margin
  /\ ClaimSeconds <= CallSeconds + HeartbeatSeconds
  => \A w \in Worker : pc[w] = "running" => left[w] > 0

\* The job whose work each worker lets go on.
Executing == [w \in Worker |-> IF pc[w] = "running" THEN job[w] ELSE NoJob]

\* Every behaviour is one of the abstract queue: the lease is invisible.
Queue == INSTANCE HarvestQueue WITH executing <- Executing
ImplementsQueue == Queue!Spec

\* Why the lease is enough: the inductive invariant behind LeaseCoversWork.
\* A worker is attached to the claim from the answer that grants it to the moment
\* it posts its report.
Attached(w) ==
  \/ pc[w] = "running"
  \/ pc[w] = "claiming" /\ wire[w] = "granted"
  \/ pc[w] = "gathering" /\ holder = job[w]

\* At most one worker is attached, and once its report is out nobody is.
OneAttached ==
  /\ \A j \in Job : status[j] = "running" <=> holder = j
  /\ \A w \in Worker : Attached(w) => holder = job[w]
  /\ \A w \in Worker : pc[w] = "gathering" => status[job[w]] # "queued"
  /\ \A v, w \in Worker : Attached(v) /\ Attached(w) => v = w
  /\ \A r \in reports : r.job = holder /\ \A w \in Worker : ~ Attached(w)

\* The catalog's lease outlasts whatever the worker knows about it: an answer
\* that is still under way renewed the lease no earlier than its request began.
LeaseOutlasts ==
  /\ \A w \in Worker : pc[w] = "claiming" =>
       /\ age[w] <= ClaimSeconds + Stall
       /\ wire[w] = "granted" => ttl >= Lease - age[w]
  /\ \A w \in Worker : pc[w] = "running" =>
       /\ left[w] >= - Stall /\ ttl >= left[w] + Margin
       /\ left[w] <= Lease - Margin
       /\ pulse[w] = "calling" => left[w] <= Lease - Margin - age[w]
       /\ pulse[w] = "calling" /\ wire[w] \in {"granted", "cancel"}
            => ttl >= Lease - age[w]

LeaseInv == TypeOK /\ OneAttached /\ LeaseOutlasts

\* Why outcomes are earned: what every stage between the end of the work and the
\* catalog's verdict knows about the work.
Returned(j, listed) == result[j] = IF listed THEN "complete" ELSE "partial"

OutcomeInv ==
  /\ \A j \in Job : status[j] = "queued" => result[j] = "none"
  /\ \A w \in Worker : pc[w] = "claiming" /\ wire[w] = "granted" =>
       result[job[w]] = "none"
  /\ \A w \in Worker : pc[w] = "running" =>
       /\ task[w] \in {"running", "returned", "raised"}
       /\ task[w] = "running" => result[job[w]] = "none"
       /\ task[w] = "returned" => Returned(job[w], listing[w])
       /\ pulse[w] = "cancelled" \/ wire[w] = "cancel" => job[w] \in cancelRequested
  /\ \A w \in Worker : pc[w] = "gathering" /\ holder = job[w] /\ ~ error[w] =>
       \/ task[w] = "returned" /\ Returned(job[w], listing[w])
       \/ job[w] \in cancelRequested
  /\ \A r \in reports :
       /\ r.listing => ~ r.error
       /\ ~ r.error => Returned(r.job, r.listing) \/ r.job \in cancelRequested
  /\ OutcomeIsEarned

\* Why the watchdog is a backstop: the deadline left in each phase of a heartbeat.
DeadlineInv ==
  \A w \in Worker : pc[w] = "running" =>
    CASE pulse[w] = "calling" ->
           /\ age[w] <= CallSeconds + Stall
           /\ left[w] >= Lease - Margin - CallSeconds - HeartbeatSeconds
                          - 2 * Stall - age[w]
      [] pulse[w] = "sleeping" ->
           /\ age[w] <= HeartbeatSeconds + Stall
           /\ left[w] >= Lease - Margin - CallSeconds - Stall - age[w]
      [] OTHER ->
           /\ age[w] <= Stall
           /\ left[w] >= Lease - Margin - 2 * CallSeconds - HeartbeatSeconds
                          - 3 * Stall - age[w]

(* Liveness, under FairSpec.                                                 *)

\* A running job whose cancellation was asked for is settled, whatever is lost:
\* a heartbeat tells the worker, or the lease runs out.
CancelSettles ==
  \A j \in Job : j \in cancelRequested ~> status[j] # "running"

\* A claim nobody works for, granted to a lost request or left by a crash or a
\* failed clean-up, is released ("lease expiry records failure and releases
\* execution").
OrphanReleased ==
  \A j \in Job :
    holder = j /\ (\A w \in Worker : ~ Owns(w, j)) ~> holder # j

\* A stopped process exits although nothing answers and the work may linger in
\* its clean-up: the budget ends the wait for the catalog, and cancels the work a
\* second time, on which it ends.
StopExits ==
  \A w \in Worker : stop[w] ~> pc[w] \in {"exited", "dead"}
====
