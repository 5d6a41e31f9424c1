---- MODULE Runner ----
(* runner.execute: one discovery loop, a window of resolve tasks, and the    *)
(* finally block that ends both.  The adapter, the provider's API and the    *)
(* catalog behind emit are the environment: they answer, fail or stay silent.*)
(*                                                                           *)
(* A definition right above the one it varies (CloseWithoutGather above      *)
(* Drained) is a mutant: what the code could wrongly do.  No action uses it. *)
EXTENDS Integers, FiniteSets

CONSTANTS
  Dataset,      \* the datasets of the provider's listing
  Concurrency,  \* resolve tasks in the window
  Retries,      \* len(retry_delays)
  Limits        \* values of limit to choose from; 0 is None

ASSUME RunnerAssumption ==
  /\ Concurrency \in Nat \ {0} /\ Retries \in Nat /\ Limits \subseteq Nat

VARIABLES
  limit,
  pc,           \* where execute is: at an await, or over
  pending,      \* what the finally block will re-raise
  seen, attempts, listing, inFlight,   \* the locals and Progress
  tasks,        \* the set of resolve tasks execute keeps
  work,         \* of each dataset: its resolve task, or its skip
  tries,        \* transient failures of its resolution so far
  verdict,      \* the outcome its payload carries
  recorded,     \* the outcome the catalog has for it
  adapterOpen, managerOpen,
  cancels,      \* CancelledErrors sent to execute
  cut,          \* history: one of them arrived during the clean-up
  sinceLoss     \* history: fetches started after an emit had failed

progress == <<seen, attempts, listing, inFlight>>
closing  == <<adapterOpen, managerOpen, cancels, cut>>
vars == <<limit, pc, pending, progress, tasks, work, tries, verdict, recorded,
          closing, sinceLoss>>

Live     == {"resolving", "backoff", "emitting", "cancelling"}
Finished == {"done", "raised", "cancelled"}

TypeOK ==
  /\ limit \in Limits
  /\ pc \in {"setup", "pulling", "skipping", "waiting", "gathering", "draining",
             "closingAdapter", "closingManager", "over"}
  /\ pending \in {"none", "error", "cancel"}
  /\ seen \subseteq Dataset /\ tasks \subseteq Dataset
  /\ attempts \in Nat /\ inFlight \in Nat /\ sinceLoss \in Nat
  /\ listing \in BOOLEAN /\ adapterOpen \in BOOLEAN /\ managerOpen \in BOOLEAN
  /\ work \in [Dataset -> {"none", "skipping", "created"} \cup Live \cup Finished]
  /\ tries \in [Dataset -> 0..Retries]
  /\ verdict \in [Dataset -> {"none", "skipped", "saved", "failed"}]
  /\ recorded \in [Dataset -> {"none", "skipped", "saved", "failed"}]
  /\ cancels \in 0..2 /\ cut \in BOOLEAN

Init ==
  /\ limit \in Limits
  /\ pc = "setup" /\ pending = "none"
  /\ seen = {} /\ attempts = 0 /\ listing = FALSE /\ inFlight = 0
  /\ tasks = {}
  /\ work = [d \in Dataset |-> "none"]
  /\ tries = [d \in Dataset |-> 0]
  /\ verdict = [d \in Dataset |-> "none"]
  /\ recorded = [d \in Dataset |-> "none"]
  /\ adapterOpen = FALSE /\ managerOpen = TRUE
  /\ cancels = 0 /\ cut = FALSE /\ sinceLoss = 0

-----------------------------------------------------------------------------
(* The finally block.  It is entered from any await of the body.             *)

\* A task that never started has nothing to undo; a live one sees the
\* cancellation at its await.
NotCancelled(s) == s
Cancelled(s) ==
  CASE s = "created"                            -> "cancelled"
    [] s \in {"resolving", "backoff", "emitting"} -> "cancelling"
    [] OTHER                                    -> s

Finally(why, remaining) ==
  /\ pc' = "draining" /\ pending' = why
  /\ tasks' = remaining
  /\ work' = [d \in Dataset |-> IF d \in remaining THEN Cancelled(work[d])
                                ELSE IF work[d] = "skipping" THEN "cancelled"
                                ELSE work[d]]

\* The cancelled resolve leaves through its own finally.
TaskCancelled(d) ==
  /\ work[d] = "cancelling"
  /\ work' = [work EXCEPT ![d] = "cancelled"]
  /\ inFlight' = inFlight - 1
  /\ UNCHANGED <<limit, pc, pending, seen, attempts, listing, tasks, tries,
                 verdict, recorded, closing, sinceLoss>>

\* gather waits for every task even when it is cancelled meanwhile; only then
\* does that cancellation skip both close calls.
CloseWithoutGather ==
  /\ pc = "draining"
  /\ pc' = "closingAdapter"
  /\ UNCHANGED <<limit, pending, progress, tasks, work, tries, verdict,
                 recorded, closing, sinceLoss>>
Drained ==
  /\ pc = "draining"
  /\ \A d \in tasks : work[d] \in Finished
  /\ pc' = IF cut THEN "over" ELSE IF adapterOpen THEN "closingAdapter"
           ELSE "closingManager"
  /\ UNCHANGED <<limit, pending, progress, tasks, work, tries, verdict,
                 recorded, closing, sinceLoss>>

\* adapter.close() and manager.close(), which may raise.
AdapterClosed ==
  /\ pc = "closingAdapter"
  /\ pc' = "closingManager"
  /\ adapterOpen' = FALSE
  /\ pending' \in {pending, "error"}
  /\ UNCHANGED <<limit, progress, tasks, work, tries, verdict, recorded,
                 managerOpen, cancels, cut, sinceLoss>>

ManagerClosed ==
  /\ pc = "closingManager"
  /\ pc' = "over"
  /\ managerOpen' = FALSE
  /\ pending' \in {pending, "error"}
  /\ UNCHANGED <<limit, progress, tasks, work, tries, verdict, recorded,
                 adapterOpen, cancels, cut, sinceLoss>>

\* run_job cancels the work once, and once more when its clean-up budget ends.
Cancel ==
  /\ pc # "over" /\ cancels < 2
  /\ cancels' = cancels + 1
  /\ IF pc \in {"setup", "pulling", "skipping", "waiting", "gathering"}
     THEN Finally("cancel", tasks) /\ UNCHANGED cut
     ELSE /\ cut' = TRUE /\ pending' = "cancel"
          /\ pc' = CASE pc = "draining"       -> "draining"
                     [] pc = "closingAdapter" -> "closingManager"
                     [] OTHER                 -> "over"
          /\ UNCHANGED <<tasks, work>>
  /\ UNCHANGED <<limit, progress, tries, verdict, recorded, adapterOpen,
                 managerOpen, sinceLoss>>

-----------------------------------------------------------------------------
(* The discovery loop.                                                       *)

\* manager.set_limit and the adapter factory.
SetUp ==
  /\ pc = "setup"
  /\ \/ /\ pc' = "pulling" /\ adapterOpen' = TRUE
        /\ UNCHANGED <<pending, tasks, work>>
     \/ Finally("error", tasks) /\ UNCHANGED adapterOpen
  /\ UNCHANGED <<limit, progress, tries, verdict, recorded, managerOpen,
                 cancels, cut, sinceLoss>>

LimitReached(n) == limit # 0 /\ n >= limit

\* A dataset yielded twice raises (DiscoveryFails).
NotChecked(d) == TRUE
Fresh(d) == d \notin seen

\* An unselected dataset is reported as skipped and does not count as a fetch.
Skip(d) ==
  /\ pc = "pulling" /\ Fresh(d)
  /\ seen' = seen \cup {d}
  /\ work' = [work EXCEPT ![d] = "skipping"]
  /\ verdict' = [verdict EXCEPT ![d] = "skipped"]
  /\ pc' = "skipping"
  /\ UNCHANGED <<limit, pending, attempts, listing, inFlight, tasks, tries,
                 recorded, closing, sinceLoss>>

\* A selected dataset gets a resolve task; a full window is waited for.
WindowOverfull(n) == n > Concurrency
NeverFull(n) == FALSE
WindowFull(n) == n >= Concurrency

Fetch(d) ==
  /\ pc = "pulling" /\ Fresh(d)
  /\ seen' = seen \cup {d}
  /\ attempts' = attempts + 1
  /\ tasks' = tasks \cup {d}
  /\ work' = [work EXCEPT ![d] = "created"]
  /\ pc' = IF WindowFull(Cardinality(tasks')) THEN "waiting"
           ELSE IF LimitReached(attempts') THEN "gathering" ELSE "pulling"
  /\ sinceLoss' = IF \E e \in Dataset : work[e] = "raised"
                  THEN sinceLoss + 1 ELSE sinceLoss
  /\ UNCHANGED <<limit, pending, listing, inFlight, tries, verdict, recorded,
                 closing>>

\* asyncio.wait: the finished tasks leave the window, and the first exception
\* among them ends the run.
WaitReturns ==
  /\ pc = "waiting"
  /\ LET finished == {d \in tasks : work[d] \in Finished} IN
       /\ finished # {}
       /\ IF \E d \in finished : work[d] = "raised"
          THEN Finally("error", tasks \ finished)
          ELSE /\ tasks' = tasks \ finished
               /\ pc' = IF LimitReached(attempts) THEN "gathering" ELSE "pulling"
               /\ UNCHANGED <<pending, work>>
  /\ UNCHANGED <<limit, progress, tries, verdict, recorded, closing, sinceLoss>>

\* The generator raises, or yields a duplicate or a candidate out of scope.
DiscoveryFails ==
  /\ pc = "pulling"
  /\ Finally("error", tasks)
  /\ UNCHANGED <<limit, progress, tries, verdict, recorded, closing, sinceLoss>>

\* The generator is exhausted: for ... else.
ListedAnyway == TRUE
ListedAll == limit = 0
ListingEnds ==
  /\ pc = "pulling" /\ seen = Dataset
  /\ listing' = ListedAll
  /\ pc' = "gathering"
  /\ UNCHANGED <<limit, pending, seen, attempts, inFlight, tasks, work, tries,
                 verdict, recorded, closing, sinceLoss>>

\* gather: over when all tasks are done, or at the first exception.
GatherReturns ==
  /\ pc = "gathering"
  /\ \/ (\A d \in tasks : work[d] = "done") /\ Finally("none", tasks)
     \/ (\E d \in tasks : work[d] = "raised") /\ Finally("error", tasks)
  /\ UNCHANGED <<limit, progress, tries, verdict, recorded, closing, sinceLoss>>

-----------------------------------------------------------------------------
(* One resolve task.                                                         *)

Start(d) ==
  /\ work[d] = "created"
  /\ work' = [work EXCEPT ![d] = "resolving"]
  /\ inFlight' = inFlight + 1
  /\ UNCHANGED <<limit, pc, pending, seen, attempts, listing, tasks, tries,
                 verdict, recorded, closing, sinceLoss>>

Emit(d, v) ==
  /\ work' = [work EXCEPT ![d] = "emitting"]
  /\ verdict' = [verdict EXCEPT ![d] = v]

\* Valid documents of the candidate's identity, or any exception but a transient
\* one: both are an outcome to report.
Resolve(d) ==
  /\ work[d] = "resolving"
  /\ Emit(d, "saved") \/ Emit(d, "failed")
  /\ UNCHANGED <<limit, pc, pending, progress, tasks, tries, recorded, closing,
                 sinceLoss>>

RetryForever(d) ==
  /\ work[d] = "resolving"
  /\ work' = [work EXCEPT ![d] = "backoff"]
  /\ UNCHANGED <<limit, pc, pending, progress, tasks, tries, verdict, recorded,
                 closing, sinceLoss>>
\* ExternalAPIError, ClientError, TimeoutError: again after a delay, or failed.
ResolveTransient(d) ==
  /\ work[d] = "resolving"
  /\ IF tries[d] < Retries
     THEN /\ tries' = [tries EXCEPT ![d] = @ + 1]
          /\ work' = [work EXCEPT ![d] = "backoff"]
          /\ UNCHANGED verdict
     ELSE Emit(d, "failed") /\ UNCHANGED tries
  /\ UNCHANGED <<limit, pc, pending, progress, tasks, recorded, closing,
                 sinceLoss>>

BackoffOver(d) ==
  /\ work[d] = "backoff"
  /\ work' = [work EXCEPT ![d] = "resolving"]
  /\ UNCHANGED <<limit, pc, pending, progress, tasks, tries, verdict, recorded,
                 closing, sinceLoss>>

\* The catalog takes the outcome (external), even after the sender gave up.
Record(d) ==
  /\ recorded[d] # verdict[d]
  /\ recorded' = [recorded EXCEPT ![d] = verdict[d]]
  /\ UNCHANGED <<limit, pc, pending, progress, tasks, work, tries, verdict,
                 closing, sinceLoss>>

\* emit returns once the catalog answered ...
EmitReturns(d) ==
  /\ recorded[d] = verdict[d]
  /\ work' = [work EXCEPT ![d] = "done"]
  /\ \/ /\ work[d] = "emitting" /\ inFlight' = inFlight - 1 /\ UNCHANGED pc
     \/ /\ work[d] = "skipping" /\ pc' = "pulling" /\ UNCHANGED inFlight
  /\ UNCHANGED <<limit, pending, seen, attempts, listing, tasks, tries, verdict,
                 recorded, closing, sinceLoss>>

\* ... or raises, whether or not the catalog took it: in a task nobody notices
\* before the window is waited for, in the loop the run ends.
LossSwallowed(d) ==
  /\ work[d] = "emitting"
  /\ work' = [work EXCEPT ![d] = "done"]
  /\ inFlight' = inFlight - 1
  /\ UNCHANGED <<limit, pc, pending, seen, attempts, listing, tasks, tries,
                 verdict, recorded, closing, sinceLoss>>
EmitRaises(d) ==
  /\ \/ /\ work[d] = "emitting"
        /\ work' = [work EXCEPT ![d] = "raised"]
        /\ inFlight' = inFlight - 1
        /\ UNCHANGED <<pc, pending, tasks>>
     \/ work[d] = "skipping" /\ Finally("error", tasks) /\ UNCHANGED inFlight
  /\ UNCHANGED <<limit, seen, attempts, listing, tries, verdict, recorded,
                 closing, sinceLoss>>

-----------------------------------------------------------------------------
Loop ==
  \/ SetUp \/ WaitReturns \/ DiscoveryFails \/ ListingEnds \/ GatherReturns
  \/ Drained \/ AdapterClosed \/ ManagerClosed \/ Cancel

Task(d) ==
  \/ Skip(d) \/ Fetch(d) \/ Start(d) \/ Resolve(d) \/ ResolveTransient(d)
  \/ BackoffOver(d) \/ Record(d) \/ EmitReturns(d) \/ EmitRaises(d)
  \/ TaskCancelled(d)

Next == Loop \/ \E d \in Dataset : Task(d)

Spec == Init /\ [][Next]_vars

\* The event loop runs what is ready.
LoopFairness ==
  /\ WF_vars(WaitReturns) /\ WF_vars(GatherReturns) /\ WF_vars(Drained)
  /\ WF_vars(AdapterClosed) /\ WF_vars(ManagerClosed)
  /\ \A d \in Dataset : WF_vars(Start(d)) /\ WF_vars(TaskCancelled(d))

\* Every request has a timeout, so the environment answers or the call raises.
AnswerFairness ==
  /\ WF_vars(SetUp)
  /\ WF_vars(DiscoveryFails \/ ListingEnds \/ \E d \in Dataset : Skip(d) \/ Fetch(d))
  /\ \A d \in Dataset :
       /\ WF_vars(Resolve(d) \/ ResolveTransient(d)) /\ WF_vars(BackoffOver(d))
       /\ WF_vars(EmitReturns(d) \/ EmitRaises(d))

FairSpec == Spec /\ LoopFairness

-----------------------------------------------------------------------------
Running(d) == work[d] \in Live

\* progress.in_flight, which every heartbeat reports, counts exactly the started
\* resolves through every cancellation and failure, and never exceeds the window.
InFlightIsExact ==
  /\ inFlight = Cardinality({d \in Dataset : Running(d)})
  /\ inFlight <= Concurrency

\* A lost catalog stops discovery: once a task's emit has failed, fewer than
\* Concurrency further datasets are fetched ("a lost catalog must stop discovery
\* rather than become hundreds of dataset failures").
LossStopsDiscovery == sinceLoss < Concurrency

\* A run that returns has an outcome in the catalog for every dataset it saw, and
\* a run that returns with listing_complete has one for the whole listing: what a
\* checkpoint rests on.
ReturnedIsRecorded ==
  pc = "over" /\ pending = "none" =>
    /\ \A d \in seen : recorded[d] = verdict[d] /\ recorded[d] # "none"
    /\ listing => seen = Dataset /\ limit = 0

\* A limit bounds the fetches, skips not counted, and a bounded run never claims
\* that it listed everything.
LimitBounds ==
  limit # 0 =>
    /\ Cardinality({d \in Dataset : verdict[d] \in {"saved", "failed"}}) <= limit
    /\ ~ listing

\* The catalog never hears two different outcomes of one dataset.
RecordedOnce ==
  [][\A d \in Dataset : recorded[d] # "none" => recorded'[d] = recorded[d]]_vars

\* When the adapter is closed, and when execute is over, no resolve is left that
\* could still use it; and the session is closed unless the clean-up itself was
\* cancelled.
CleanEnd ==
  /\ pc \in {"closingAdapter", "closingManager", "over"} =>
       \A d \in Dataset : work[d] \notin Live \cup {"created", "skipping"}
  /\ pc = "over" /\ ~ cut => ~ adapterOpen /\ ~ managerOpen

\* A cancelled run ends even if nothing outside ever answers again.
CancelEnds == cancels > 0 ~> pc = "over"

\* A run ends if requests end, whatever they end with.
RunEnds == AnswerFairness => <>(pc = "over")
====
