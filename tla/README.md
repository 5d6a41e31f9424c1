# Verification of nordicintel-harvest

TLA+ modules that model the harvester, the TLC configurations that check them
on small instances, and proofs of their main theorems for the TLA+ proof system.
Paths such as `worker.py:35` are below `src/nordicintel_harvest/`.

## 1. The system

One process, `nordicintel-harvest worker`, claims jobs from a remote *catalog*
over HTTP and executes them: it lists the datasets of a statistics provider,
fetches the metadata of the selected ones and posts every outcome back. The
process keeps nothing on disk; what survives it is in the catalog.

| Component | State | Operations | Talks to |
| --- | --- | --- | --- |
| Queue consumer, `worker.py` | the stop event; per job: claim token, deadline, progress, four child tasks | claim, heartbeat, lease watchdog, stop, race of the children, clean-up, `/complete` | catalog (HTTP), runner (await, cancellation), signals |
| Catalog queue (external) | job states, one claim token with a lease, checkpoints, outcomes | claim, heartbeat, complete, cancel, lease recovery | worker |
| Runner, `runner.py` | seen codes, window of tasks, `Progress` | discover, resolve with retries, emit, final gather, close | adapter, request manager, catalog through `emit` |
| Request manager and rate limiter, `core/` | per host: limiter (permits, lock, last start), cooldown, slowdown | request with cooldown, permit, spacing, 429 retry | provider API |
| Catalog client, `catalog.py` | the session | one request with up to three attempts | catalog |
| Kolada adapter | lock-guarded catalogues of KPIs, municipalities and units | discover by change feed, resolve by probes | request manager |
| PXWeb v1 adapter | the folders and tables of one database, while it is listed | list by search, web tree or crawl; resolve, enrich from a sample | request manager |
| PXWeb v2 adapter | the page reached | list page by page, resolve | request manager |
| Document schemas | none | accept or refuse what an adapter built | adapters |
| Provider interface, registry | none | timestamp selection | adapters |
| CLI, `cli.py` | the record an import has reached | one command per process: worker, request, cancel, status, import-providers | catalog client |
| Inputs, settings, logging, errors | none | parse, validate | everything |

What is hard here: the worker's lease is measured on two clocks that only
messages relate; answers are lost or late; four children finish in the same turn
of the event loop; cancellation arrives at any `await`, a second time in the
middle of the clean-up; a window of concurrent resolves fails one at a time; the
limiter's checks are made before waits that make them stale; what a run
skips is decided from what earlier, possibly failed, runs left behind; a listing
is read while the provider changes it, from several sources that spell ids in
their own way; and a write is repeated while another writer is at work.

What makes each component correct:

* consumer and catalog: one execution at a time, work only under a lease, outcome
  and checkpoint only as earned, no job or claim left behind, a stop that exits;
* runner: every dataset that counts as seen has exactly one recorded outcome, a
  lost catalog stops the run, limits bound it, nothing survives it;
* request manager: spacing, cooldowns and permits under concurrency;
* adapters: a listing called complete is complete; nothing changed is skipped; a
  saved document says what the provider said;
* catalog client and CLI: what a command reports has happened, once, and nothing
  that was there is overwritten.

## 2. Modules

| Module | Models | State and steps against the code |
| --- | --- | --- |
| `HarvestQueue` | what catalog and workers promise together (abstract) | `Claim`, `Execute`, `Finish`, `Stop`, `Settle`, `Withdraw`; no leases, no messages |
| `HarvestWorker` | `worker.py` against the catalog's queue | below |
| `Runner` | `runner.py`, `execute` | `pc` is the await where `execute` is; `work[d]` the resolve task of a dataset, or its skip |
| `RequestManager` | `core/request_manager.py`, `core/rate_limiter.py`, one host | `pc[r]` is the await where a request is; `until[r]` ends its sleep |
| `KoladaSelection` | `adapters/kolada/adapter.py`, `discover_datasets`, over many runs | `pc` is the await of the discovery; the catalog remembers |
| `KoladaClient` | `kolada/client.py`: the shared catalogues and their paging | `pc[t]` is the await of a task; `holder[c]` a catalogue's lock |
| `KoladaProbe` | `kolada/client.py`, `kolada/parsing.py`: batches, probes, change feed | one step per batch; `valued` is what the server has |
| `PxwebV1Listing` | `pxweb_v1/catalog.py`, `list_pxweb_tables` | `pc` is the request under way: search, form, tree, branch, crawl |
| `PxwebV1Crawl` | `pxweb_v1/catalog.py`, `_crawl_navigation` | `pending`, `seenFolders`, `seenTables`, `output` are the code's; `answer` what the server said |
| `PxwebV1Discovery` | `pxweb_v1/adapter.py`, `_discover_candidates` | the databases in order, the occurrences of each grouped by table |
| `PxwebV1Enrichment` | `pxweb_v1/enrichment.py` | the request cut down dimension by dimension, then the answer matched |
| `PxwebV2Paging` | `pxweb_v2/adapter.py`, `_discover_candidates` | one step per page; the provider publishes and withdraws tables in between |
| `Documents` | `parsing.py` of both PXWeb versions, `schemas/` | build by the adapter, then validate by the schema |
| `Resolution` | `request_manager.py`, `get_json`; the retry loop of `runner.py` | `round`, `step`, `try`: runner attempt, request of the adapter, attempt of a request |
| `CatalogCommands` | `catalog.py`, `cli.py` | `req`, `attempt` are the client's loop, `at` the record of an import, `wire` what the catalog may still take |
| `Filtering` | the list comprehensions of `candidate_municipality_ids` and of the roles of both PXWeb versions | `Only`: what a comprehension with a condition leaves of a list, used by `KoladaProbe` and `Documents` |
| `TimestampSelection` | `interface.py`, `select_by_timestamp`, with the stamp `runner.py` sends, over many runs | `listed` holds the version whose stamp the listing showed |

`MC<module>` instantiates a module for the model checker, `<module>Proofs` holds
its theorems; those about the machines of `MCDiscovery` and `MCFetch` are in
`DiscoveryProofs` and `FetchProofs`. `MCDiscovery` (`PxwebV1Crawl`, `PxwebV1Listing`,
`PxwebV1Discovery`, `PxwebV2Paging`) and `MCFetch` (`KoladaClient`, `KoladaProbe`,
`Documents`, `PxwebV1Enrichment`, `Resolution`) instantiate several machines that
share no state and meet in their results only: `part`, chosen at the start, is
the one an execution looks at, and the others rest in an initial state. The
assumptions of the instantiated modules are restated there as an ASSUME, which
the model checker evaluates. `Runner` has nothing to instantiate and is checked
as it is. A definition written right above the one it varies is a mutant: a
plausible bug in that code, with which a property is shown to fail.

**HarvestWorker.** `pc[w]` follows `worker()` and `run_job`: `top` of the loop
(its pause included), `claiming`, `running` (the race of the children),
`gathering` and `completing` (the clean-up budget), `overdue` (the budget is over
and the work is not), `exited`, `dead`. The
children are `task` (`work()`), `pulse` (`heartbeat()`), `left` (what the lease
watchdog compares with zero) and `stop` (the event the fourth child waits for).
`Wake` is the return of `asyncio.wait`; which child is looked at first decides
the error, as in `worker.py:92-106`. The budget's timeout cancels the await of the
gather and nothing else (`worker.py:111-112`): the gather cancels its children a
second time and raises only once all of them are done, so `CleanupTimesOut` leads
to `overdue` while there is work, and `run_job` returns, without `/complete`, when
that ends (`GatherCancelled`). `wire[w]` is the one request a worker has
out, and `lateClaims`, `lateBeats` and `reports` are requests that nobody waits
for any more and that the catalog may still take, lose, or take late. `Tick`
moves all clocks; a timer that is due is acted on at most `Stall` seconds late.
The catalog (`Serve*`, `Settle`, `Expire`, `Cancel`) is external: it is modelled
from how `worker.py` uses it and from the outcomes in
`docs/hosted-acceptance.md`. A crashed process is replaced by another worker, and
a retried job is another job. `listing` can be set while the work goes on and the
work can return without it: what `execute` does in between is `Runner`'s.

**Runner.** Every `await` of `execute` is a value of `pc`; `Finally` is the
entry into the `finally` block, from any of them, and cancels the tasks still in
the set. A task is `created`, `resolving`, in `backoff`, `emitting`,
`cancelling`, or over. `Record` is the catalog taking an outcome, which it may do
after the sender gave up. `Cancel` arrives up to twice, as `run_job` sends it.

**RequestManager.** The cooldown's end and the interval are read once, before
the waits that follow, as the code does. The permit is held from `Acquire` to
the headers. What `_make_request` does with a status other than 429, or with an
exception, ends the request: both are left to the caller.

**KoladaSelection.** Instants are numbers and `Day` of them make a day. The feed
and the full-run rule count whole days, the refetch limit is to the instant.
`changes[d]` are the instants at which observations of a dataset changed that the
feed is asked for, those of 2010 and later (`client.py:139-141`); `unfed[d]` those
of changes it never names: of observations of earlier years, which the dimensions
have from 1970 on (`parsing.py:29`), or of the KPI's own description. `readAt[d]` is the instant since which the stored documents are known to be
current. Runs of the queue do not overlap (`AtMostOneWorking`), so a run's
context is the catalog at its start, and a dataset is listed once, so that its
state is read before the run itself can change it.

**TimestampSelection.** A stamp is an instant: `select_by_timestamp` and the
stored value are both normalised to UTC, so two writings of one instant are one
stamp. The listing is read before a dataset is yielded, for PXWeb v1 a whole
database before, and the metadata after: new versions appear in between.

**The PXWeb v1 listing.** `PxwebV1Listing` chooses every answer when it arrives
and takes the outcome of the crawl as any: `PxwebV1Crawl` shows what it is. In
the crawl a folder is its path, and `Fold` is `casefold()`. `PxwebV1Discovery`
takes the listings of the databases as sets of occurrences and adds the runner's
side: candidates are taken one by one, a duplicate code ends the run.

**Kolada.** `KoladaClient` models a test of the cache, the wait for the lock, the
second test and the pages between; a task may be cancelled or fail at any of
them. `KoladaProbe` starts from the areas and years and asks in batches, with the
limit of values per filter as a constant, over any small set of values.

**Documents.** Labels and ids are numbers compared as the code compares strings,
with `Blank` and `Missing` for the strings the checks single out. The payloads
vary one axis beside a plain one, so that every check meets every case alone.

**Resolution.** `get_json` turns every failure but a 429 into None and the
adapters turn None into a `ValueError`; only what is left as an
`ExternalAPIError`, a `ClientError` or a `TimeoutError` reaches the runner's
retries. The module has those three layers as one state machine per dataset. How long a
429 makes it wait is `RequestManager`'s.

**PxwebV1Enrichment.** `Sampled` takes the answers `enrich_metadata` accepts,
normalised as it does; every other answer, or none, is `AskFails`.

**CatalogCommands.** A message on `wire` may be served late, after the client
repeated it. The catalog is external: what a GET and a PUT of a provider mean is
taken from how `cli.py` uses them. `request` stands for `request-all` too, which
is the same single POST; `status` only reads.

How the parts fit: `HarvestWorker` leaves open how the work ends and whether it
listed everything; `Runner` shows what those two facts mean (`ReturnedIsRecorded`);
the two selections assume of a complete run exactly that. `Runner` leaves open
what a request does, `RequestManager` what a caller does with it, and `Resolution` ties
the two. `PxwebV1Discovery` and `PxwebV2Paging` show what `Runner`'s listing may
be worth, `PxwebV1Crawl` what one of its sources is.

## 3. What the runs check

| Run | Bounds | Shows |
| --- | --- | --- |
| `worker_lease` | 2 workers, 2 jobs, lease 3, margin 1, one late claim and beat | `LeaseCoversWork`: the catalog holds the job and its lease outlasts the local deadline while the work is let go on. `AtMostOneWorking`. |
| `worker_outcome` | 1 worker, 2 jobs, lease 4, timers one second late | `OutcomeIsEarned`: success and checkpoints only as the execution earned them. `ReportTellsTruth`: `/complete` claims too much only for a job being cancelled. `ImplementsQueue`: every behaviour is one of `HarvestQueue`. |
| `worker_liveness` | 1 worker, 1 job, seconds in the deployed proportions (lease 11, margin 2, claim 3, call 1, sleep 2), fair | `WatchdogIsBackstop`: while heartbeats end, in an answer or an exception, the deadline never comes. `CancelSettles`, `OrphanReleased`, `StopExits`: no job, no claim and no worker is left behind; a stopped worker exits although its work may take until its second cancellation to end. |
| `runner` | 3 datasets, window 2, one retry, limits none, 1, 2, two cancellations, fair | `ReturnedIsRecorded`, `RecordedOnce`, `LossStopsDiscovery`, `InFlightIsExact`, `CleanEnd`. `CancelEnds`: a cancelled run ends although nothing answers; `RunEnds`: any run ends if requests do. |
| `request_manager` | 3 requests, 2 permits, cooldowns 0 and 5, 2 attempts, 6 seconds | `MinSpacing`, `CooldownHonoured`, `PermitsConserved`. |
| `kolada_selection` | 1 KPI and its OU dataset, days of 2 instants, window of 1 day, 4 instants, 1 change, one the feed names or one it does not | `NoChangeMissed`: of the changes before a complete run, none that the feed can name is lost, and any other is older than the dataset's last fetch once it is `Window` days old. |
| `timestamp_selection` | 2 datasets, 2 versions, 2 stamps, window 2 | `NoUpdateMissed`: what a complete run listed is fetched or flagged. |
| `discovery` | crawl: 2 spellings of one id, answers of up to 2 entries, cap of 3; listing: search and tree of up to 2 items, 3 ids of 2 keys, 2 paths; 2 databases of up to 3 occurrences; up to 5 tables in pages of 2, 3 changes; fair | `ListingIsExact`, `CapIsExact`: the crawl lists the reachable tables, each once, or stops at the cap. `WebListIsSound`: no list mixed from a source that broke off, metadata from the nearest one. `CompleteHasAll`, `CodeIsOneTable`: what the run is given. `FaultsAreExplained`: a table of `/tables` is lost or repeated only by a change in front of the cursor. `DiscoveryEnds`. |
| `pxweb_v1_listing_failure` | as `discovery` | `ListingFailureStopsRun` is violated. |
| `fetch` | 2 tasks, 2 catalogues, one of two listings, links that may lead back; up to 3 areas, 5 years, 2 values per filter; documents with one free axis beside a plain one; 3 dimensions of 3 categories, 5 limits; 3 adapters, 3 rounds of 3 attempts; fair | `OneContent`, `CacheIsComplete`: one complete catalogue for all. `ProbeIsExact`: the batches tile the question and their union is the answer, the change feed included. `DocumentsAreFaithful`, `V1RefusedForBlanks`: axes and categories, their texts, labels and order, and the roles are those of the answer, in both versions, and what is refused. `SampleIsSound`: the sample fits its limit and what is merged belongs to the table. `SavedFromOneRound`, `EarlyFailureIsFinal`: what the retries make of answers. `FetchEnds`. |
| `catalog_commands` | 2 codes, 2 valid documents, files of 2 records, 3 attempts, 1 foreign edit | `ExistingIsSafe`, `DoneMeansApplied`, `JobOnce`. |
| `import_overwrites` | as `catalog_commands` | `NeverOverwrites` is violated. |

*Why the bounds are enough.* Two workers and two jobs are what mutual exclusion,
a lost claim that runs out and a report that arrives during the next job need;
timers count down, so time itself is unbounded, and one stray request of each
kind suffices since a second one finds the state the first one left. Three
datasets and a window of two are a full window with one more waiting outside.
Three requests with two permits are one that waits for a permit while the other
two contend for the lock, and a cooldown of 5 outlives both spacing intervals. In
four instants of two days a run can start late on a day, cross midnight, find
its change out of the feed and be forced to a full run by an old checkpoint, and
a dataset can go stale and be refetched for a change no feed names; the datasets of a listing do not depend on each other but for the window. With two
versions the second stamp is later, earlier or missing. Two tasks and two
catalogues give a holder, a waiter and somebody busy with the other lock. A cap
of three folders is met by a root with two children; two entries hold a
repetition, in either spelling. Five tables in pages of two have a page before,
at and after the cursor, and three changes shift a table across a boundary and
back. A file of two records has a duplicate, a foreign and an invalid record
after a good one. The theorems of section 5 hold without any of these bounds.

*Deadlock.* It is not checked where the system stops: workers exit, `execute`
returns, requests end or the bounded clock runs out. The two selections never
stop, and are checked for it.

*Fairness.* `worker_liveness` assumes that the event loop acts on what is due,
that time passes and that the catalog's lease recovery runs. It does not assume
that a request is answered, that a job is claimed, that work ends by itself or
that it ends within the clean-up budget of its first cancellation: every
request has a timeout in the code (`catalog.py:19`, the client's total), so
`ClaimFails` and `HeartbeatRaises` are fair only once that time is over. It does
assume that work cancelled twice ends (`GatherCancelled`), because `run_job` waits
for it without a limit (`worker.py:111-112`): without that, `StopExits` would not
hold of the code. `CancelEnds` is where `Runner` shows it of `execute`.
`runner` assumes the event loop only (`LoopFairness`); `RunEnds` takes as a
hypothesis that requests end (`AnswerFairness`), which the session's timeout and
the bounded retries guarantee, the emit of a lost catalog by raising. `discovery`
and `fetch` assume the same of their requests: each ends, in an answer or a
timeout, and the code goes on (`Reader`, `One`, and `Goes(t)` for each task of
`KoladaClient`). None of them assumes that an answer is a good one, that the
provider changes a table, or that anybody cancels. In `fetch` the sample has no
fairness: its loop counts down over the dimensions, and its end would only
restate that. The other runs state safety and assume nothing.

## 4. What the models made visible

* **A cancelled job can be reported without its error.** The heartbeat that sees
  a cancellation is looked at before the work (`worker.py:101-104`), so work that
  failed in the same turn is reported without error, and with
  `listing_complete`, if it had listed everything. Only because the catalog lets
  a cancellation win is no checkpoint set; `ReportTellsTruth` states this.
* **A stale request may start in a cooldown.** A request that has read the
  cooldown waits for a permit and the lock without reading it again
  (`request_manager.py:297`). `CooldownHonoured` says exactly which requests.
* **Closing can be cut short.** A second cancellation during the clean-up skips
  `adapter.close()` or `manager.close()`; no resolve survives it (`CleanEnd`).
* **The full-run rule is needed.** A change made while a dataset is being
  fetched, by a run that began before midnight, is missing from what was stored
  and can leave the feed before the next complete run. Without the rule
  `previous_complete_started_at < cutoff_at` it would be lost
  (`NoChangeMissed` fails with the mutant `FullOnlyFirst`).
* **Two gaps of the Kolada selection remain**, and the property says so. A dataset
  absent from one complete listing and back in the next may lack a change made
  during its last fetch, until it is refetched. And the feed is asked for 2010 and
  later only, while the stored dimensions begin in 1970: a changed observation of
  an earlier year, or a changed description of the KPI, is in no feed and waits
  for the refetch after `Window` days. Without the refetch it would wait for ever
  (mutant `FetchFollowsFeed`).
* **The clean-up budget is no hard bound.** `README.md:60-61` has a stopped worker
  finalize "within one 20-second cleanup budget". The budget ends by cancelling
  the gather, and the gather waits for work that lingers: `StopExits` holds of a
  worker whose work ends once it is cancelled twice, at whatever time that is.
* **A database that cannot be listed does not stop the run.** `README.md:48-49`
  says that fatal discovery failures do. `adapter.py:141` logs the failure and
  lists nothing, and the run counts as complete (`ListingFailureStopsRun`).
* **An import can overwrite.** `README.md:26-27` says that it never does. Between
  the GET that finds no provider and the PUT another writer may create it, and a
  PUT may be repeated (`NeverOverwrites`). What was there when the import began
  is safe (`ExistingIsSafe`).
* **A page boundary can swallow a table.** A table withdrawn in front of the
  cursor of `/tables` pulls the next page's first table over the boundary: the
  run is complete and lacks it. One published in front pushes a table that was
  read into the next page, and the run dies of the duplicate. Only these two
  happen (`FaultsAreExplained`).
* **Most failures of a provider are not retried.** A server error on a GET is
  None, then a `ValueError`, then a failed dataset, in the first round
  (`EarlyFailureIsFinal`); the runner's retries see little but rate limits.
* **A stamp must not be reused.** Selection by stamp is right only if a provider
  gives two versions of a dataset two stamps. `Publish` assumes it.

## 5. What is proved

The proofs are of each specification for every value of its constants.

| Module | Theorems | Argument |
| --- | --- | --- |
| `HarvestWorkerProofs` | `TypeCorrect`, `LeaseInvariant`, `LeaseSafety`, `MutualExclusion`, `OutcomeInvariant`, `OutcomeSafety`, `ReportTruth`, `DeadlineInvariant`, `WatchdogRests`, `Refinement` | `LeaseInv`: at most one worker is attached to the claim, and an answer on the wire renewed the lease no earlier than its request began, so `ttl >= left + Margin`. `OutcomeInv` follows the result from the end of the work through the report to the verdict. `DeadlineInv` bounds what is left in each phase of a heartbeat. `Refinement` maps every step to a step of `HarvestQueue` or a stutter, from the first two. |
| `RunnerProofs` | `TypeCorrect`, `InFlightExact`, `LossBound`, `ReturnedRecorded`, `LimitBound`, `CleanEnding`, `OneOutcome` | While the body of `execute` runs, what is still to do is in the window, and so is a failed emit until the window is waited for (`WindowInv`): the window's size bounds what is fetched after a loss. What left the window is done, and what is done is recorded (`VerdictInv`). `in_flight` is the cardinality of the live tasks. One lemma takes every step into the `finally` block, one every step of a task. |
| `CatalogCommandsProofs` | `ExistingSafe`, `AloneSafe`, `OneJob`, `InvalidWritesNothing`, `DoneIsApplied` | A PUT on the wire, however late, is about a code that had nothing when the import began (`SafeInv`); alone, the catalog has nothing for it or what it writes (`AloneInv`). A job's POST is the only message of its command (`Sent`). `AppliedInv`: every record the import is over with is in one of its lists, and while nobody else edits, the list is right about the store. |
| `DiscoveryProofs`, crawl | `TypeCorrect`, `Exactness`, `SpelledOnce`, `CapExactness`, `NeverAskedAgain` | Every folder named is answered, left out or waiting, and the waiting ones are distinct and new; inside an answer, the entries before the cursor are accounted for. |
| `DiscoveryProofs`, listing | `WebListSound` | `WebListInv`: an execution that met trouble can only crawl, so a list of the web tree is what `Tables` makes of the answers in hand; no two occurrences of it can be one, whatever ids fold together. |
| `DiscoveryProofs`, databases | `CompleteRunHasAll`, `CodesAreTables` | `ProviderInv`: every occurrence of a listed database is a candidate of it, was yielded, raised, or is behind an unstamped one, and a candidate has all the paths of its table. |
| `DiscoveryProofs`, paging | `FaultsExplained` | `PagingInv`: the cursor is a position in a list without repetitions. While nothing was pulled, each table that was there at the start is read, dropped or beyond the cursor (`NoLossInv`); while nothing was pushed and nothing came back, no table beyond it was read (`NoRepeatInv`). Publishing and withdrawing are insertion and removal at any position. |
| `FetchProofs`, client | `TypeCorrect`, `FetchedByOne`, `SharedContent`, `OnlyComplete` | A reading task holds the lock and its cache is empty; the pages read form a chain from the first URL to the one it asks for. |
| `FetchProofs`, attempts | `OneRoundSaved`, `EarlyFailuresFinal` | `AttemptsInv`: the answers of a round are its payloads and its 429s, counted by a cardinality, and the 429s since the last payload are the tail of the log. |
| `FetchProofs`, probes | `ProbesAreExact` | `ProbeInv`: the batches asked are a prefix of the plan and those to ask its rest; what was found is what the prefix's answers hold. That the plan tiles the question is arithmetic: the batches of a list partition it (`BatchesArePartition`), and quotient and remainder are row and column of a pair (`Rows`, `RowOf`, `PairsAskOnce`). |
| `FetchProofs`, documents | `DocumentsFaithful`, `V1RefusesBlanksOnly` | `DocumentInv`: what is built is a function of the payload. The positions of the codes are dense exactly if the codes are distinct, so an index is the provider's order (`PositionsAreDense`, `DenseIsDistinct`), and a v1 document fails the schema only for a blank label (`V1Valid`, `OnlyBlanksRefused`). A role's list is filtered from the answer's and holds exactly the elements that pass (`OnlyElems`, `RolesGiven`). |
| `FetchProofs`, sample | `SamplesAreSound` | `EnrichmentInv`: dimensions behind the loop ask for one category, those ahead for up to two, `cells` is the product of what is asked, and one step earlier it did not fit. A product changes with one factor by exact division (`ProductOfOneMore`); an axis more than the table's can only be one contents axis (`ExtraAxis`). |
| `DiscoveryProofs`, `FetchProofs` | `DiscoverySafe`, `FetchSafe` | The specifications that the two runs check imply each machine's own (`EachMachine`, `EachPart`), so the machines side by side keep all of the above. |
| `RequestManagerProofs` | `SpacingInvariant`, `Spacing`, `Cooldown`, `Permits` | `SpacingInv`: one request at a time sleeps under the lock, to at least an interval after the last start; a request that is not stale has waited out the longest cooldown. Permits are counted with the cardinality of their holders. |
| `KoladaSelectionProofs` | `SelectionInvariant`, `ChangesAreFetched` | A skipped dataset has no change the feed names between cutoff and start (`FeedComplete`) and was fetched after the refetch limit, which is not before the cutoff; an older change is older than the previous checkpoint (`OrderInv`), where the property holds already. A change no feed names needs the refetch limit alone: what was skipped was fetched after it, and what was fetched by the run is as new as the checkpoint. |
| `TimestampSelectionProofs` | `TimestampInvariant`, `UpdatesAreFetched` | A skipped dataset's stamp is the stored one; a stamp stands for one version, and the stored one for a version no newer than the documents (`StampInv`). |

None of the target properties is inductive: each says nothing of the stages
between two facts it relates (a request on the wire, a report not delivered, a
dataset skipped but not yet part of a complete run), and the invariants above are
what those stages know. They were model-checked before they were proved; the runs keep
what they were made for. A few theorems have no run: `AloneSafe` (an import that
is alone overwrites nothing), `InvalidWritesNothing` (a file with an invalid
record writes nothing), `LimitBound`, `SpelledOnce`, `NeverAskedAgain` and
`FetchedByOne`.

Assumptions on constants, stated in the modules: the event loop is late by less
than the margin (`MarginAssumption`; 5 seconds in the code); a claim fits in the
lease (`ClaimAssumption`); the others give types. What is assumed of the catalog
is in the external actions of `HarvestWorker`: one claim at a time, a token that
is refused once its lease is over, and a cancellation that wins.

The documents and answers of the constants (`Files`, `Answers`, `Listings`,
`V1Payloads`, `Tables`, `Samples`) are only assumed to have the shape that reading
them gives, with these exceptions, each a fact about the provider or about JSON:
`/municipality` names an area once (`ProbeAssumption`: without it the batches ask
for it twice); a page of `/tables` comes from a list that names a table once, to
begin with (`PagingAssumption`; what changes make of it is in the actions); the
categories of a dimension that come as a JSON object are distinct, being its keys,
and each has its position (`DocumentsAssumption`); a dimension has a category
(`EnrichmentAssumption`; the adapter refuses a variable without values before a
sample is asked for); and an adapter asks for something (`ResolutionAssumption`).
What a payload lacks, repeats or misspells beyond that is not assumed away: the
model builds from it or refuses it as the code does.

A loop over data that a proof must see through is a recursive function in the
model (`Only`, `Product`); no module declares a RECURSIVE operator. The library's
induction theorems take an operator, which the provers cannot instantiate. The
lemmas about these functions are proved by the least counterexample instead: the lengths at which the claim fails are a set of
naturals, which would have a least element (`LeastOf`, from the well-foundedness
of the naturals), and the step from the length before it gives a contradiction.

*Only model-checked*: the liveness properties (`CancelSettles`, `OrphanReleased`,
`StopExits`, `CancelEnds`, `RunEnds`, `DiscoveryEnds`, `FetchEnds`), since the
prover has neither fairness nor ENABLED. Every other property of a passing run is
stated by a theorem. The two runs that expect a violation refute what a document
says; a theorem has no part in them.

## 6. Not modelled, and the plan

Left out for good: logging, settings and argument parsing, the registry (a
table), the text processing of titles, periods, notes and HTML, the format
checks of single fields. There is no persistence in this repository; the catalog
is external.

Three corners of the request manager have no property: the bodies that are read
after the permit is back (`request_manager.py:311`) touch nothing this program
relies on; a second `set_limit` (`request_manager.py:206`) never happens in it;
and the reading of a Retry-After header (`request_manager.py:222`) is a pure
function, of whose results `RequestManager` tries several (`Cooldowns`). Every
hazard that `PROJECT.json` lists has a property.

The modules were written from the queue inwards: worker and catalog, runner,
throttle, selections, then the adapters' listings, the documents, and the command
line; they were proved in the same order. What could follow, in order of weight:

1. What a complete run is worth, end to end: `PxwebV1Discovery` takes the listings
   of the databases as sets; with `WebListSound` and `Exactness` they could be
   those of `PxwebV1Listing` over `PxwebV1Crawl`, as one refinement of "the
   reachable tables, or an error".
2. `Runner` against an abstract run (datasets listed, recorded, ended), as
   `HarvestWorker` is against `HarvestQueue`.
3. `Documents` with two free axes, for roles that compete.
