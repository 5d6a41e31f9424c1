---- MODULE KoladaClient ----
(* kolada/client.py: the catalogues of KPIs, municipalities and units, each  *)
(* fetched page by page on first use and then shared by all resolutions of a *)
(* run.  A cache is tested, its lock awaited, and the cache tested again.    *)
EXTENDS Integers, Sequences, FiniteSets

CONSTANTS
  Task,       \* discovery and the resolutions
  Cache,
  Plans,      \* the catalogues a task uses, in order
  Listings,   \* the first URLs of a catalogue: /kpi and /kpi_groups for one
  Url, Links, \* URLs, and those a server may link to
  NoTask, NoUrl, Nothing

Page == Url \X (Url \cup {NoUrl})

ASSUME ClientAssumption ==
  /\ Listings \in [Cache -> Seq(Url) \ {<<>>}]
  /\ Plans \subseteq Seq(Cache) \ {<<>>} /\ Links \subseteq Url
  /\ NoTask \notin Task /\ NoUrl \notin Url /\ Nothing \notin Seq(SUBSET Page)

VARIABLES
  plan, at,   \* the task's catalogues and the one in hand
  pc,
  url, seen,  \* next_url and seen of get_paginated_values
  pages,      \* per listing of the catalogue in hand, the pages read: <<url, link>>
  holder,     \* who holds the lock of a cache
  cache,
  used        \* history: what each task got: <<task, cache, content>>
walk == <<url, seen, pages>>
vars == <<plan, at, pc, walk, holder, cache, used>>

TypeOK ==
  /\ plan \in [Task -> Plans]
  /\ at \in [Task -> Nat \ {0}] /\ \A t \in Task : at[t] <= Len(plan[t])
  /\ pc \in [Task -> {"calling", "waiting", "reading", "done", "failed", "cancelled"}]
  /\ url \in [Task -> Url \cup {NoUrl}] /\ seen \in [Task -> SUBSET Url]
  /\ pages \in [Task -> Seq(SUBSET Page)]
  /\ holder \in [Cache -> Task \cup {NoTask}]
  /\ cache \in [Cache -> Seq(SUBSET Page) \cup {Nothing}]
  /\ used \subseteq Task \X Cache \X Seq(SUBSET Page)

Init ==
  /\ plan \in [Task -> Plans] /\ at = [t \in Task |-> 1]
  /\ pc = [t \in Task |-> "calling"]
  /\ url = [t \in Task |-> NoUrl] /\ seen = [t \in Task |-> {}]
  /\ pages = [t \in Task |-> <<>>]
  /\ holder = [c \in Cache |-> NoTask] /\ cache = [c \in Cache |-> Nothing]
  /\ used = {}

Wanted(t) == plan[t][at[t]]

-----------------------------------------------------------------------------
\* The catalogue is there: the task goes on with it.
Use(t, content) ==
  /\ used' = used \cup {<<t, Wanted(t), content>>}
  /\ IF at[t] = Len(plan[t])
     THEN pc' = [pc EXCEPT ![t] = "done"] /\ UNCHANGED at
     ELSE pc' = [pc EXCEPT ![t] = "calling"] /\ at' = [at EXCEPT ![t] = @ + 1]

Cached(t) ==
  /\ pc[t] = "calling" /\ cache[Wanted(t)] # Nothing
  /\ Use(t, cache[Wanted(t)])
  /\ UNCHANGED <<plan, walk, holder, cache>>

Missing(t) ==
  /\ pc[t] = "calling" /\ cache[Wanted(t)] = Nothing
  /\ pc' = [pc EXCEPT ![t] = "waiting"]
  /\ UNCHANGED <<plan, at, walk, holder, cache, used>>

\* get_paginated_values starts on listing n of the catalogue.
Open(t, n) ==
  /\ url' = [url EXCEPT ![t] = Listings[Wanted(t)][n]]
  /\ seen' = [seen EXCEPT ![t] = {}]
  /\ pages' = [pages EXCEPT ![t] = Append(IF n = 1 THEN <<>> ELSE @, {})]

Fetch(t) ==
  /\ holder' = [holder EXCEPT ![Wanted(t)] = t]
  /\ pc' = [pc EXCEPT ![t] = "reading"]
  /\ Open(t, 1)
  /\ UNCHANGED <<at, used>>

\* The second test, under the lock; there is no await between it and the release.
FetchAnyway(t) == Fetch(t)
TestAgain(t) ==
  IF cache[Wanted(t)] = Nothing
  THEN Fetch(t)
  ELSE Use(t, cache[Wanted(t)]) /\ UNCHANGED <<walk, holder>>

Acquire(t) ==
  /\ pc[t] = "waiting" /\ holder[Wanted(t)] = NoTask
  /\ TestAgain(t)
  /\ UNCHANGED <<plan, cache>>

Release(t) == holder' = [c \in Cache |-> IF holder[c] = t THEN NoTask ELSE holder[c]]

-----------------------------------------------------------------------------
NeverRepeated(t) == FALSE
Repeated(t)      == url[t] \in seen[t]

\* A page answers with its link, or without one, which ends the listing.
PageArrives(t) ==
  /\ pc[t] = "reading" /\ url[t] # NoUrl /\ ~ Repeated(t)
  /\ \E link \in Links \cup {NoUrl} :
       /\ pages' = [pages EXCEPT ![t][Len(pages[t])] = @ \cup {<<url[t], link>>}]
       /\ url' = [url EXCEPT ![t] = link]
  /\ seen' = [seen EXCEPT ![t] = @ \cup {url[t]}]
  /\ UNCHANGED <<plan, at, pc, holder, cache, used>>

ListingOver(t) == pc[t] = "reading" /\ url[t] = NoUrl

NextListing(t) ==
  /\ ListingOver(t) /\ Len(pages[t]) < Len(Listings[Wanted(t)])
  /\ Open(t, Len(pages[t]) + 1)
  /\ UNCHANGED <<plan, at, pc, holder, cache, used>>

Fill(t) ==
  /\ ListingOver(t) /\ Len(pages[t]) = Len(Listings[Wanted(t)])
  /\ cache' = [cache EXCEPT ![Wanted(t)] = pages[t]]
  /\ Use(t, pages[t])
  /\ Release(t)
  /\ UNCHANGED <<plan, walk>>

\* No page, a malformed one, a cycle, or entries that contradict each other: an
\* exception that leaves the lock free and the cache as it was.
KeepWhatCame(t) ==
  /\ pc[t] = "reading"
  /\ pc' = [pc EXCEPT ![t] = "failed"]
  /\ cache' = [cache EXCEPT ![Wanted(t)] = pages[t]]
  /\ Release(t)
  /\ UNCHANGED <<plan, at, walk, used>>
KeepLock(t) ==
  /\ pc[t] = "reading"
  /\ pc' = [pc EXCEPT ![t] = "failed"]
  /\ UNCHANGED <<plan, at, walk, holder, cache, used>>
FetchFails(t) ==
  /\ pc[t] = "reading"
  /\ pc' = [pc EXCEPT ![t] = "failed"]
  /\ Release(t)
  /\ UNCHANGED <<plan, at, walk, cache, used>>

Cancel(t) ==
  /\ pc[t] \in {"waiting", "reading"}
  /\ pc' = [pc EXCEPT ![t] = "cancelled"]
  /\ Release(t)
  /\ UNCHANGED <<plan, at, walk, cache, used>>

Goes(t) ==
  \/ Cached(t) \/ Missing(t) \/ Acquire(t)
  \/ PageArrives(t) \/ NextListing(t) \/ Fill(t) \/ FetchFails(t)

Next == \E t \in Task : Goes(t) \/ Cancel(t)

Spec == Init /\ [][Next]_vars

-----------------------------------------------------------------------------
\* A catalogue is fetched by one task at a time, the one that holds its lock.
OneFetch ==
  /\ \A t \in Task : pc[t] = "reading" => holder[Wanted(t)] = t
  /\ \A c \in Cache : holder[c] # NoTask => pc[holder[c]] = "reading" /\ Wanted(holder[c]) = c

\* All tasks of a run work with one and the same content of a catalogue.
OneContent == \A u \in used : cache[u[2]] = u[3]

\* Only a complete catalogue is cached: of every listing the first page, the page
\* each link names, each of them once, and one without a link.
Complete(S, first) ==
  /\ \E p \in S : p[1] = first
  /\ \A p, q \in S : p[1] = q[1] => p = q
  /\ \A p \in S : p[2] = NoUrl \/ \E q \in S : q[1] = p[2]
  /\ \E p \in S : p[2] = NoUrl
CacheIsComplete ==
  \A c \in Cache : cache[c] # Nothing =>
    /\ Len(cache[c]) = Len(Listings[c])
    /\ \A n \in 1..Len(Listings[c]) : Complete(cache[c][n], Listings[c][n])
====
