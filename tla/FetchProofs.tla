---- MODULE FetchProofs ----
(* Proofs about the machines of MCFetch, one after the other: Kolada's       *)
(* shared catalogues, the attempts of the runner, the probes, the documents  *)
(* and the sample, for any tasks, answers, payloads, tables and limits.      *)
EXTENDS MCFetch, Filtering, FiniteSetTheorems, SequenceTheorems, WellFoundedInduction, TLAPS

Target(t) == Listings[Wanted(t)]
Current(t) == pages[t][Len(pages[t])]

\* The listing in hand is the part of the server's pages that leads to url.
Walked(t) ==
  LET S == Current(t)  first == Target(t)[Len(pages[t])] IN
    /\ \A p \in S : p[1] \in seen[t]
    /\ \A u \in seen[t] : \E p \in S : p[1] = u
    /\ \A p, q \in S : p[1] = q[1] => p = q
    /\ \A p \in S : p[2] = NoUrl \/ p[2] \in seen[t] \/ p[2] = url[t]
    /\ first \in seen[t] \/ first = url[t]
    /\ url[t] = NoUrl => \E p \in S : p[2] = NoUrl

Reader(t) ==
  /\ cache[Wanted(t)] = Nothing
  /\ Len(pages[t]) \in 1..Len(Target(t))
  /\ \A n \in 1..(Len(pages[t]) - 1) : Complete(pages[t][n], Target(t)[n])
  /\ Walked(t)

\* What makes the properties inductive: a task that reads has an empty cache to
\* fill and a chain of pages that is unbroken so far.
ReadInv == \A t \in Task : pc[t] = "reading" => Reader(t)

IInv == TypeOK /\ OneFetch /\ OneContent /\ CacheIsComplete /\ ReadInv

-----------------------------------------------------------------------------
LEMMA WantedType ==
  ASSUME TypeOK, NEW t \in Task
  PROVE  /\ Wanted(t) \in Cache /\ Target(t) \in Seq(Url) /\ Len(Target(t)) > 0
         /\ plan[t] \in Seq(Cache) /\ at[t] \in 1..Len(plan[t])
<1>1. plan[t] \in Seq(Cache) /\ at[t] \in 1..Len(plan[t])
  BY ClientAssumption DEF TypeOK
<1>2. Wanted(t) \in Cache
  BY <1>1 DEF Wanted
<1>3. Listings[Wanted(t)] \in Seq(Url) /\ Listings[Wanted(t)] # <<>>
  BY <1>2, ClientAssumption
<1> QED
  BY <1>1, <1>2, <1>3 DEF Target

LEMMA InitInv == Init => IInv
<1> SUFFICES ASSUME Init PROVE IInv
  OBVIOUS
<1>1. \A t \in Task : Len(plan[t]) >= 1
  BY ClientAssumption DEF Init
<1>2. TypeOK
  BY <1>1 DEF Init, TypeOK
<1> QED
  BY <1>2 DEF Init, IInv, OneFetch, OneContent, CacheIsComplete, ReadInv

\* Use keeps the types and touches neither locks nor caches.
LEMMA UseStep ==
  ASSUME TypeOK, NEW t \in Task, NEW S \in Seq(SUBSET Page), Use(t, S)
  PROVE  /\ at' \in [Task -> Nat \ {0}] /\ \A r \in Task : at'[r] <= Len(plan[r])
         /\ pc' \in [Task -> {"calling", "waiting", "reading", "done", "failed", "cancelled"}]
         /\ used' \subseteq Task \X Cache \X Seq(SUBSET Page)
         /\ used' = used \cup {<<t, Wanted(t), S>>}
         /\ pc'[t] # "reading"
         /\ \A r \in Task \ {t} : pc'[r] = pc[r] /\ at'[r] = at[r]
<1>1. Wanted(t) \in Cache /\ at[t] \in 1..Len(plan[t])
  BY WantedType
<1>2. used' = used \cup {<<t, Wanted(t), S>>} /\ used' \subseteq Task \X Cache \X Seq(SUBSET Page)
  BY <1>1 DEF Use, TypeOK
<1>3. CASE at[t] = Len(plan[t])
  BY <1>1, <1>2, <1>3 DEF Use, TypeOK
<1>4. CASE at[t] # Len(plan[t])
  <2>1. pc' = [pc EXCEPT ![t] = "calling"] /\ at' = [at EXCEPT ![t] = @ + 1]
    BY <1>4 DEF Use
  <2>2. at[t] + 1 <= Len(plan[t]) /\ at[t] + 1 \in Nat \ {0}
    BY <1>1, <1>4
  <2> QED
    BY <1>2, <2>1, <2>2 DEF TypeOK
<1> QED
  BY <1>3, <1>4

\* A reading task keeps its chain while another task moves.
LEMMA Untouched ==
  ASSUME TypeOK, NEW r \in Task, Reader(r), at'[r] = at[r], plan' = plan,
         url'[r] = url[r], seen'[r] = seen[r], pages'[r] = pages[r],
         cache'[Wanted(r)] = cache[Wanted(r)]
  PROVE  Reader(r)' /\ Wanted(r)' = Wanted(r)
BY DEF Reader, Walked, Current, Target, Wanted

-----------------------------------------------------------------------------
\* A task gets a cached content, with or without the lock of a free cache.
LEMMA UseKeeps ==
  ASSUME IInv, NEW t \in Task, pc[t] # "reading", cache[Wanted(t)] # Nothing,
         Use(t, cache[Wanted(t)]), UNCHANGED <<plan, walk, holder, cache>>
  PROVE  IInv'
<1> USE DEF IInv
<1>1. Wanted(t) \in Cache /\ cache[Wanted(t)] \in Seq(SUBSET Page)
  BY WantedType DEF TypeOK
<1>2. /\ at' \in [Task -> Nat \ {0}] /\ \A r \in Task : at'[r] <= Len(plan[r])
      /\ pc' \in [Task -> {"calling", "waiting", "reading", "done", "failed", "cancelled"}]
      /\ used' \subseteq Task \X Cache \X Seq(SUBSET Page)
      /\ used' = used \cup {<<t, Wanted(t), cache[Wanted(t)]>>}
      /\ pc'[t] # "reading"
      /\ \A r \in Task \ {t} : pc'[r] = pc[r] /\ at'[r] = at[r]
  BY <1>1, UseStep
<1>3. TypeOK'
  BY <1>2 DEF TypeOK, walk
<1>4. \A r \in Task : pc'[r] = "reading" => r # t /\ pc[r] = "reading" /\ Wanted(r)' = Wanted(r)
  BY <1>2 DEF Wanted
<1>5. OneFetch'
  <2>1. \A r \in Task : pc'[r] = "reading" => holder'[Wanted(r)'] = r
    BY <1>4 DEF OneFetch
  <2>2. ASSUME NEW c \in Cache, holder'[c] # NoTask
        PROVE  pc'[holder'[c]] = "reading" /\ Wanted(holder[c])' = c
    <3>1. pc[holder[c]] = "reading" /\ Wanted(holder[c]) = c /\ holder[c] \in Task
      BY <2>2 DEF OneFetch, TypeOK
    <3> QED
      BY <3>1, <1>2 DEF Wanted
  <2> QED
    BY <2>1, <2>2 DEF OneFetch, Wanted
<1>6. OneContent'
  BY <1>2 DEF OneContent
<1>7. CacheIsComplete'
  BY DEF CacheIsComplete
<1>8. ReadInv'
  <2> SUFFICES ASSUME NEW r \in Task, pc'[r] = "reading" PROVE Reader(r)'
    BY DEF ReadInv
  <2>1. r # t /\ Reader(r)
    BY <1>4 DEF ReadInv
  <2> QED
    BY <2>1, <1>2, Untouched DEF walk
<1> QED
  BY <1>3, <1>5, <1>6, <1>7, <1>8

LEMMA MissingStep == ASSUME IInv, NEW t \in Task, Missing(t) PROVE IInv'
<1> USE DEF IInv
<1>1. /\ pc[t] # "reading" /\ pc' = [pc EXCEPT ![t] = "waiting"]
      /\ UNCHANGED <<plan, at, walk, holder, cache, used>>
  BY DEF Missing
<1>2. TypeOK'
  BY <1>1 DEF TypeOK, walk
<1>3. \A r \in Task : Wanted(r)' = Wanted(r) /\ (pc'[r] = "reading" <=> pc[r] = "reading")
  BY <1>1 DEF Wanted, TypeOK
<1>4. OneFetch'
  <2>1. \A c \in Cache : holder[c] # NoTask => holder[c] \in Task
    BY DEF TypeOK
  <2> QED
    BY <1>1, <1>3, <2>1 DEF OneFetch, Wanted
<1>5. OneContent' /\ CacheIsComplete'
  BY <1>1 DEF OneContent, CacheIsComplete
<1>6. ReadInv'
  BY <1>1, <1>3, Untouched DEF ReadInv, walk
<1> QED
  BY <1>2, <1>4, <1>5, <1>6

\* The lock of an empty cache is taken: a chain of no pages.
LEMMA FetchStep ==
  ASSUME IInv, NEW t \in Task, pc[t] = "waiting", holder[Wanted(t)] = NoTask,
         cache[Wanted(t)] = Nothing, Fetch(t), UNCHANGED <<plan, cache>>
  PROVE  IInv'
<1> USE DEF IInv
<1>1. Wanted(t) \in Cache /\ Target(t) \in Seq(Url) /\ Len(Target(t)) > 0
  BY WantedType
<1>2. /\ holder' = [holder EXCEPT ![Wanted(t)] = t]
      /\ pc' = [pc EXCEPT ![t] = "reading"]
      /\ url' = [url EXCEPT ![t] = Target(t)[1]]
      /\ seen' = [seen EXCEPT ![t] = {}]
      /\ pages' = [pages EXCEPT ![t] = <<{}>>]
      /\ UNCHANGED <<plan, at, cache, used>>
  BY DEF Fetch, Open, Target
<1>3. Target(t)[1] \in Url
  BY <1>1
<1>4. TypeOK'
  <2>1. <<{}>> \in Seq(SUBSET Page)
    OBVIOUS
  <2>2. pages' \in [Task -> Seq(SUBSET Page)]
    BY <1>2, <2>1 DEF TypeOK
  <2> QED
    BY <1>1, <1>2, <1>3, <2>2 DEF TypeOK
<1>5. \A r \in Task : Wanted(r)' = Wanted(r)
  BY <1>2 DEF Wanted
<1>6. OneFetch'
  <2>1. ASSUME NEW r \in Task, pc'[r] = "reading" PROVE holder'[Wanted(r)] = r
    <3>1. CASE r = t
      BY <1>1, <1>2, <3>1 DEF TypeOK
    <3>2. CASE r # t
      <4>1. pc[r] = "reading" /\ holder[Wanted(r)] = r
        BY <1>2, <2>1, <3>2 DEF OneFetch, TypeOK
      <4>2. Wanted(r) # Wanted(t)
        BY <4>1, ClientAssumption
      <4> QED
        BY <4>1, <4>2, <1>2
    <3> QED
      BY <3>1, <3>2
  <2>2. ASSUME NEW c \in Cache, holder'[c] # NoTask
        PROVE  pc'[holder'[c]] = "reading" /\ Wanted(holder'[c]) = c
    <3>1. CASE c = Wanted(t)
      <4>1. holder'[c] = t
        BY <1>1, <1>2, <3>1 DEF TypeOK
      <4> QED
        BY <4>1, <1>2, <3>1 DEF TypeOK
    <3>2. CASE c # Wanted(t)
      <4>1. holder'[c] = holder[c]
        BY <1>2, <3>2
      <4>2. holder[c] \in Task /\ pc[holder[c]] = "reading" /\ Wanted(holder[c]) = c
        BY <4>1, <2>2 DEF OneFetch, TypeOK
      <4> QED
        BY <4>1, <4>2, <1>2 DEF TypeOK
    <3> QED
      BY <3>1, <3>2
  <2>3. \A c \in Cache : holder'[c] # NoTask => holder'[c] \in Task
    BY <1>4 DEF TypeOK
  <2> QED
    BY <1>2, <1>5, <2>1, <2>2, <2>3 DEF OneFetch, Wanted
<1>7. OneContent' /\ CacheIsComplete'
  BY <1>2 DEF OneContent, CacheIsComplete
<1>8. ReadInv'
  <2> SUFFICES ASSUME NEW r \in Task, pc'[r] = "reading" PROVE Reader(r)'
    BY DEF ReadInv
  <2>1. CASE r = t
    <3>1. pages'[t] = <<{}>> /\ url'[t] = Target(t)[1] /\ seen'[t] = {}
      BY <1>2 DEF TypeOK
    <3>2. Wanted(t)' = Wanted(t) /\ Target(t)' = Target(t)
      BY <1>5 DEF Target
    <3>3. Current(t)' = {}
      BY <3>1 DEF Current
    <3>4. url'[t] # NoUrl
      BY <1>3, <3>1, ClientAssumption
    <3>5. Walked(t)'
      BY <3>1, <3>2, <3>3, <3>4 DEF Walked
    <3>6. Len(pages'[t]) \in 1..Len(Target(t)')
      BY <1>1, <3>1, <3>2
    <3>7. \A n \in 1..(Len(pages'[t]) - 1) : FALSE
      BY <3>1
    <3> QED
      BY <1>2, <2>1, <3>2, <3>5, <3>6, <3>7 DEF Reader
  <2>2. CASE r # t
    <3>1. Reader(r) /\ url'[r] = url[r] /\ seen'[r] = seen[r] /\ pages'[r] = pages[r]
      BY <1>2, <2>2 DEF ReadInv, TypeOK
    <3> QED
      BY <1>2, <3>1, Untouched
  <2> QED
    BY <2>1, <2>2
<1> QED
  BY <1>4, <1>6, <1>7, <1>8

LEMMA AcquireStep == ASSUME IInv, NEW t \in Task, Acquire(t) PROVE IInv'
<1>1. pc[t] = "waiting" /\ holder[Wanted(t)] = NoTask /\ UNCHANGED <<plan, cache>>
  BY DEF Acquire
<1>2. CASE cache[Wanted(t)] = Nothing
  BY <1>1, <1>2, FetchStep DEF Acquire, TestAgain
<1>3. CASE cache[Wanted(t)] # Nothing
  BY <1>1, <1>3, UseKeeps DEF Acquire, TestAgain
<1> QED
  BY <1>2, <1>3

-----------------------------------------------------------------------------
\* A step inside a fetch: only the reader's own chain is at stake.
LEMMA WalkStep ==
  ASSUME IInv, NEW t \in Task, pc[t] = "reading", UNCHANGED <<plan, at, pc, holder, cache, used>>,
         NEW u \in Url \cup {NoUrl}, NEW S \in SUBSET Url, NEW P \in Seq(SUBSET Page),
         url' = [url EXCEPT ![t] = u], seen' = [seen EXCEPT ![t] = S],
         pages' = [pages EXCEPT ![t] = P],
         Reader(t)'
  PROVE  IInv'
<1> USE DEF IInv
<1>1. TypeOK'
  BY DEF TypeOK
<1>2. OneFetch' /\ OneContent' /\ CacheIsComplete'
  BY DEF OneFetch, OneContent, CacheIsComplete, Wanted
<1>3. ReadInv'
  <2> SUFFICES ASSUME NEW r \in Task, pc'[r] = "reading", r # t PROVE Reader(r)'
    BY DEF ReadInv
  <2>1. Reader(r) /\ url'[r] = url[r] /\ seen'[r] = seen[r] /\ pages'[r] = pages[r]
    BY DEF ReadInv, TypeOK
  <2> QED
    BY <2>1, Untouched
<1> QED
  BY <1>1, <1>2, <1>3

LEMMA PageStep == ASSUME IInv, NEW t \in Task, PageArrives(t) PROVE IInv'
<1> USE DEF IInv
<1>1. /\ pc[t] = "reading" /\ url[t] # NoUrl /\ url[t] \notin seen[t]
      /\ seen' = [seen EXCEPT ![t] = @ \cup {url[t]}]
      /\ UNCHANGED <<plan, at, pc, holder, cache, used>>
  BY DEF PageArrives, Repeated
<1>2. PICK link \in Links \cup {NoUrl} :
        /\ pages' = [pages EXCEPT ![t][Len(pages[t])] = @ \cup {<<url[t], link>>}]
        /\ url' = [url EXCEPT ![t] = link]
  BY DEF PageArrives
<1> DEFINE n == Len(pages[t])
           P == [pages[t] EXCEPT ![n] = @ \cup {<<url[t], link>>}]
<1>3. Reader(t) /\ Wanted(t) \in Cache /\ Target(t) \in Seq(Url)
  BY <1>1, WantedType DEF ReadInv
<1>4. /\ pages[t] \in Seq(SUBSET Page) /\ n \in 1..Len(Target(t)) /\ n \in 1..Len(pages[t])
      /\ url[t] \in Url /\ link \in Url \cup {NoUrl} /\ seen[t] \in SUBSET Url
  BY <1>1, <1>3, ClientAssumption DEF TypeOK, Reader
<1>5. pages[t][n] \in SUBSET Page /\ <<url[t], link>> \in Page
  BY <1>4 DEF Page
<1>6. P \in Seq(SUBSET Page) /\ Len(P) = n /\ P[n] = pages[t][n] \cup {<<url[t], link>>}
      /\ \A k \in 1..(n - 1) : P[k] = pages[t][k]
  BY <1>4, <1>5
<1>7. pages' = [pages EXCEPT ![t] = P]
  BY <1>2 DEF TypeOK
<1>8. pages'[t] = P /\ url'[t] = link /\ seen'[t] = seen[t] \cup {url[t]}
  BY <1>1, <1>2, <1>7 DEF TypeOK
<1>9. Wanted(t)' = Wanted(t) /\ Target(t)' = Target(t)
  BY <1>1 DEF Wanted, Target
<1>10. Current(t)' = Current(t) \cup {<<url[t], link>>}
  BY <1>6, <1>8 DEF Current
<1>11. Walked(t)'
  <2> DEFINE new == <<url[t], link>>
  <2>0. new \in Current(t)' /\ new[1] = url[t] /\ new[2] = link
    BY <1>10
  <2> HIDE DEF new
  <2>1. Walked(t)
    BY <1>3 DEF Reader
  <2>2. \A p \in Current(t)' : p \in Current(t) \/ p = new
    BY <1>10 DEF new
  <2>3. \A p \in Current(t)' : p[1] \in seen'[t]
    BY <2>0, <2>1, <2>2, <1>8 DEF Walked
  <2>4. \A v \in seen'[t] : \E p \in Current(t)' : p[1] = v
    <3> SUFFICES ASSUME NEW v \in seen'[t] PROVE \E p \in Current(t)' : p[1] = v
      OBVIOUS
    <3>1. CASE v \in seen[t]
      <4>1. PICK p \in Current(t) : p[1] = v
        BY <2>1, <3>1 DEF Walked
      <4> QED
        BY <4>1, <1>10
    <3>2. CASE v = url[t]
      BY <2>0, <3>2
    <3> QED
      BY <3>1, <3>2, <1>8
  <2>5. \A p \in Current(t) : p[1] # url[t]
    BY <2>1, <1>1 DEF Walked
  <2>6. \A p, q \in Current(t)' : p[1] = q[1] => p = q
    BY <2>0, <2>1, <2>2, <2>5 DEF Walked
  <2>7. \A p \in Current(t)' : p[2] = NoUrl \/ p[2] \in seen'[t] \/ p[2] = url'[t]
    BY <2>0, <2>1, <2>2, <1>8 DEF Walked
  <2>8. Target(t)[n] \in seen'[t]
    BY <2>1, <1>8 DEF Walked
  <2>9. url'[t] = NoUrl => \E p \in Current(t)' : p[2] = NoUrl
    BY <1>8, <2>0
  <2> QED
    BY <2>3, <2>4, <2>6, <2>7, <2>8, <2>9, <1>6, <1>8, <1>9 DEF Walked
<1>12. Reader(t)'
  <2>1. \A k \in 1..(n - 1) : Complete(P[k], Target(t)[k])
    BY <1>3, <1>6 DEF Reader
  <2>2. cache'[Wanted(t)] = Nothing
    BY <1>1, <1>3 DEF Reader
  <2> QED
    BY <2>1, <2>2, <1>4, <1>6, <1>8, <1>9, <1>11 DEF Reader
<1> QED
  BY <1>1, <1>2, <1>4, <1>6, <1>7, <1>12, WalkStep

\* A chain that has ended is complete.
LEMMA ChainEnds ==
  ASSUME IInv, NEW t \in Task, ListingOver(t)
  PROVE  /\ Reader(t) /\ pages[t] \in Seq(SUBSET Page) /\ Len(pages[t]) >= 1
         /\ \A n \in 1..Len(pages[t]) : Complete(pages[t][n], Target(t)[n])
<1>1. Reader(t) /\ pages[t] \in Seq(SUBSET Page)
  BY DEF IInv, ReadInv, ListingOver, TypeOK
<1>2. Len(pages[t]) \in 1..Len(Target(t)) /\ Target(t) \in Seq(Url)
  BY <1>1, WantedType DEF Reader, IInv
<1>3. Target(t)[Len(pages[t])] # url[t]
  BY <1>2, ClientAssumption DEF ListingOver
<1>4. Complete(Current(t), Target(t)[Len(pages[t])])
  BY <1>1, <1>3 DEF Reader, Walked, Complete, ListingOver
<1>5. \A n \in 1..Len(pages[t]) : n = Len(pages[t]) \/ n \in 1..(Len(pages[t]) - 1)
  BY <1>2
<1> QED
  BY <1>1, <1>2, <1>4, <1>5 DEF Reader, Current

LEMMA NextListingStep == ASSUME IInv, NEW t \in Task, NextListing(t) PROVE IInv'
<1> USE DEF IInv
<1> DEFINE n == Len(pages[t])  P == Append(pages[t], {})
<1>1. ListingOver(t) /\ pc[t] = "reading" /\ n < Len(Target(t))
      /\ UNCHANGED <<plan, at, pc, holder, cache, used>>
  BY DEF NextListing, ListingOver, Target
<1>2. /\ Reader(t) /\ pages[t] \in Seq(SUBSET Page) /\ n >= 1
      /\ \A k \in 1..n : Complete(pages[t][k], Target(t)[k])
  BY <1>1, ChainEnds
<1>3. Target(t) \in Seq(Url)
  BY WantedType
<1>4. n \in Nat /\ n + 1 \in 1..Len(Target(t)) /\ Target(t)[n + 1] \in Url
  BY <1>1, <1>2, <1>3
<1>5. /\ url' = [url EXCEPT ![t] = Target(t)[n + 1]]
      /\ seen' = [seen EXCEPT ![t] = {}]
      /\ pages' = [pages EXCEPT ![t] = P]
  <2>1. Open(t, n + 1) /\ n + 1 # 1
    BY <1>2, <1>4 DEF NextListing
  <2> QED
    BY <2>1 DEF Open, Target
<1>6. url'[t] = Target(t)[n + 1] /\ seen'[t] = {} /\ pages'[t] = P
  BY <1>5 DEF TypeOK
<1>7. P \in Seq(SUBSET Page) /\ Len(P) = n + 1 /\ P[n + 1] = {}
      /\ \A k \in 1..n : P[k] = pages[t][k]
  BY <1>2
<1>8. Wanted(t)' = Wanted(t) /\ Target(t)' = Target(t)
  BY <1>1 DEF Wanted, Target
<1>9. Reader(t)'
  <2>1. Current(t)' = {} /\ url'[t] # NoUrl
    BY <1>4, <1>6, <1>7, ClientAssumption DEF Current
  <2>2. Walked(t)'
    BY <2>1, <1>6, <1>7, <1>8 DEF Walked
  <2>3. \A k \in 1..n : Complete(P[k], Target(t)[k])
    BY <1>2, <1>7
  <2>4. (n + 1) - 1 = n
    BY <1>4
  <2>5. cache'[Wanted(t)] = Nothing
    BY <1>1, <1>2 DEF Reader
  <2> QED
    BY <2>2, <2>3, <2>4, <2>5, <1>4, <1>6, <1>7, <1>8 DEF Reader
<1>10. Target(t)[n + 1] \in Url \cup {NoUrl} /\ {} \in SUBSET Url
  BY <1>4
<1> QED
  BY <1>1, <1>5, <1>7, <1>9, <1>10, WalkStep

-----------------------------------------------------------------------------
\* A task that leaves takes its lock with it; the others' locks are their own.
LEMMA ReleaseKeeps ==
  ASSUME TypeOK, OneFetch, NEW t \in Task, Release(t), plan' = plan, pc'[t] # "reading",
         pc' \in [Task -> {"calling", "waiting", "reading", "done", "failed", "cancelled"}],
         \A r \in Task \ {t} : pc'[r] = pc[r] /\ at'[r] = at[r]
  PROVE  OneFetch' /\ holder' \in [Cache -> Task \cup {NoTask}]
<1>1. holder' \in [Cache -> Task \cup {NoTask}]
  BY DEF Release, TypeOK
<1>2. \A r \in Task \ {t} : Wanted(r)' = Wanted(r)
  BY DEF Wanted
<1>3. ASSUME NEW r \in Task, pc'[r] = "reading" PROVE holder'[Wanted(r)'] = r
  <2>1. r # t /\ Wanted(r)' = Wanted(r) /\ Wanted(r) \in Cache
    BY <1>2, <1>3, WantedType
  <2>2. holder[Wanted(r)] = r
    BY <1>3, <2>1 DEF OneFetch
  <2> QED
    BY <2>1, <2>2 DEF Release
<1>4. ASSUME NEW c \in Cache, holder'[c] # NoTask
      PROVE  pc'[holder'[c]] = "reading" /\ plan'[holder'[c]][at'[holder'[c]]] = c
  <2>1. holder'[c] = holder[c] /\ holder[c] # t /\ holder[c] # NoTask
    BY <1>4 DEF Release
  <2>2. holder[c] \in Task /\ pc[holder[c]] = "reading" /\ Wanted(holder[c]) = c
    BY <2>1 DEF OneFetch, TypeOK
  <2>3. PICK h \in Task \ {t} : h = holder[c]
    BY <2>1, <2>2
  <2>4. pc'[h] = "reading" /\ plan'[h][at'[h]] = c
    BY <2>2, <2>3 DEF Wanted
  <2> QED
    BY <2>1, <2>3, <2>4
<1>5. OneFetch'
  BY <1>3, <1>4 DEF OneFetch, Wanted
<1> QED
  BY <1>1, <1>5

LEMMA EndStep ==
  ASSUME IInv, NEW t \in Task, NEW x \in {"failed", "cancelled"},
         pc' = [pc EXCEPT ![t] = x], Release(t), UNCHANGED <<plan, at, walk, cache, used>>
  PROVE  IInv'
<1> USE DEF IInv
<1>1. /\ pc' \in [Task -> {"calling", "waiting", "reading", "done", "failed", "cancelled"}]
      /\ pc'[t] # "reading"
      /\ \A r \in Task \ {t} : pc'[r] = pc[r] /\ at'[r] = at[r]
  BY DEF TypeOK
<1>2. OneFetch' /\ holder' \in [Cache -> Task \cup {NoTask}]
  BY <1>1, ReleaseKeeps
<1>3. TypeOK'
  BY <1>1, <1>2 DEF TypeOK, walk
<1>4. OneContent' /\ CacheIsComplete'
  BY DEF OneContent, CacheIsComplete
<1>5. ReadInv'
  BY <1>1, Untouched DEF ReadInv, walk
<1> QED
  BY <1>2, <1>3, <1>4, <1>5

LEMMA FillStep == ASSUME IInv, NEW t \in Task, Fill(t) PROVE IInv'
<1> USE DEF IInv
<1>1. /\ ListingOver(t) /\ pc[t] = "reading" /\ Len(pages[t]) = Len(Target(t))
      /\ cache' = [cache EXCEPT ![Wanted(t)] = pages[t]]
      /\ Use(t, pages[t]) /\ Release(t) /\ UNCHANGED <<plan, walk>>
  BY DEF Fill, ListingOver, Target
<1>2. /\ Reader(t) /\ pages[t] \in Seq(SUBSET Page)
      /\ \A n \in 1..Len(pages[t]) : Complete(pages[t][n], Target(t)[n])
  BY <1>1, ChainEnds
<1>3. Wanted(t) \in Cache /\ cache[Wanted(t)] = Nothing
  BY <1>2, WantedType DEF Reader
<1>4. /\ at' \in [Task -> Nat \ {0}] /\ \A r \in Task : at'[r] <= Len(plan[r])
      /\ pc' \in [Task -> {"calling", "waiting", "reading", "done", "failed", "cancelled"}]
      /\ used' \subseteq Task \X Cache \X Seq(SUBSET Page)
      /\ used' = used \cup {<<t, Wanted(t), pages[t]>>}
      /\ pc'[t] # "reading"
      /\ \A r \in Task \ {t} : pc'[r] = pc[r] /\ at'[r] = at[r]
  BY <1>1, <1>2, UseStep
<1>5. OneFetch' /\ holder' \in [Cache -> Task \cup {NoTask}]
  BY <1>1, <1>4, ReleaseKeeps
<1>6. cache' \in [Cache -> Seq(SUBSET Page) \cup {Nothing}]
  BY <1>1, <1>2 DEF TypeOK
<1>7. TypeOK'
  BY <1>1, <1>4, <1>5, <1>6 DEF TypeOK, walk
<1>8. OneContent'
  <2> SUFFICES ASSUME NEW u \in used' PROVE cache'[u[2]] = u[3]
    BY DEF OneContent
  <2>1. CASE u \in used
    <3>1. u[2] \in Cache /\ u[3] \in Seq(SUBSET Page) /\ cache[u[2]] = u[3]
      BY <2>1 DEF OneContent, TypeOK
    <3>2. u[2] # Wanted(t)
      BY <3>1, <1>3, ClientAssumption
    <3> QED
      BY <1>1, <3>1, <3>2 DEF TypeOK
  <2>2. CASE u = <<t, Wanted(t), pages[t]>>
    BY <1>1, <1>3, <2>2 DEF TypeOK
  <2> QED
    BY <1>4, <2>1, <2>2
<1>9. CacheIsComplete'
  <2> SUFFICES ASSUME NEW c \in Cache, cache'[c] # Nothing
               PROVE  /\ Len(cache'[c]) = Len(Listings[c])
                      /\ \A n \in 1..Len(Listings[c]) : Complete(cache'[c][n], Listings[c][n])
    BY DEF CacheIsComplete
  <2>1. CASE c = Wanted(t)
    <3>1. cache'[c] = pages[t] /\ Listings[c] = Target(t)
      BY <1>1, <2>1 DEF TypeOK, Target
    <3> QED
      BY <1>1, <1>2, <3>1
  <2>2. CASE c # Wanted(t)
    <3>1. cache'[c] = cache[c]
      BY <1>1, <2>2 DEF TypeOK
    <3> QED
      BY <3>1 DEF CacheIsComplete
  <2> QED
    BY <2>1, <2>2
<1>10. ReadInv'
  <2> SUFFICES ASSUME NEW r \in Task, pc'[r] = "reading" PROVE Reader(r)'
    BY DEF ReadInv
  <2>1. r # t /\ pc[r] = "reading" /\ at'[r] = at[r] /\ Reader(r)
    BY <1>4 DEF ReadInv
  <2>2. Wanted(r) # Wanted(t)
    BY <2>1, <1>1 DEF OneFetch
  <2>3. cache'[Wanted(r)] = cache[Wanted(r)]
    BY <1>1, <2>2, <2>1, WantedType DEF TypeOK
  <2> QED
    BY <1>1, <2>1, <2>3, Untouched DEF walk
<1> QED
  BY <1>5, <1>7, <1>8, <1>9, <1>10

-----------------------------------------------------------------------------
LEMMA StepInv == IInv /\ [Next]_vars => IInv'
<1> SUFFICES ASSUME IInv, [Next]_vars PROVE IInv'
  OBVIOUS
<1>1. CASE UNCHANGED vars
  <2> USE <1>1 DEF vars, walk
  <2>1. TypeOK' /\ OneContent' /\ CacheIsComplete'
    BY DEF IInv, TypeOK, OneContent, CacheIsComplete
  <2>2. OneFetch'
    BY DEF IInv, OneFetch, Wanted
  <2>3. ReadInv'
    BY Untouched DEF IInv, ReadInv
  <2> QED
    BY <2>1, <2>2, <2>3 DEF IInv
<1>2. CASE Next
  <2>1. PICK t \in Task : Goes(t) \/ Cancel(t)
    BY <1>2 DEF Next
  <2>2. CASE Cached(t)
    BY <2>2, UseKeeps DEF Cached
  <2>3. CASE Missing(t)
    BY <2>3, MissingStep
  <2>4. CASE Acquire(t)
    BY <2>4, AcquireStep
  <2>5. CASE PageArrives(t)
    BY <2>5, PageStep
  <2>6. CASE NextListing(t)
    BY <2>6, NextListingStep
  <2>7. CASE Fill(t)
    BY <2>7, FillStep
  <2>8. CASE FetchFails(t)
    BY <2>8, EndStep DEF FetchFails
  <2>9. CASE Cancel(t)
    BY <2>9, EndStep DEF Cancel
  <2> QED
    BY <2>1, <2>2, <2>3, <2>4, <2>5, <2>6, <2>7, <2>8, <2>9 DEF Goes
<1> QED
  BY <1>1, <1>2

\* The invariant holds whatever the server answers and whoever is cancelled.
THEOREM ClientInvariant == Spec => []IInv
BY InitInv, StepInv, PTL DEF Spec

\* Types, for any number of tasks and catalogues.
THEOREM TypeCorrect == Spec => []TypeOK
BY ClientInvariant, PTL DEF IInv

\* list_kpis, list_municipalities and list_ous never fetch a catalogue twice at
\* the same time, and a lock is held exactly by the task that reads.
THEOREM FetchedByOne == Spec => []OneFetch
BY ClientInvariant, PTL DEF IInv

\* Every resolution of a run works with the same content of a catalogue.
THEOREM SharedContent == Spec => []OneContent
BY ClientInvariant, PTL DEF IInv

\* A failed, cyclic or cancelled fetch leaves nothing behind in the cache.
THEOREM OnlyComplete == Spec => []CacheIsComplete
BY ClientInvariant, PTL DEF IInv

-----------------------------------------------------------------------------
(* One dataset's requests over all its attempts.                             *)

\* log and payloads are of this round; the 429s since the last payload are its tail.
AttemptsType ==
  /\ adapter \in DOMAIN Requests /\ Attempts!plan \in Seq({"get", "post"})
  /\ round \in 1..Rounds /\ step \in 1..Len(Attempts!plan) /\ try \in 1..Tries
  /\ log \in Seq(Attempts!Answer \cup {"429"})
  /\ rpc \in {"sent", "saved", "failed", "backoff"}

Counted(n) ==
  /\ payloads = [i \in 1..n |-> round]
  /\ Len(log) = n + Attempts!Cardinality(Attempts!Limited(log))

AttemptsInv ==
  /\ AttemptsType
  /\ rpc = "sent" =>
       /\ Counted(step - 1)
       /\ try - 1 <= Len(log) /\ \A k \in 0..(try - 2) : log[Len(log) - k] = "429"
  /\ rpc = "saved" => Counted(Len(Attempts!plan))
  /\ rpc = "backoff" => round < Rounds
  /\ Attempts!EarlyFailureIsFinal

LEMMA AttemptsFacts ==
  /\ Tries \in Nat \ {0} /\ Rounds \in Nat \ {0}
  /\ \A a \in DOMAIN Requests : /\ Requests[a] \in Seq({"get", "post"})
                                /\ Len(Requests[a]) \in Nat \ {0}
<1>1. /\ Tries \in Nat \ {0} /\ Rounds \in Nat \ {0}
      /\ \A a \in DOMAIN Requests : Requests[a] \in Seq({"get", "post"}) /\ Requests[a] # <<>>
  BY PartsAssumption DEF Attempts!ResolutionAssumption
<1> QED BY <1>1

LEMMA SameCount == \A S : Attempts!Cardinality(S) = Cardinality(S)
  BY DEF Attempts!Cardinality, Cardinality

LEMMA Logged ==
  ASSUME NEW S, NEW s \in Seq(S), NEW a \in S
  PROVE  /\ Attempts!Cardinality(Attempts!Limited(s)) \in Nat
         /\ Attempts!Cardinality(Attempts!Limited(Append(s, a))) =
              IF a = "429" THEN Attempts!Cardinality(Attempts!Limited(s)) + 1
              ELSE Attempts!Cardinality(Attempts!Limited(s))
<1> DEFINE t == Append(s, a)  L == Attempts!Limited(s)
<1>1. /\ t \in Seq(S) /\ Len(s) \in Nat /\ Len(t) = Len(s) + 1 /\ t[Len(t)] = a
      /\ \A i \in 1..Len(s) : t[i] = s[i]
  OBVIOUS
<1>2. IsFiniteSet(L)
  <2>1. IsFiniteSet(1..Len(s)) /\ L \subseteq 1..Len(s)
    BY <1>1, FS_Interval DEF Attempts!Limited
  <2> QED BY <2>1, FS_Subset
<1> HIDE DEF t
<1>3. Attempts!Limited(t) = IF a = "429" THEN L \cup {Len(s) + 1} ELSE L
  BY <1>1 DEF Attempts!Limited
<1>4. Len(s) + 1 \notin L
  BY <1>1 DEF Attempts!Limited
<1> HIDE DEF L
<1>5. Cardinality(L \cup {Len(s) + 1}) = Cardinality(L) + 1 /\ Cardinality(L) \in Nat
  BY <1>2, <1>4, FS_AddElement, FS_CardinalityType
<1> QED BY <1>3, <1>5, SameCount DEF t, L

LEMMA NothingLogged == Len(<<>>) = 0 /\ 1..0 = {} /\ 0..(1 - 2) = {} /\ Attempts!Cardinality(Attempts!Limited(<<>>)) = 0
                         /\ <<>> = [i \in 1..0 |-> 0]
<1>1. Len(<<>>) = 0 /\ 1..0 = {} /\ 0..(1 - 2) = {}
  OBVIOUS
<1>2. Attempts!Limited(<<>>) = {}
  BY <1>1 DEF Attempts!Limited
<1>3. <<>> = [i \in 1..0 |-> 0]
  OBVIOUS
<1> QED BY <1>1, <1>2, <1>3, FS_EmptySet, SameCount

LEMMA AttemptsUsable == ASSUME AttemptsInv, Attempts!Usable PROVE AttemptsInv'
<1> DEFINE plan0 == Attempts!plan
<1>1. /\ rpc = "sent" /\ log' = Append(log, "usable") /\ payloads' = Append(payloads, round)
      /\ adapter' = adapter /\ round' = round
      /\ \/ step = Len(plan0) /\ rpc' = "saved" /\ step' = step /\ try' = try
         \/ step # Len(plan0) /\ step' = step + 1 /\ try' = 1 /\ rpc' = "sent"
  BY DEF Attempts!Usable
<1>2. /\ AttemptsType /\ Counted(step - 1) /\ plan0' = plan0
      /\ Len(plan0) \in Nat /\ step \in Nat \ {0} /\ Tries \in Nat \ {0} /\ round \in Nat
  BY <1>1, AttemptsFacts DEF AttemptsInv, AttemptsType, Attempts!plan
<1>3. /\ log' \in Seq(Attempts!Answer \cup {"429"}) /\ Len(log') = Len(log) + 1
      /\ Attempts!Cardinality(Attempts!Limited(log')) = Attempts!Cardinality(Attempts!Limited(log))
      /\ Len(log) \in Nat /\ Attempts!Cardinality(Attempts!Limited(log)) \in Nat
  <2>1. "usable" \in Attempts!Answer \cup {"429"} /\ "usable" # "429"
    BY DEF Attempts!Answer
  <2>2. log \in Seq(Attempts!Answer \cup {"429"})
    BY <1>2 DEF AttemptsType
  <2> DEFINE S == Attempts!Answer \cup {"429"}
  <2>3. log' = Append(log, "usable")
    BY <1>1
  <2>4. "usable" \in S /\ log \in Seq(S)
    BY <2>1, <2>2
  <2> HIDE DEF S
  <2>5. /\ log' \in Seq(S) /\ Len(log) \in Nat /\ Len(log') = Len(log) + 1 /\ log'[Len(log')] = "usable"
        /\ \A i \in 1..Len(log) : log'[i] = log[i]
        /\ Attempts!Cardinality(Attempts!Limited(log)) \in Nat
        /\ Attempts!Cardinality(Attempts!Limited(log')) = Attempts!Cardinality(Attempts!Limited(log))
    <3> DEFINE u == Append(log, "usable")
    <3>1. /\ u \in Seq(S) /\ Len(log) \in Nat /\ Len(u) = Len(log) + 1 /\ u[Len(u)] = "usable"
          /\ \A i \in 1..Len(log) : u[i] = log[i]
      BY <2>4
    <3>2. /\ Attempts!Cardinality(Attempts!Limited(log)) \in Nat
          /\ Attempts!Cardinality(Attempts!Limited(u)) = Attempts!Cardinality(Attempts!Limited(log))
      BY <2>1, <2>4, Logged
    <3> QED BY <2>3, <3>1, <3>2
  <2> QED BY <2>5 DEF S
<1>4. AttemptsType'
  BY <1>1, <1>2, <1>3 DEF AttemptsType
<1>5. payloads' = [i \in 1..step |-> round]
  <2>1. payloads = [i \in 1..step - 1 |-> round]
    BY <1>2 DEF Counted
  <2>2. step - 1 \in Nat
    BY <1>2
  <2> QED BY <1>1, <1>2, <2>1, <2>2
<1>6. Len(log') = step + Attempts!Cardinality(Attempts!Limited(log'))
  BY <1>1, <1>2, <1>3 DEF Counted
<1>7. CASE step = Len(plan0)
  <2>1. Counted(Len(plan0))'
    BY <1>1, <1>2, <1>5, <1>6, <1>7 DEF Counted
  <2> QED BY <1>1, <1>4, <1>7, <2>1 DEF AttemptsInv, Attempts!EarlyFailureIsFinal
<1>8. CASE step # Len(plan0)
  <2>1. step' = step + 1 /\ try' = 1
    BY <1>1, <1>8
  <2>2. step' - 1 = step /\ try' - 1 = 0 /\ 0..(try' - 2) = {} /\ Len(log') >= 0
    BY <1>2, <1>3, <2>1
  <2>3. Counted(step - 1)'
    BY <1>1, <1>5, <1>6, <2>2 DEF Counted
  <2> QED BY <1>1, <1>4, <1>8, <2>2, <2>3 DEF AttemptsInv, Attempts!EarlyFailureIsFinal
<1> QED BY <1>7, <1>8

LEMMA AttemptsUnusable ==
  ASSUME AttemptsInv, NEW a \in Attempts!Answer \ {"usable"}, Attempts!Unusable(a)
  PROVE  AttemptsInv'
<1>1. /\ rpc = "sent" /\ log' = Append(log, a) /\ UNCHANGED <<adapter, round, step, try, payloads>>
      /\ IF Attempts!Transient(Attempts!plan[step], a)
         THEN rpc' = IF round < Rounds THEN "backoff" ELSE "failed" ELSE rpc' = "failed"
  BY DEF Attempts!Unusable, Attempts!TryAgain
<1>2. /\ AttemptsType /\ Attempts!plan' = Attempts!plan /\ Rounds \in Nat \ {0}
      /\ step \in 1..Len(Attempts!plan) /\ round \in 1..Rounds
  BY <1>1, AttemptsFacts DEF AttemptsInv, AttemptsType, Attempts!plan
<1>3. log' \in Seq(Attempts!Answer \cup {"429"}) /\ log'[Len(log')] = a
  BY <1>1, <1>2, Logged DEF AttemptsType
<1>4. AttemptsType'
  BY <1>1, <1>2, <1>3 DEF AttemptsType
<1>5. a # "429"
  BY DEF Attempts!Answer
<1>6. Attempts!plan[step] \in {"get", "post"}
  BY <1>2 DEF AttemptsType
<1>7. a \in {"unusable", "nojson", "client"} \/ a \in {"server", "broken", "cut"}
  BY DEF Attempts!Answer
<1>8. rpc' = "failed" =>
        round = Rounds \/ Attempts!plan[step] = "get" \/ a \in {"unusable", "nojson", "client"}
  <2>1. CASE Attempts!Transient(Attempts!plan[step], a)
    BY <1>1, <1>2, <2>1
  <2>2. CASE ~ Attempts!Transient(Attempts!plan[step], a)
    BY <1>6, <1>7, <2>2 DEF Attempts!Transient
  <2> QED BY <2>1, <2>2
<1>9. Attempts!EarlyFailureIsFinal'
  BY <1>1, <1>2, <1>3, <1>5, <1>8 DEF Attempts!EarlyFailureIsFinal
<1>10. rpc' = "failed" \/ (rpc' = "backoff" /\ round < Rounds)
  <2>1. CASE round < Rounds
    BY <1>1, <2>1
  <2>2. CASE ~ (round < Rounds)
    BY <1>1, <2>2
  <2> QED BY <2>1, <2>2
<1> QED BY <1>1, <1>4, <1>9, <1>10 DEF AttemptsInv

LEMMA AttemptsTooMany == ASSUME AttemptsInv, Attempts!TooMany PROVE AttemptsInv'
<1>1. /\ rpc = "sent" /\ log' = Append(log, "429") /\ UNCHANGED <<adapter, round, step, payloads>>
      /\ \/ try < Tries /\ try' = try + 1 /\ rpc' = "sent"
         \/ ~ (try < Tries) /\ try' = try /\ rpc' = IF round < Rounds THEN "backoff" ELSE "failed"
  BY DEF Attempts!TooMany, Attempts!TryAgain
<1>2. /\ AttemptsType /\ Attempts!plan' = Attempts!plan /\ Rounds \in Nat \ {0} /\ Tries \in Nat \ {0}
      /\ Counted(step - 1) /\ round \in 1..Rounds /\ try \in 1..Tries
      /\ try - 1 <= Len(log) /\ \A k \in 0..(try - 2) : log[Len(log) - k] = "429"
  BY <1>1, AttemptsFacts DEF AttemptsInv, AttemptsType, Attempts!plan
<1>3. /\ log' \in Seq(Attempts!Answer \cup {"429"}) /\ Len(log') = Len(log) + 1
      /\ Len(log) \in Nat /\ log'[Len(log')] = "429" /\ \A i \in 1..Len(log) : log'[i] = log[i]
      /\ Attempts!Cardinality(Attempts!Limited(log')) = Attempts!Cardinality(Attempts!Limited(log)) + 1
      /\ Attempts!Cardinality(Attempts!Limited(log)) \in Nat
  <2>1. "429" \in Attempts!Answer \cup {"429"}
    OBVIOUS
  <2>2. log \in Seq(Attempts!Answer \cup {"429"})
    BY <1>2 DEF AttemptsType
  <2> DEFINE S == Attempts!Answer \cup {"429"}
  <2>3. log' = Append(log, "429")
    BY <1>1
  <2>4. "429" \in S /\ log \in Seq(S)
    BY <2>1, <2>2
  <2> HIDE DEF S
  <2>5. /\ log' \in Seq(S) /\ Len(log) \in Nat /\ Len(log') = Len(log) + 1 /\ log'[Len(log')] = "429"
        /\ \A i \in 1..Len(log) : log'[i] = log[i]
        /\ Attempts!Cardinality(Attempts!Limited(log)) \in Nat
        /\ Attempts!Cardinality(Attempts!Limited(log')) = Attempts!Cardinality(Attempts!Limited(log)) + 1
    <3> DEFINE u == Append(log, "429")
    <3>1. /\ u \in Seq(S) /\ Len(log) \in Nat /\ Len(u) = Len(log) + 1 /\ u[Len(u)] = "429"
          /\ \A i \in 1..Len(log) : u[i] = log[i]
      BY <2>4
    <3>2. /\ Attempts!Cardinality(Attempts!Limited(log)) \in Nat
          /\ Attempts!Cardinality(Attempts!Limited(u)) = Attempts!Cardinality(Attempts!Limited(log)) + 1
      BY <2>1, <2>4, Logged
    <3> QED BY <2>3, <3>1, <3>2
  <2> QED BY <2>5 DEF S
<1>4. try' \in 1..Tries
  BY <1>1, <1>2
<1>5. AttemptsType'
  BY <1>1, <1>2, <1>3, <1>4 DEF AttemptsType
<1>6. step - 1 \in Int /\ Len(log') = (step - 1) + Attempts!Cardinality(Attempts!Limited(log'))
  BY <1>2, <1>3 DEF Counted, AttemptsType
<1>7. Counted(step - 1)'
  BY <1>1, <1>2, <1>6 DEF Counted
<1>8. \A k \in 0..(try - 1) : log'[Len(log') - k] = "429"
  <2> SUFFICES ASSUME NEW k \in 0..(try - 1) PROVE log'[Len(log') - k] = "429"
    OBVIOUS
  <2>1. CASE k = 0
    BY <1>3, <2>1
  <2>2. CASE k # 0
    <3>1. k - 1 \in 0..(try - 2) /\ Len(log') - k = Len(log) - (k - 1)
      BY <1>2, <1>3, <2>2
    <3>2. Len(log) - (k - 1) \in 1..Len(log)
      BY <1>2, <1>3, <3>1
    <3> QED BY <1>2, <1>3, <3>1, <3>2
  <2> QED BY <2>1, <2>2
<1>9. CASE rpc' = "sent"
  <2>1. try' - 1 <= Len(log') /\ 0..(try' - 2) = 0..(try - 1)
    BY <1>1, <1>2, <1>3, <1>9
  <2> QED BY <1>5, <1>7, <1>8, <1>9, <2>1 DEF AttemptsInv, Attempts!EarlyFailureIsFinal
<1>10. CASE rpc' # "sent"
  <2>1. /\ try = Tries /\ rpc' \in {"backoff", "failed"}
        /\ rpc' = "failed" => round = Rounds
        /\ rpc' = "backoff" => round < Rounds
    BY <1>1, <1>2, <1>10
  <2>2. Attempts!EarlyFailureIsFinal'
    BY <1>1, <1>3, <1>8, <2>1 DEF Attempts!EarlyFailureIsFinal
  <2> QED BY <1>1, <1>5, <2>1, <2>2 DEF AttemptsInv
<1> QED BY <1>9, <1>10

LEMMA AttemptsResume == ASSUME AttemptsInv, Attempts!Resume PROVE AttemptsInv'
<1>1. /\ rpc = "backoff" /\ rpc' = "sent" /\ round' = round + 1 /\ step' = 1 /\ try' = 1
      /\ log' = <<>> /\ payloads' = <<>> /\ adapter' = adapter
  BY DEF Attempts!Resume
<1>2. /\ AttemptsType /\ Attempts!plan' = Attempts!plan /\ Rounds \in Nat \ {0} /\ Tries \in Nat \ {0}
      /\ round < Rounds /\ round \in 1..Rounds
      /\ Attempts!plan \in Seq({"get", "post"}) /\ Len(Attempts!plan) \in Nat \ {0}
  BY <1>1, AttemptsFacts DEF AttemptsInv, AttemptsType, Attempts!plan
<1>3. AttemptsType'
  BY <1>1, <1>2 DEF AttemptsType
<1>4. Counted(step - 1)' /\ (try - 1 <= Len(log))' /\ 0..(try' - 2) = {}
  BY <1>1, NothingLogged DEF Counted
<1> QED BY <1>1, <1>3, <1>4 DEF AttemptsInv, Attempts!EarlyFailureIsFinal

LEMMA AttemptsStart == Attempts!Init => AttemptsInv
<1> SUFFICES ASSUME Attempts!Init PROVE AttemptsInv
  OBVIOUS
<1>1. /\ adapter \in DOMAIN Requests /\ rpc = "sent" /\ round = 1 /\ step = 1 /\ try = 1
      /\ log = <<>> /\ payloads = <<>>
  BY DEF Attempts!Init
<1>2. /\ Rounds \in Nat \ {0} /\ Tries \in Nat \ {0}
      /\ Attempts!plan \in Seq({"get", "post"}) /\ Len(Attempts!plan) \in Nat \ {0}
  BY <1>1, AttemptsFacts DEF Attempts!plan
<1>3. AttemptsType
  BY <1>1, <1>2 DEF AttemptsType
<1>4. Counted(step - 1) /\ try - 1 <= Len(log) /\ 0..(try - 2) = {}
  BY <1>1, NothingLogged DEF Counted
<1> QED BY <1>1, <1>3, <1>4 DEF AttemptsInv, Attempts!EarlyFailureIsFinal

LEMMA AttemptsStep == AttemptsInv /\ [Attempts!Next]_(Attempts!vars) => AttemptsInv'
<1>1. ASSUME AttemptsInv, UNCHANGED Attempts!vars PROVE AttemptsInv'
  BY <1>1 DEF Attempts!vars, AttemptsInv, AttemptsType, Counted, Attempts!EarlyFailureIsFinal,
              Attempts!plan
<1> QED BY <1>1, AttemptsUsable, AttemptsUnusable, AttemptsTooMany, AttemptsResume
        DEF Attempts!Next

LEMMA AttemptsInvariant == Attempts!Spec => []AttemptsInv
<1> QED BY AttemptsStart, AttemptsStep, PTL DEF Attempts!Spec

\* A dataset is saved from the payloads of one round, one per request of its adapter,
\* and from no answer but these and 429s: for any adapters, rounds and tries.
THEOREM OneRoundSaved == Attempts!Spec => []SavedFromOneRound
<1>1. AttemptsInv => Attempts!SavedFromOneRound
  BY DEF AttemptsInv, Attempts!SavedFromOneRound, Counted, Attempts!plan
<1> QED BY <1>1, AttemptsInvariant, PTL DEF SavedFromOneRound

\* Rate limiting alone fails a dataset in the last round only, and an earlier round
\* fails one only for what the provider answered to a GET or said of the sample.
THEOREM EarlyFailuresFinal == Attempts!Spec => []EarlyFailureIsFinal
<1>1. AttemptsInv => Attempts!EarlyFailureIsFinal
  BY DEF AttemptsInv
<1> QED BY <1>1, AttemptsInvariant, PTL DEF EarlyFailureIsFinal

-----------------------------------------------------------------------------
(* Lists: what a condition leaves, and the least of a set of numbers.        *)

\* A set of natural numbers that is not empty has a least element.
LEMMA LeastOf ==
  ASSUME NEW S, S \subseteq Nat, S # {}
  PROVE  \E n \in S : \A m \in S : n <= m
<1> DEFINE R == OpToRel(<, Nat)
<1>1. PICK n \in S : \A m \in S : ~ (<<m, n>> \in R)
  <2> HIDE DEF R
  <2>1. IsWellFoundedOn(R, Nat)
    BY NatLessThanWellFounded DEF R
  <2> QED BY <2>1, WFMin
<1>2. ASSUME NEW m \in S PROVE n <= m
  <2>1. m \in Nat /\ n \in Nat
    OBVIOUS
  <2>2. ~ (m < n)
    BY <1>1, <2>1, Zenon DEF OpToRel
  <2> HIDE DEF R
  <2> QED BY <2>1, <2>2
<1> QED BY <1>2

-----------------------------------------------------------------------------
(* Only.                                                                     *)

UpTo(s, S, n, f) ==
  f = [k \in 0..n |-> IF k = 0 THEN <<>>
                      ELSE IF s[k] \in S THEN Append(f[k - 1], s[k]) ELSE f[k - 1]]

\* The function that Only is defined by exists.
LEMMA OnlyIsDefined ==
  ASSUME NEW s, NEW S, Len(s) \in Nat
  PROVE  \E f : UpTo(s, S, Len(s), f) /\ Only(s, S) = f[Len(s)]
<1> DEFINE Bad == {n \in Nat : ~ \E f : UpTo(s, S, n, f)}
<1>1. Bad = {}
  <2> SUFFICES ASSUME Bad # {} PROVE FALSE
    OBVIOUS
  <2>1. PICK n \in Bad : \A m \in Bad : n <= m
    BY LeastOf
  <2>2. n # 0
    <3> DEFINE f == [k \in 0..0 |-> <<>>]
    <3>1. UpTo(s, S, 0, f)
      BY DEF UpTo
    <3> QED BY <3>1
  <2>3. n - 1 \in Nat /\ n \in Nat /\ n - 1 \notin Bad
    BY <2>1, <2>2
  <2>4. PICK g : UpTo(s, S, n - 1, g)
    BY <2>3
  <2> DEFINE new == IF s[n] \in S THEN Append(g[n - 1], s[n]) ELSE g[n - 1]
             f == [k \in 0..n |-> IF k = n THEN new ELSE g[k]]
  <2>5. ASSUME NEW k \in 0..n
        PROVE  f[k] = IF k = 0 THEN <<>>
                      ELSE IF s[k] \in S THEN Append(f[k - 1], s[k]) ELSE f[k - 1]
    <3>1. CASE k = n
      BY <2>2, <2>3, <3>1
    <3>2. CASE k # n
      <4>1. k \in 0..(n - 1) /\ f[k] = g[k] /\ (k # 0 => k - 1 \in 0..n /\ k - 1 # n)
        BY <2>3, <3>2
      <4>2. g[k] = IF k = 0 THEN <<>>
                   ELSE IF s[k] \in S THEN Append(g[k - 1], s[k]) ELSE g[k - 1]
        BY <2>4, <4>1 DEF UpTo
      <4> QED BY <4>1, <4>2
    <3> QED BY <3>1, <3>2
  <2>6. UpTo(s, S, n, f)
    BY <2>5 DEF UpTo
  <2> QED BY <2>1, <2>6
<1>2. \E f : UpTo(s, S, Len(s), f)
  BY <1>1
<1> QED BY <1>2 DEF Only, UpTo

\* t holds the elements of s, up to n, that are in S, in the order of s.
KeepsOrder(s, n, t) ==
  \A i, j \in 1..Len(t) : i < j => \E k, l \in 1..n : k < l /\ s[k] = t[i] /\ s[l] = t[j]
KeptFrom(s, S, T, n, t) ==
  /\ t \in Seq(T) /\ KeepsOrder(s, n, t)
  /\ \A i \in 1..Len(t) : \E k \in 1..n : s[k] = t[i] /\ s[k] \in S
  /\ \A k \in 1..n : s[k] \in S => \E i \in 1..Len(t) : t[i] = s[k]

LEMMA KeepOne ==
  ASSUME NEW T, NEW s \in Seq(T), NEW S, NEW n \in 1..Len(s), NEW t, KeptFrom(s, S, T, n - 1, t)
  PROVE  /\ s[n] \in S => KeptFrom(s, S, T, n, Append(t, s[n]))
         /\ s[n] \notin S => KeptFrom(s, S, T, n, t)
<1>1. /\ n \in Nat /\ Len(s) \in Nat /\ s[n] \in T /\ t \in Seq(T) /\ Len(t) \in Nat
      /\ \A k \in 1..n : k = n \/ k \in 1..(n - 1)
      /\ \A k \in 1..(n - 1) : k \in 1..n /\ k < n
  BY DEF KeptFrom
<1>2. ASSUME s[n] \notin S PROVE KeptFrom(s, S, T, n, t)
  <2>1. KeepsOrder(s, n, t)
    <3>1. KeepsOrder(s, n - 1, t)
      BY DEF KeptFrom
    <3>2. ASSUME NEW i \in 1..Len(t), NEW j \in 1..Len(t), i < j
          PROVE  \E k, l \in 1..n : k < l /\ s[k] = t[i] /\ s[l] = t[j]
      <4>1. PICK k, l \in 1..(n - 1) : k < l /\ s[k] = t[i] /\ s[l] = t[j]
        BY <3>1, <3>2 DEF KeepsOrder
      <4>2. k \in 1..n /\ l \in 1..n
        BY <1>1
      <4> QED BY <4>1, <4>2
    <3> QED BY <3>2 DEF KeepsOrder
  <2>2. \A i \in 1..Len(t) : \E k \in 1..n : s[k] = t[i] /\ s[k] \in S
    BY <1>1 DEF KeptFrom
  <2>3. \A k \in 1..n : s[k] \in S => \E i \in 1..Len(t) : t[i] = s[k]
    BY <1>1, <1>2 DEF KeptFrom
  <2> QED BY <1>1, <2>1, <2>2, <2>3 DEF KeptFrom
<1>3. ASSUME s[n] \in S PROVE KeptFrom(s, S, T, n, Append(t, s[n]))
  <2> DEFINE u == Append(t, s[n])
  <2>1. /\ u \in Seq(T) /\ Len(u) = Len(t) + 1 /\ u[Len(u)] = s[n]
        /\ \A i \in 1..Len(t) : u[i] = t[i] /\ i \in 1..Len(u)
        /\ \A i \in 1..Len(u) : i = Len(u) \/ i \in 1..Len(t)
        /\ Len(u) \in 1..Len(u)
    BY <1>1
  <2> HIDE DEF u
  <2>2. ASSUME NEW i \in 1..Len(u), NEW j \in 1..Len(u), i < j
        PROVE  \E k, l \in 1..n : k < l /\ s[k] = u[i] /\ s[l] = u[j]
    <3>1. i \in 1..Len(t)
      BY <1>1, <2>1, <2>2
    <3>2. CASE j = Len(u)
      <4>1. PICK k \in 1..(n - 1) : s[k] = t[i]
        BY <3>1 DEF KeptFrom
      <4> QED BY <1>1, <2>1, <3>1, <3>2, <4>1
    <3>3. CASE j \in 1..Len(t)
      <4>1. PICK k, l \in 1..(n - 1) : k < l /\ s[k] = t[i] /\ s[l] = t[j]
        BY <2>2, <3>1, <3>3 DEF KeptFrom, KeepsOrder
      <4> QED BY <1>1, <2>1, <3>1, <3>3, <4>1
    <3> QED BY <2>1, <3>2, <3>3
  <2>3. KeepsOrder(s, n, u)
    BY <2>2 DEF KeepsOrder
  <2>4. ASSUME NEW i \in 1..Len(u) PROVE \E k \in 1..n : s[k] = u[i] /\ s[k] \in S
    <3>1. CASE i = Len(u)
      BY <1>1, <1>3, <2>1, <3>1
    <3>2. CASE i \in 1..Len(t)
      <4>1. PICK k \in 1..(n - 1) : s[k] = t[i] /\ s[k] \in S
        BY <3>2 DEF KeptFrom
      <4> QED BY <1>1, <2>1, <3>2, <4>1
    <3> QED BY <2>1, <3>1, <3>2
  <2>5. ASSUME NEW k \in 1..n, s[k] \in S PROVE \E i \in 1..Len(u) : u[i] = s[k]
    <3>1. CASE k = n
      BY <2>1, <3>1
    <3>2. CASE k \in 1..(n - 1)
      <4>1. PICK i \in 1..Len(t) : t[i] = s[k]
        BY <2>5, <3>2 DEF KeptFrom
      <4> QED BY <2>1, <4>1
    <3> QED BY <1>1, <3>1, <3>2
  <2>6. KeptFrom(s, S, T, n, u)
    BY <2>1, <2>3, <2>4, <2>5 DEF KeptFrom
  <2> QED BY <2>6 DEF u
<1> QED BY <1>2, <1>3

\* Only keeps the elements of s in S, all of them, and their order.
LEMMA OnlyKeeps ==
  ASSUME NEW T, NEW s \in Seq(T), NEW S
  PROVE  KeptFrom(s, S, T, Len(s), Only(s, S))
<1>1. Len(s) \in Nat
  OBVIOUS
<1>2. PICK f : UpTo(s, S, Len(s), f) /\ Only(s, S) = f[Len(s)]
  BY <1>1, OnlyIsDefined
<1> DEFINE Bad == {n \in 0..Len(s) : ~ KeptFrom(s, S, T, n, f[n])}
<1>3. Bad = {}
  <2> SUFFICES ASSUME Bad # {} PROVE FALSE
    OBVIOUS
  <2>1. PICK n \in Bad : \A m \in Bad : n <= m
    <3>1. Bad \subseteq Nat
      BY <1>1
    <3> HIDE DEF Bad
    <3> QED BY <3>1, LeastOf
  <2>2. n \in 0..Len(s) /\ ~ KeptFrom(s, S, T, n, f[n])
    OBVIOUS
  <2>3. n # 0
    <3>1. f[0] = <<>>
      BY <1>1, <1>2 DEF UpTo
    <3>2. <<>> \in Seq(T) /\ Len(<<>>) = 0 /\ 1..0 = {}
      OBVIOUS
    <3>3. KeptFrom(s, S, T, 0, <<>>)
      BY <3>2 DEF KeptFrom, KeepsOrder
    <3> QED BY <2>2, <3>1, <3>3
  <2>4. n - 1 \in 0..Len(s) /\ n \in 1..Len(s) /\ ~ (n <= n - 1)
    BY <1>1, <2>2, <2>3
  <2>5. KeptFrom(s, S, T, n - 1, f[n - 1])
    BY <2>1, <2>4
  <2>6. f[n] = IF s[n] \in S THEN Append(f[n - 1], s[n]) ELSE f[n - 1]
    BY <1>2, <2>2, <2>3 DEF UpTo
  <2> QED BY <2>2, <2>4, <2>5, <2>6, KeepOne
<1> QED BY <1>1, <1>2, <1>3

-----------------------------------------------------------------------------
(* Kolada's batches.                                                         *)

LEMMA Times ==
  ASSUME NEW a \in Int, NEW b \in Int, a <= b, NEW c \in Nat
  PROVE  a * c <= b * c /\ a * c \in Int /\ b * c \in Int /\ (a + 1) * c = a * c + c
  OBVIOUS

LEMMA Division ==
  ASSUME NEW k \in Nat, NEW p \in Nat \ {0}
  PROVE  /\ k \div p \in Nat /\ k % p \in 0..(p - 1)
         /\ k = (k \div p) * p + (k % p)
<1>1. k \div p \in Nat
  OBVIOUS
<1>2. k % p \in 0..(p - 1)
  OBVIOUS
<1>3. k = p * (k \div p) + (k % p)
  OBVIOUS
<1> DEFINE d == k \div p
<1>4. p * d = d * p
  BY <1>1
<1> QED BY <1>1, <1>2, <1>3, <1>4

LEMMA DivisionIs ==
  ASSUME NEW q \in Nat, NEW p \in Nat \ {0}, NEW r \in 0..(p - 1)
  PROVE  (q * p + r) \div p = q /\ (q * p + r) % p = r
<1> DEFINE k == q * p + r  d == k \div p  m == k % p
<1>1. k \in Nat
  BY Times
<1>2. d \in Nat /\ m \in 0..(p - 1) /\ k = d * p + m
  BY <1>1, Division
<1>3. q * p + r = d * p + m
  BY <1>2
<1> HIDE DEF d, m, k
<1>4. q * p \in Nat /\ d * p \in Nat
  BY <1>2
<1>5. ~ (q < d)
  <2> SUFFICES ASSUME q < d PROVE FALSE
    OBVIOUS
  <2>1. (q + 1) * p <= d * p /\ (q + 1) * p = q * p + p
    BY <1>2, Times
  <2> QED BY <1>2, <1>3, <1>4, <2>1
<1>6. ~ (d < q)
  <2> SUFFICES ASSUME d < q PROVE FALSE
    OBVIOUS
  <2>1. (d + 1) * p <= q * p /\ (d + 1) * p = d * p + p
    BY <1>2, Times
  <2> QED BY <1>2, <1>3, <1>4, <2>1
<1>7. d = q
  BY <1>2, <1>5, <1>6
<1>8. m = r
  BY <1>2, <1>3, <1>4, <1>7
<1> QED BY <1>7, <1>8 DEF d, m, k

\* The places of batch i in a list of n values.
Stretch(n, i) == {k \in 1..n : (i - 1) * Limit < k /\ k <= i * Limit}
Once(s)       == \A i, j \in 1..Len(s) : s[i] = s[j] => i = j

LEMMA StretchFits ==
  ASSUME NEW n \in Nat, NEW i \in Nat \ {0}, Limit \in Nat \ {0}
  PROVE  IsFiniteSet(Stretch(n, i)) /\ Cardinality(Stretch(n, i)) <= Limit
         /\ Cardinality(Stretch(n, i)) \in Nat
<1> DEFINE a == (i - 1) * Limit + 1  b == i * Limit
<1>1. a \in Int /\ b \in Int /\ b = a + Limit - 1
  <2>1. ((i - 1) + 1) * Limit = (i - 1) * Limit + Limit /\ (i - 1) * Limit \in Int
    BY Times
  <2>2. (i - 1) + 1 = i
    OBVIOUS
  <2>3. i * Limit = (i - 1) * Limit + Limit
    BY <2>1, <2>2
  <2> QED BY <2>1, <2>3
<1>2. Stretch(n, i) \subseteq a..b
  <2>1. \A k \in 1..n : (i - 1) * Limit < k => a <= k
    BY <1>1
  <2> QED BY <2>1 DEF Stretch
<1> HIDE DEF a, b
<1>3. IsFiniteSet(a..b) /\ Cardinality(a..b) = Limit
  BY <1>1, FS_Interval
<1> QED BY <1>2, <1>3, FS_Subset, FS_CardinalityType

LEMMA BatchIs ==
  ASSUME NEW T, NEW s \in Seq(T), Limit \in Nat \ {0}
  PROVE  /\ Len(Probe!Batches(s)) \in Nat
         /\ DOMAIN Probe!Batches(s) = 1..Len(Probe!Batches(s))
         /\ \A i \in 1..Len(Probe!Batches(s)) :
              Probe!Elems(Probe!Batches(s)[i]) = {s[k] : k \in Stretch(Len(s), i)}
         /\ \A k \in 1..Len(s) : \E i \in 1..Len(Probe!Batches(s)) : k \in Stretch(Len(s), i)
<1> DEFINE n == Len(s)  m == (n + Limit - 1) \div Limit  B == Probe!Batches(s)
<1>1. n \in Nat /\ n + Limit - 1 \in Nat
  OBVIOUS
<1>2. m \in Nat /\ n + Limit - 1 < (m + 1) * Limit
  <2> DEFINE r == (n + Limit - 1) % Limit
  <2>1. m \in Nat /\ r \in 0..(Limit - 1) /\ n + Limit - 1 = m * Limit + r
    BY <1>1, Division
  <2>2. (m + 1) * Limit = m * Limit + Limit /\ m * Limit \in Int
    BY <2>1, Times
  <2> HIDE DEF m, r
  <2> QED BY <1>1, <2>1, <2>2
<1>3. B = [i \in 1..m |-> SubSeq(s, (i - 1) * Limit + 1, Probe!Least(i * Limit, n))]
  BY DEF Probe!Batches
<1> HIDE DEF m, B
<1>4. Len(B) = m /\ DOMAIN B = 1..m
  BY <1>2, <1>3
<1>5. ASSUME NEW i \in 1..m PROVE Probe!Elems(B[i]) = {s[k] : k \in Stretch(n, i)}
  <2> DEFINE a == (i - 1) * Limit  e == Probe!Least(i * Limit, n)  t == SubSeq(s, a + 1, e)
  <2>1. a \in Nat /\ i * Limit \in Nat
    BY <1>2, Times
  <2>2. e \in Int /\ \A k \in Int : k <= e <=> k <= i * Limit /\ k <= n
    BY <1>1, <2>1 DEF Probe!Least
  <2>3. B[i] = t
    BY <1>3
  <2>4. Stretch(n, i) = (a + 1)..e
    <3>1. ASSUME NEW k \in Int PROVE (k \in 1..n /\ a < k /\ k <= i * Limit) <=> (a + 1 <= k /\ k <= e)
      <4> HIDE DEF a, e
      <4> QED BY <1>1, <2>1, <2>2
    <3> QED BY <3>1 DEF Stretch
  <2>5. \A k \in (a + 1)..e : s[k] \in T
    <3> HIDE DEF a, e
    <3>1. \A k \in (a + 1)..e : k \in 1..n
      BY <1>1, <2>1, <2>2
    <3> QED BY <3>1
  <2> HIDE DEF a, e
  <2>6. /\ Len(t) = IF a + 1 <= e THEN e - (a + 1) + 1 ELSE 0
        /\ \A j \in 1..(e - (a + 1) + 1) : t[j] = s[(a + 1) + j - 1]
    BY <2>1, <2>2, <2>5, SubSeqProperties
  <2> HIDE DEF t
  <2>7. ASSUME NEW j \in 1..Len(t) PROVE \E k \in (a + 1)..e : t[j] = s[k]
    <3>1. (a + 1) + j - 1 \in (a + 1)..e /\ j \in 1..(e - (a + 1) + 1)
      BY <2>1, <2>2, <2>6
    <3> QED BY <2>6, <3>1
  <2>8. ASSUME NEW k \in (a + 1)..e PROVE \E j \in 1..Len(t) : t[j] = s[k]
    <3>1. k - a \in 1..Len(t) /\ k - a \in 1..(e - (a + 1) + 1) /\ (a + 1) + (k - a) - 1 = k
      BY <2>1, <2>2, <2>6
    <3> QED BY <2>6, <3>1
  <2>9. {t[j] : j \in 1..Len(t)} = {s[k] : k \in (a + 1)..e}
    <3>1. \A x : x \in {t[j] : j \in 1..Len(t)} => x \in {s[k] : k \in (a + 1)..e}
      BY <2>7
    <3>2. \A x : x \in {s[k] : k \in (a + 1)..e} => x \in {t[j] : j \in 1..Len(t)}
      BY <2>8
    <3> QED BY <3>1, <3>2
  <2>10. Probe!Elems(t) = {t[j] : j \in 1..Len(t)}
    BY DEF Probe!Elems
  <2> QED BY <2>3, <2>4, <2>9, <2>10
<1>6. ASSUME NEW k \in 1..n PROVE \E i \in 1..m : k \in Stretch(n, i)
  <2> DEFINE q == (k - 1) \div Limit  r == (k - 1) % Limit
  <2>1. q \in Nat /\ r \in 0..(Limit - 1) /\ k - 1 = q * Limit + r /\ k \in Nat
    <3>1. k - 1 \in Nat /\ k \in Nat
      BY <1>1
    <3> QED BY <3>1, Division
  <2> HIDE DEF q, r
  <2>2. (q + 1) * Limit = q * Limit + Limit /\ q * Limit \in Int
    BY <2>1, Times
  <2>3. q * Limit < k /\ k <= (q + 1) * Limit
    BY <2>1, <2>2
  <2>4. q + 1 <= m
    <3>1. ~ (m <= q)
      <4> SUFFICES ASSUME m <= q PROVE FALSE
        OBVIOUS
      <4>1. (m + 1) * Limit <= (q + 1) * Limit /\ (m + 1) * Limit \in Int
        BY <1>2, <2>1, Times
      <4>2. (q + 1) * Limit = k - 1 - r + Limit
        BY <2>1, <2>2
      <4> QED BY <1>1, <1>2, <2>1, <2>2, <4>1, <4>2
    <3> QED BY <1>2, <2>1, <3>1
  <2>5. (q + 1) - 1 = q
    BY <2>1
  <2>6. k \in Stretch(n, q + 1)
    BY <2>1, <2>3, <2>5 DEF Stretch
  <2> QED BY <1>2, <2>1, <2>4, <2>6
<1> QED BY <1>2, <1>4, <1>5, <1>6 DEF B

\* Each value is in one batch, and no batch has more than the limit.
LEMMA BatchesArePartition ==
  ASSUME NEW T, NEW s \in Seq(T), Limit \in Nat \ {0}
  PROVE  /\ \A i \in 1..Len(Probe!Batches(s)) :
              /\ Cardinality(Probe!Elems(Probe!Batches(s)[i])) <= Limit
              /\ Probe!Elems(Probe!Batches(s)[i]) \subseteq Probe!Elems(s)
         /\ \A x \in Probe!Elems(s) :
              \E i \in 1..Len(Probe!Batches(s)) : x \in Probe!Elems(Probe!Batches(s)[i])
         /\ Once(s) => \A i, j \in 1..Len(Probe!Batches(s)) :
              Probe!Elems(Probe!Batches(s)[i]) \cap Probe!Elems(Probe!Batches(s)[j]) # {} => i = j
<1> DEFINE B == Probe!Batches(s)
<1>1. /\ Len(B) \in Nat
      /\ \A i \in 1..Len(B) : Probe!Elems(B[i]) = {s[k] : k \in Stretch(Len(s), i)}
      /\ \A k \in 1..Len(s) : \E i \in 1..Len(B) : k \in Stretch(Len(s), i)
  BY BatchIs
<1> HIDE DEF B
<1>2. Len(s) \in Nat
  OBVIOUS
<1>3. ASSUME NEW i \in 1..Len(B)
      PROVE  Cardinality(Probe!Elems(B[i])) <= Limit /\ Probe!Elems(B[i]) \subseteq Probe!Elems(s)
  <2> DEFINE S == Stretch(Len(s), i)
  <2>1. IsFiniteSet(S) /\ Cardinality(S) <= Limit /\ Cardinality(S) \in Nat /\ S \subseteq 1..Len(s)
    <3>1. i \in Nat \ {0}
      BY <1>1
    <3>2. S \subseteq 1..Len(s)
      BY DEF Stretch
    <3> QED BY <1>2, <3>1, <3>2, StretchFits
  <2> HIDE DEF S
  <2> DEFINE E == {s[k] : k \in S}  f == [k \in S |-> s[k]]
  <2>2. f \in Surjection(S, E)
    BY DEF Surjection
  <2>3. IsFiniteSet(E) /\ Cardinality(E) <= Cardinality(S)
    <3> HIDE DEF E, f
    <3> QED BY <2>1, <2>2, FS_Surjection
  <2>4. Cardinality(E) \in Nat
    BY <2>3, FS_CardinalityType
  <2>5. Probe!Elems(B[i]) = E
    BY <1>1 DEF S
  <2>6. E \subseteq Probe!Elems(s)
    BY <2>1 DEF Probe!Elems
  <2> HIDE DEF E
  <2> QED BY <2>1, <2>3, <2>4, <2>5, <2>6
<1>4. ASSUME NEW x \in Probe!Elems(s) PROVE \E i \in 1..Len(B) : x \in Probe!Elems(B[i])
  <2>1. PICK k \in 1..Len(s) : x = s[k]
    BY DEF Probe!Elems
  <2>2. PICK i \in 1..Len(B) : k \in Stretch(Len(s), i)
    BY <1>1
  <2> QED BY <1>1, <2>1, <2>2
<1>5. ASSUME Once(s), NEW i \in 1..Len(B), NEW j \in 1..Len(B),
             NEW x \in Probe!Elems(B[i]), x \in Probe!Elems(B[j])
      PROVE  i = j
  <2>1. PICK k \in Stretch(Len(s), i) : x = s[k]
    BY <1>1
  <2>2. PICK l \in Stretch(Len(s), j) : x = s[l]
    BY <1>1, <1>5
  <2>3. k \in 1..Len(s) /\ k \in Int /\ k = l
    <3>1. k \in 1..Len(s) /\ l \in 1..Len(s)
      BY DEF Stretch
    <3>2. s[k] = s[l]
      BY <2>1, <2>2
    <3>3. k = l
      BY <1>5, <3>1, <3>2 DEF Once
    <3> QED BY <3>1, <3>3
  <2>4. /\ (i - 1) * Limit < k /\ k <= i * Limit /\ (j - 1) * Limit < k /\ k <= j * Limit
    BY <2>3 DEF Stretch
  <2>5. i \in Nat /\ j \in Nat
    OBVIOUS
  <2>6. ASSUME NEW a \in Nat, NEW b \in Nat, k <= a * Limit, (b - 1) * Limit < k PROVE ~ (a < b)
    <3> SUFFICES ASSUME a < b PROVE FALSE
      OBVIOUS
    <3>1. a * Limit <= (b - 1) * Limit /\ a * Limit \in Int /\ (b - 1) * Limit \in Int
      BY Times
    <3> QED BY <2>3, <2>6, <3>1
  <2>7. ~ (i < j) /\ ~ (j < i)
    BY <2>4, <2>5, <2>6
  <2> QED BY <2>5, <2>7
<1> QED BY <1>3, <1>4, <1>5 DEF B

\* The requests of P ask for each of the areas in each of the years, once.
AsksOnce(P, areas, ys) ==
  /\ Len(P) \in Nat /\ P = [n \in 1..Len(P) |-> P[n]]
  /\ \A n \in 1..Len(P) : P[n].of \subseteq areas /\ P[n].in \subseteq ys
  /\ \A a \in areas, y \in ys : \E n \in 1..Len(P) : a \in P[n].of /\ y \in P[n].in
  /\ \A m, n \in 1..Len(P) : P[m].of \cap P[n].of # {} /\ P[m].in \cap P[n].in # {} => m = n
AsksFew(P) ==
  \A n \in 1..Len(P) : Cardinality(P[n].of) <= Limit /\ Cardinality(P[n].in) <= Limit

RowNo(n, p)    == (n - 1) \div p + 1
ColumnNo(n, p) == ((n - 1) % p) + 1

\* The n-th of m rows of p requests, counted row after row.
LEMMA Rows ==
  ASSUME NEW m \in Nat, NEW p \in Nat, NEW n \in 1..(m * p)
  PROVE  /\ (n - 1) \div p + 1 \in 1..m /\ ((n - 1) % p) + 1 \in 1..p
         /\ n = ((n - 1) \div p) * p + (((n - 1) % p) + 1)
<1> DEFINE q == (n - 1) \div p  r == (n - 1) % p
<1>1. m * p \in Nat
  BY Times
<1>2. p # 0
  <2> SUFFICES ASSUME p = 0 PROVE FALSE
    OBVIOUS
  <2>1. m * 0 = 0
    OBVIOUS
  <2> QED BY <2>1
<1>3. n \in Nat /\ n - 1 \in Nat /\ n <= m * p
  BY <1>1
<1>4. q \in Nat /\ r \in 0..(p - 1) /\ n - 1 = q * p + r
  BY <1>2, <1>3, Division
<1> HIDE DEF q, r
<1>5. q * p \in Nat
  BY <1>4, Times
<1>6. ~ (m <= q)
  <2> SUFFICES ASSUME m <= q PROVE FALSE
    OBVIOUS
  <2>1. m * p <= q * p
    BY <1>4, Times
  <2> QED BY <1>1, <1>3, <1>4, <1>5, <2>1
<1>7. n = q * p + (r + 1)
  BY <1>3, <1>4, <1>5
<1>8. q + 1 \in 1..m /\ r + 1 \in 1..p
  BY <1>4, <1>6
<1> QED BY <1>7, <1>8 DEF q, r

LEMMA RowOf ==
  ASSUME NEW m \in Nat, NEW p \in Nat, NEW i \in 1..m, NEW j \in 1..p
  PROVE  \E n \in 1..(m * p) : RowNo(n, p) = i /\ ColumnNo(n, p) = j
<1> DEFINE q == i - 1  r == j - 1  k == q * p + r
<1>1. q \in Nat /\ r \in 0..(p - 1) /\ p \in Nat \ {0} /\ q + 1 <= m /\ q + 1 \in Int
  OBVIOUS
<1>2. k \div p = q /\ k % p = r
  <2> HIDE DEF q, r
  <2> QED BY <1>1, DivisionIs
<1>3. q + 1 = i /\ r + 1 = j
  OBVIOUS
<1> HIDE DEF q, r
<1>4. q * p \in Nat /\ (q + 1) * p = q * p + p /\ (q + 1) * p <= m * p /\ m * p \in Nat
  BY <1>1, Times
<1>5. k \in Nat /\ k + 1 \in 1..(m * p)
  BY <1>1, <1>4
<1> HIDE DEF k
<1>6. (k + 1) - 1 = k
  BY <1>5
<1>7. RowNo(k + 1, p) = i /\ ColumnNo(k + 1, p) = j
  BY <1>2, <1>3, <1>6 DEF RowNo, ColumnNo
<1> QED BY <1>5, <1>7

LEMMA PairsAskOnce ==
  ASSUME NEW T, NEW U, NEW areas \in Seq(T), NEW ys \in Seq(U), Limit \in Nat \ {0},
         Once(areas), Once(ys)
  PROVE  /\ AsksOnce(Probe!Pairs(areas, ys), Probe!Elems(areas), Probe!Elems(ys))
         /\ AsksFew(Probe!Pairs(areas, ys))
<1> DEFINE A == Probe!Batches(areas)  Y == Probe!Batches(ys)  P == Probe!Pairs(areas, ys)
           a(n) == (n - 1) \div Len(Y) + 1
           y(n) == ((n - 1) % Len(Y)) + 1
<1>1. Len(A) \in Nat /\ Len(Y) \in Nat
  BY BatchIs
<1>2. /\ \A i \in 1..Len(A) : Cardinality(Probe!Elems(A[i])) <= Limit
                              /\ Probe!Elems(A[i]) \subseteq Probe!Elems(areas)
      /\ \A x \in Probe!Elems(areas) : \E i \in 1..Len(A) : x \in Probe!Elems(A[i])
      /\ \A i, j \in 1..Len(A) : Probe!Elems(A[i]) \cap Probe!Elems(A[j]) # {} => i = j
  BY BatchesArePartition
<1>3. /\ \A i \in 1..Len(Y) : Cardinality(Probe!Elems(Y[i])) <= Limit
                              /\ Probe!Elems(Y[i]) \subseteq Probe!Elems(ys)
      /\ \A x \in Probe!Elems(ys) : \E i \in 1..Len(Y) : x \in Probe!Elems(Y[i])
      /\ \A i, j \in 1..Len(Y) : Probe!Elems(Y[i]) \cap Probe!Elems(Y[j]) # {} => i = j
  BY BatchesArePartition
<1>4. P = [n \in 1..(Len(A) * Len(Y)) |-> [of |-> Probe!Elems(A[a(n)]), in |-> Probe!Elems(Y[y(n)])]]
  BY DEF Probe!Pairs
<1> HIDE DEF A, Y, P
<1>5. Len(A) * Len(Y) \in Nat
  BY <1>1
<1>6. Len(P) = Len(A) * Len(Y) /\ P = [n \in 1..Len(P) |-> P[n]]
  BY <1>4, <1>5
<1>7. ASSUME NEW n \in 1..Len(P)
      PROVE  /\ a(n) \in 1..Len(A) /\ y(n) \in 1..Len(Y) /\ n = (a(n) - 1) * Len(Y) + y(n)
             /\ P[n].of = Probe!Elems(A[a(n)]) /\ P[n].in = Probe!Elems(Y[y(n)])
  <2>1. n \in 1..(Len(A) * Len(Y))
    BY <1>6
  <2>2. P[n].of = Probe!Elems(A[a(n)]) /\ P[n].in = Probe!Elems(Y[y(n)])
    BY <1>4, <2>1
  <2> DEFINE q == (n - 1) \div Len(Y)
  <2>3. q + 1 \in 1..Len(A) /\ y(n) \in 1..Len(Y) /\ n = q * Len(Y) + y(n) /\ q \in Nat
    <3>1. q + 1 \in 1..Len(A) /\ y(n) \in 1..Len(Y) /\ n = q * Len(Y) + y(n)
      BY <1>1, <2>1, Rows
    <3>2. Len(Y) # 0 /\ n - 1 \in Nat
      <4> HIDE DEF q, y
      <4>1. Len(Y) # 0
        BY <1>1, <3>1
      <4> QED BY <1>5, <2>1, <4>1
    <3>3. q \in Nat
      BY <1>1, <3>2, Division
    <3> QED BY <3>1, <3>3
  <2>4. a(n) = q + 1
    OBVIOUS
  <2> HIDE DEF q, y, a
  <2>5. a(n) - 1 = q
    BY <2>3, <2>4
  <2> QED BY <2>2, <2>3, <2>4, <2>5
<1>8. ASSUME NEW i \in 1..Len(A), NEW j \in 1..Len(Y)
      PROVE  \E n \in 1..Len(P) : a(n) = i /\ y(n) = j
  <2>1. \E n \in 1..(Len(A) * Len(Y)) : RowNo(n, Len(Y)) = i /\ ColumnNo(n, Len(Y)) = j
    <3>1. \A m \in Nat, p \in Nat : \A u \in 1..m, v \in 1..p :
            \E n \in 1..(m * p) : RowNo(n, p) = u /\ ColumnNo(n, p) = v
      BY RowOf
    <3> DEFINE la == Len(A)  ly == Len(Y)
    <3>2. la \in Nat /\ ly \in Nat /\ i \in 1..la /\ j \in 1..ly
      BY <1>1
    <3> HIDE DEF la, ly
    <3>3. \A u \in 1..la, v \in 1..ly : \E n \in 1..(la * ly) : RowNo(n, ly) = u /\ ColumnNo(n, ly) = v
      BY <3>1, <3>2
    <3>4. \E n \in 1..(la * ly) : RowNo(n, ly) = i /\ ColumnNo(n, ly) = j
      BY <3>2, <3>3
    <3> QED BY <3>4 DEF la, ly
  <2> QED BY <1>6, <2>1 DEF RowNo, ColumnNo
<1> HIDE DEF a, y
<1>9. AsksFew(P)
  BY <1>2, <1>3, <1>7 DEF AsksFew
<1>10. ASSUME NEW n \in 1..Len(P)
       PROVE  P[n].of \subseteq Probe!Elems(areas) /\ P[n].in \subseteq Probe!Elems(ys)
  <2>1. /\ a(n) \in 1..Len(A) /\ y(n) \in 1..Len(Y)
        /\ P[n].of = Probe!Elems(A[a(n)]) /\ P[n].in = Probe!Elems(Y[y(n)])
    BY <1>7
  <2>2. Probe!Elems(A[a(n)]) \subseteq Probe!Elems(areas)
    BY <1>2, <2>1
  <2>3. Probe!Elems(Y[y(n)]) \subseteq Probe!Elems(ys)
    BY <1>3, <2>1
  <2> QED BY <2>1, <2>2, <2>3
<1>11. ASSUME NEW x \in Probe!Elems(areas), NEW z \in Probe!Elems(ys)
       PROVE  \E n \in 1..Len(P) : x \in P[n].of /\ z \in P[n].in
  <2>1. PICK i \in 1..Len(A) : x \in Probe!Elems(A[i])
    BY <1>2
  <2>2. PICK j \in 1..Len(Y) : z \in Probe!Elems(Y[j])
    BY <1>3
  <2>3. PICK n \in 1..Len(P) : a(n) = i /\ y(n) = j
    BY <1>8
  <2> QED BY <1>7, <2>1, <2>2, <2>3
<1>12. ASSUME NEW m \in 1..Len(P), NEW n \in 1..Len(P),
              P[m].of \cap P[n].of # {}, P[m].in \cap P[n].in # {}
       PROVE  m = n
  <2>1. a(m) = a(n)
    BY <1>2, <1>7, <1>12
  <2>2. y(m) = y(n)
    BY <1>3, <1>7, <1>12
  <2> QED BY <1>7, <2>1, <2>2
<1> QED BY <1>5, <1>6, <1>9, <1>10, <1>11, <1>12 DEF AsksOnce, P

LEMMA YearByYearAsksOnce ==
  ASSUME NEW U, NEW ys \in Seq(U), Once(ys)
  PROVE  AsksOnce(Probe!YearByYear(ys), Units, Probe!Elems(ys))
<1> DEFINE P == Probe!YearByYear(ys)
<1>1. P = [n \in 1..Len(ys) |-> [of |-> Units, in |-> {ys[n]}]] /\ Len(ys) \in Nat
  BY DEF Probe!YearByYear
<1> HIDE DEF P
<1>2. Len(P) = Len(ys) /\ P = [n \in 1..Len(P) |-> P[n]]
  BY <1>1
<1>3. \A n \in 1..Len(P) : P[n].of = Units /\ P[n].in = {ys[n]}
  BY <1>1, <1>2
<1>4. \A n \in 1..Len(P) : P[n].of \subseteq Units /\ P[n].in \subseteq Probe!Elems(ys)
  BY <1>2, <1>3 DEF Probe!Elems
<1>5. \A u \in Units, y \in Probe!Elems(ys) : \E n \in 1..Len(P) : u \in P[n].of /\ y \in P[n].in
  BY <1>2, <1>3 DEF Probe!Elems
<1>6. \A m, n \in 1..Len(P) : P[m].in \cap P[n].in # {} => m = n
  BY <1>2, <1>3 DEF Once
<1> QED BY <1>1, <1>2, <1>4, <1>5, <1>6 DEF AsksOnce, P

-----------------------------------------------------------------------------
(* The plan of a probe.                                                      *)

Named(S) == {m.id : m \in S}

\* Probe has its own copy of what Filtering and FiniteSets define.
LEMMA SameInProbe ==
  /\ \A s, S : Probe!Only(s, S) = Only(s, S)
  /\ \A S : Probe!Cardinality(S) = Cardinality(S)
<1>1. \A s, S : Probe!Only(s, S) = Only(s, S)
  BY DEF Probe!Only, Only
<1>2. \A S : Probe!Cardinality(S) = Cardinality(S)
  BY DEF Probe!Cardinality, Cardinality
<1> QED BY <1>1, <1>2

LEMMA IdsOfKept ==
  ASSUME NEW T, NEW c \in Seq(T), NEW S, NEW t, KeptFrom(c, S, T, Len(c), t),
         \A i, j \in 1..Len(c) : c[i].id = c[j].id => i = j
  PROVE  /\ Probe!Ids(t) \in Seq(Named(Probe!Elems(c))) /\ Once(Probe!Ids(t))
         /\ Probe!Elems(Probe!Ids(t)) = Named(Probe!Elems(c) \cap S)
<1> DEFINE u == Probe!Ids(t)
<1>1. /\ Len(t) \in Nat /\ Len(c) \in Nat
      /\ \A i \in 1..Len(t) : \E k \in 1..Len(c) : c[k] = t[i] /\ c[k] \in S
      /\ \A k \in 1..Len(c) : c[k] \in S => \E i \in 1..Len(t) : t[i] = c[k]
      /\ \A i, j \in 1..Len(t) : i < j =>
           \E k, l \in 1..Len(c) : k < l /\ c[k] = t[i] /\ c[l] = t[j]
  BY DEF KeptFrom, KeepsOrder
<1>2. u = [i \in 1..Len(t) |-> t[i].id]
  BY DEF Probe!Ids
<1> HIDE DEF u
<1>3. Len(u) = Len(t) /\ \A i \in 1..Len(u) : u[i] = t[i].id
  BY <1>1, <1>2
<1>4. ASSUME NEW i \in 1..Len(t)
      PROVE  t[i].id \in Named(Probe!Elems(c)) /\ t[i].id \in Named(Probe!Elems(c) \cap S)
  <2>1. PICK k \in 1..Len(c) : c[k] = t[i] /\ c[k] \in S
    BY <1>1
  <2>2. c[k] \in Probe!Elems(c)
    BY DEF Probe!Elems
  <2> QED BY <2>1, <2>2 DEF Named
<1>5. u \in Seq(Named(Probe!Elems(c)))
  BY <1>1, <1>2, <1>4
<1>6. ASSUME NEW i \in 1..Len(t), NEW j \in 1..Len(t), i < j PROVE t[i].id # t[j].id
  <2>1. PICK k, l \in 1..Len(c) : k < l /\ c[k] = t[i] /\ c[l] = t[j]
    BY <1>1, <1>6
  <2>2. k # l
    BY <1>1, <2>1
  <2>3. c[k].id # c[l].id
    BY <2>2
  <2> QED BY <2>1, <2>3
<1>7. Once(u)
  BY <1>1, <1>3, <1>6 DEF Once
<1>8. ASSUME NEW m \in Probe!Elems(c) \cap S PROVE m.id \in Probe!Elems(u)
  <2>1. PICK k \in 1..Len(c) : c[k] = m
    BY DEF Probe!Elems
  <2>2. PICK i \in 1..Len(t) : t[i] = m
    BY <1>1, <2>1
  <2> QED BY <1>3, <2>2 DEF Probe!Elems
<1>9. Probe!Elems(u) = Named(Probe!Elems(c) \cap S)
  <2>1. ASSUME NEW x \in Probe!Elems(u) PROVE x \in Named(Probe!Elems(c) \cap S)
    <3>1. PICK i \in 1..Len(u) : x = u[i]
      BY DEF Probe!Elems
    <3> QED BY <1>3, <1>4, <3>1
  <2>2. ASSUME NEW x \in Named(Probe!Elems(c) \cap S) PROVE x \in Probe!Elems(u)
    <3>1. PICK m \in Probe!Elems(c) \cap S : x = m.id
      BY DEF Named
    <3> QED BY <1>8, <3>1
  <2> QED BY <2>1, <2>2
<1> QED BY <1>5, <1>7, <1>9 DEF u

\* The areas of one type, and all areas.
LEMMA OfTypeIs ==
  ASSUME Probe!ProbeAssumption, catalogue \in Catalogues
  PROVE  /\ \A k : /\ Probe!OfType(k) \in Seq(Named(Probe!Elems(catalogue))) /\ Once(Probe!OfType(k))
                   /\ Probe!Elems(Probe!OfType(k)) = Named({m \in Probe!Elems(catalogue) : m.type = k})
         /\ Probe!Ids(catalogue) \in Seq(Named(Probe!Elems(catalogue))) /\ Once(Probe!Ids(catalogue))
         /\ Probe!Elems(Probe!Ids(catalogue)) = Named(Probe!Elems(catalogue))
<1> DEFINE E == Probe!Elems(catalogue)
<1>1. catalogue \in Seq(E) /\ \A i, j \in 1..Len(catalogue) : catalogue[i].id = catalogue[j].id => i = j
  BY DEF Probe!ProbeAssumption
<1> HIDE DEF E
<1>2. ASSUME NEW k
      PROVE  /\ Probe!OfType(k) \in Seq(Named(E)) /\ Once(Probe!OfType(k))
             /\ Probe!Elems(Probe!OfType(k)) = Named({m \in E : m.type = k})
  <2> DEFINE S == {m \in E : m.type = k}  t == Only(catalogue, S)
  <2>1. Probe!OfType(k) = Probe!Ids(t)
    BY SameInProbe DEF Probe!OfType, E
  <2>2. E \cap S = S
    OBVIOUS
  <2> HIDE DEF S
  <2>3. KeptFrom(catalogue, S, E, Len(catalogue), t)
    BY <1>1, OnlyKeeps
  <2> HIDE DEF t
  <2>4. /\ Probe!Ids(t) \in Seq(Named(E)) /\ Once(Probe!Ids(t))
        /\ Probe!Elems(Probe!Ids(t)) = Named(E \cap S)
    BY <1>1, <2>3, IdsOfKept DEF E
  <2> QED BY <2>1, <2>2, <2>4 DEF S
<1>3. KeptFrom(catalogue, E, E, Len(catalogue), catalogue)
  BY <1>1 DEF KeptFrom, KeepsOrder
<1>4. /\ Probe!Ids(catalogue) \in Seq(Named(E)) /\ Once(Probe!Ids(catalogue))
      /\ Probe!Elems(Probe!Ids(catalogue)) = Named(E)
  <2>1. /\ Probe!Ids(catalogue) \in Seq(Named(E)) /\ Once(Probe!Ids(catalogue))
        /\ Probe!Elems(Probe!Ids(catalogue)) = Named(E \cap E)
    BY <1>1, <1>3, IdsOfKept DEF E
  <2> QED BY <2>1
<1> QED BY <1>2, <1>4 DEF E

Askable == ~ (kind = "data" /\ type = "other")

\* The candidates are the areas a KPI of the type reports for, once each.
LEMMA CandidatesAreReported ==
  ASSUME Probe!ProbeAssumption, catalogue \in Catalogues, kind = "data", type \in {"K", "L", "A"}
  PROVE  /\ Once(Probe!Candidates) /\ Probe!Elems(Probe!Candidates) = Probe!Reported
         /\ \E T : Probe!Candidates \in Seq(T)
<1> DEFINE E == Probe!Elems(catalogue)  C == Probe!Candidates  k == Probe!OfType("K")
<1>1. Probe!Reported =
        Named({c \in E : type = "A" \/ c.type = type \/ (type = "K" /\ c.id = Riket)})
  BY DEF Probe!Reported, Named
<1>2. CASE type # "K"
  <2>1. C = IF type = "A" THEN Probe!Ids(catalogue) ELSE Probe!OfType("L")
    BY <1>2 DEF Probe!Candidates, Probe!WithoutRiket
  <2>2. Probe!Reported = IF type = "A" THEN Named(E) ELSE Named({m \in E : m.type = "L"})
    <3> HIDE DEF E
    <3>1. CASE type = "A"
      <4>1. {c \in E : type = "A" \/ c.type = type \/ (type = "K" /\ c.id = Riket)} = E
        BY <3>1
      <4> QED BY <1>1, <3>1, <4>1
    <3>2. CASE type = "L"
      <4>1. {c \in E : type = "A" \/ c.type = type \/ (type = "K" /\ c.id = Riket)} = {m \in E : m.type = "L"}
        BY <3>2
      <4> QED BY <1>1, <3>2, <4>1
    <3> QED BY <1>2, <3>1, <3>2
  <2> QED BY <2>1, <2>2, OfTypeIs
<1>3. CASE type = "K"
  <2>1. C = IF Riket \in Probe!Elems(Probe!Ids(catalogue)) \ Probe!Elems(k) THEN Append(k, Riket) ELSE k
    BY <1>3 DEF Probe!Candidates, Probe!WithoutRiket
  <2>2. /\ k \in Seq(Named(E)) /\ Once(k) /\ Probe!Elems(k) = Named({m \in E : m.type = "K"})
        /\ Probe!Elems(Probe!Ids(catalogue)) = Named(E)
    BY OfTypeIs
  <2> HIDE DEF E, C, k
  <2>3. \A x : x \in Probe!Reported <=> (x \in Named({m \in E : m.type = "K"}) \/ (x = Riket /\ x \in Named(E)))
    BY <1>1, <1>3 DEF Named
  <2>4. CASE Riket \in Named(E) \ Probe!Elems(k)
    <3>1. C = Append(k, Riket) /\ Riket \in Named(E)
      BY <2>1, <2>2, <2>4
    <3>2. /\ C \in Seq(Named(E)) /\ Len(C) = Len(k) + 1 /\ C[Len(C)] = Riket /\ Len(k) \in Nat
          /\ \A i \in 1..Len(k) : C[i] = k[i] /\ i \in 1..Len(C)
          /\ \A i \in 1..Len(C) : i = Len(C) \/ i \in 1..Len(k)
          /\ Len(C) \in 1..Len(C)
      BY <2>2, <3>1
    <3>3. \A i \in 1..Len(k) : k[i] # Riket
      BY <2>4 DEF Probe!Elems
    <3>4. Once(C)
      BY <2>2, <3>2, <3>3 DEF Once
    <3>5. \A x : x \in Probe!Elems(C) <=> (x \in Probe!Elems(k) \/ x = Riket)
      BY <3>2 DEF Probe!Elems
    <3>6. Probe!Elems(C) = Probe!Reported
      BY <2>2, <2>3, <2>4, <3>5
    <3> QED BY <3>2, <3>4, <3>6 DEF C
  <2>5. CASE Riket \notin Named(E) \ Probe!Elems(k)
    <3>1. C = k
      BY <2>1, <2>2, <2>5
    <3>2. Riket \in Named(E) => Riket \in Probe!Elems(k)
      BY <2>5
    <3>3. \A x : x \in Probe!Reported <=> x \in Probe!Elems(k)
      BY <2>2, <2>3, <3>2
    <3>4. Probe!Elems(k) = Probe!Reported
      BY <3>3
    <3> QED BY <2>2, <3>1, <3>4 DEF C
  <2> QED BY <2>4, <2>5
<1> QED BY <1>2, <1>3

LEMMA YearsAre ==
  ASSUME NEW y \in Nat, Last \in Nat
  PROVE  /\ Probe!YearsFrom(y) \in Seq(Int) /\ Once(Probe!YearsFrom(y))
         /\ Probe!Elems(Probe!YearsFrom(y)) = y..Last
<1> DEFINE s == Probe!YearsFrom(y)  n == IF y <= Last THEN Last - y + 1 ELSE 0
<1>1. s = [i \in 1..n |-> y + i - 1] /\ n \in Nat
  BY DEF Probe!YearsFrom
<1>2. n = IF y <= Last THEN Last - y + 1 ELSE 0
  OBVIOUS
<1> HIDE DEF s, n
<1>3. s \in Seq(Int) /\ Len(s) = n /\ \A i \in 1..Len(s) : s[i] = y + i - 1
  BY <1>1
<1>4. Once(s)
  BY <1>1, <1>3 DEF Once
<1>5. ASSUME NEW x \in y..Last PROVE x \in Probe!Elems(s)
  <2>1. (x - y + 1) \in 1..Len(s) /\ x = y + (x - y + 1) - 1
    BY <1>1, <1>2, <1>3
  <2> DEFINE i == x - y + 1
  <2>2. i \in 1..Len(s) /\ x = y + i - 1
    BY <2>1
  <2> HIDE DEF i
  <2>3. s[i] = x
    BY <1>3, <2>2
  <2> QED BY <2>2, <2>3 DEF Probe!Elems
<1>6. ASSUME NEW x \in Probe!Elems(s) PROVE x \in y..Last
  <2>1. PICK i \in 1..Len(s) : x = s[i]
    BY DEF Probe!Elems
  <2> QED BY <1>1, <1>2, <1>3, <2>1
<1>7. Probe!Elems(s) = y..Last
  BY <1>5, <1>6
<1> QED BY <1>3, <1>4, <1>7 DEF s

\* The plan asks for every area or unit in every year, once, a batch at a time.
LEMMA PlanIs ==
  ASSUME Probe!ProbeAssumption, catalogue \in Catalogues, kind \in {"data", "oudata", "changes"},
         type \in {"K", "L", "A", "other"}, Askable
  PROVE  /\ AsksOnce(Probe!Plan, Probe!Reported, Probe!Asked)
         /\ kind # "oudata" => AsksFew(Probe!Plan)
<1>1. /\ First \in Nat /\ Last \in Nat /\ FirstChange \in Nat /\ Limit \in Nat \ {0}
  BY DEF Probe!ProbeAssumption
<1>2. CASE kind = "data"
  <2>1. /\ Probe!Plan = Probe!Pairs(Probe!Candidates, Probe!YearsFrom(First))
        /\ Probe!Asked = First..Last /\ type \in {"K", "L", "A"}
    BY <1>2 DEF Probe!Plan, Probe!Asked, Probe!Year, Askable
  <2>2. PICK T : Probe!Candidates \in Seq(T)
    BY <1>2, <2>1, CandidatesAreReported
  <2>3. Once(Probe!Candidates) /\ Probe!Elems(Probe!Candidates) = Probe!Reported
    BY <1>2, <2>1, CandidatesAreReported
  <2>4. /\ Probe!YearsFrom(First) \in Seq(Int) /\ Once(Probe!YearsFrom(First))
        /\ Probe!Elems(Probe!YearsFrom(First)) = First..Last
    BY <1>1, YearsAre
  <2>5. /\ AsksOnce(Probe!Pairs(Probe!Candidates, Probe!YearsFrom(First)),
                    Probe!Elems(Probe!Candidates), Probe!Elems(Probe!YearsFrom(First)))
        /\ AsksFew(Probe!Pairs(Probe!Candidates, Probe!YearsFrom(First)))
    BY <1>1, <2>2, <2>3, <2>4, PairsAskOnce
  <2> QED BY <2>1, <2>3, <2>4, <2>5
<1>3. CASE kind = "oudata"
  <2>1. /\ Probe!Plan = Probe!YearByYear(Probe!YearsFrom(First))
        /\ Probe!Asked = First..Last /\ Probe!Reported = Units
    BY <1>3 DEF Probe!Plan, Probe!Asked, Probe!Year, Probe!Reported
  <2>2. /\ Probe!YearsFrom(First) \in Seq(Int) /\ Once(Probe!YearsFrom(First))
        /\ Probe!Elems(Probe!YearsFrom(First)) = First..Last
    BY <1>1, YearsAre
  <2>3. AsksOnce(Probe!YearByYear(Probe!YearsFrom(First)), Units, Probe!Elems(Probe!YearsFrom(First)))
    BY <2>2, YearByYearAsksOnce
  <2> QED BY <1>3, <2>1, <2>2, <2>3
<1>4. CASE kind = "changes"
  <2>1. /\ Probe!Plan = Probe!Pairs(Probe!Ids(catalogue), Probe!YearsFrom(FirstChange))
        /\ Probe!Asked = FirstChange..Last /\ Probe!Reported = Probe!Elems(Probe!Ids(catalogue))
    BY <1>4 DEF Probe!Plan, Probe!Asked, Probe!Reported
  <2>2. /\ Probe!YearsFrom(FirstChange) \in Seq(Int) /\ Once(Probe!YearsFrom(FirstChange))
        /\ Probe!Elems(Probe!YearsFrom(FirstChange)) = FirstChange..Last
    BY <1>1, YearsAre
  <2>3. Probe!Ids(catalogue) \in Seq(Named(Probe!Elems(catalogue))) /\ Once(Probe!Ids(catalogue))
    BY OfTypeIs
  <2>4. /\ AsksOnce(Probe!Pairs(Probe!Ids(catalogue), Probe!YearsFrom(FirstChange)),
                    Probe!Elems(Probe!Ids(catalogue)), Probe!Elems(Probe!YearsFrom(FirstChange)))
        /\ AsksFew(Probe!Pairs(Probe!Ids(catalogue), Probe!YearsFrom(FirstChange)))
    BY <1>1, <2>2, <2>3, PairsAskOnce
  <2> QED BY <2>1, <2>2, <2>4
<1> QED BY <1>2, <1>3, <1>4

-----------------------------------------------------------------------------
(* What a probe finds.                                                       *)

\* The requests in s are the plan's from its n-th on.
FromPlan(s, n) ==
  /\ s \in Seq(Probe!Elems(Probe!Plan))
  /\ \A i \in 1..Len(s) : n + i \in 1..Len(Probe!Plan) /\ s[i] = Probe!Plan[n + i]
Found == UNION {Probe!Present(asked[i]) : i \in 1..Len(asked)}

ProbeTypes ==
  /\ kind \in {"data", "oudata", "changes"} /\ type \in {"K", "L", "A", "other"}
  /\ catalogue \in Catalogues /\ bpc \in {"start", "asking", "built", "failed"}
\* Behind lie the plan's first requests, ahead its last.
Behind == /\ bpc \in {"start", "asking", "built", "failed"}
          /\ IF Askable THEN FromPlan(asked, 0) ELSE asked = <<>>
Ahead  == /\ bpc = "start" => asked = <<>>
          /\ bpc \in {"asking", "built"} =>
               Askable /\ FromPlan(todo, Len(asked)) /\ Len(asked) + Len(todo) = Len(Probe!Plan)
          /\ bpc = "built" => todo = <<>>
WhatIsFound == years = {e[2] : e \in Found} /\ found = {e[1] : e \in Found}
WhatIsBuilt ==
  bpc = "built" =>
    /\ kind # "changes" => years # {} /\ found # {}
    /\ result = IF kind = "changes" THEN [kind |-> kind, changed |-> found # {}]
                ELSE [kind |-> kind, ids |-> found, years |-> years,
                      first |-> Probe!Earliest, last |-> Probe!Latest]
ProbeInv == ProbeTypes /\ Behind /\ Ahead /\ WhatIsFound /\ WhatIsBuilt

LEMMA PlanStays ==
  UNCHANGED Probe!world =>
    Probe!Plan' = Probe!Plan /\ Probe!Reported' = Probe!Reported /\ Probe!Asked' = Probe!Asked
    /\ Askable' = Askable /\ \A b : Probe!Present(b)' = Probe!Present(b)
<1> SUFFICES ASSUME UNCHANGED Probe!world
             PROVE  Probe!Plan' = Probe!Plan /\ Probe!Reported' = Probe!Reported
                    /\ Probe!Asked' = Probe!Asked /\ Askable' = Askable
                    /\ \A b : Probe!Present(b)' = Probe!Present(b)
  OBVIOUS
<1>1. kind' = kind /\ type' = type /\ catalogue' = catalogue /\ valued' = valued /\ empty' = empty
  BY DEF Probe!world
<1>2. \A k : Probe!OfType(k)' = Probe!OfType(k)
  BY <1>1 DEF Probe!OfType
<1>3. Probe!Candidates' = Probe!Candidates
  BY <1>1, <1>2 DEF Probe!Candidates, Probe!WithoutRiket
<1>4. Probe!Plan' = Probe!Plan
  BY <1>1, <1>3 DEF Probe!Plan
<1>5. Probe!Reported' = Probe!Reported /\ Probe!Asked' = Probe!Asked /\ Askable' = Askable
  BY <1>1 DEF Probe!Reported, Probe!Asked, Askable
<1>6. \A b : Probe!Present(b)' = Probe!Present(b)
  BY <1>1 DEF Probe!Present, Probe!Entries
<1> QED BY <1>4, <1>5, <1>6

LEMMA ProbeInitInv == Probe!Init => ProbeInv
<1> SUFFICES ASSUME Probe!Init PROVE ProbeInv
  OBVIOUS
<1>1. ProbeTypes
  BY DEF Probe!Init, ProbeTypes
<1>2. asked = <<>> /\ todo = <<>> /\ bpc = "start" /\ years = {} /\ found = {}
  BY DEF Probe!Init
<1>3. <<>> \in Seq(Probe!Elems(Probe!Plan)) /\ Len(<<>>) = 0 /\ 1..0 = {}
  OBVIOUS
<1>4. Behind /\ Ahead
  BY <1>2, <1>3 DEF Behind, Ahead, FromPlan
<1>5. Found = {}
  BY <1>2, <1>3 DEF Found
<1>6. WhatIsFound /\ WhatIsBuilt
  BY <1>2, <1>5 DEF WhatIsFound, WhatIsBuilt
<1> QED BY <1>1, <1>4, <1>6 DEF ProbeInv

LEMMA ProbeStepInv ==
  ASSUME Probe!ProbeAssumption, ProbeInv, [Probe!Next]_Probe!vars
  PROVE  ProbeInv'
<1> DEFINE P == Probe!Plan
<1>1. UNCHANGED Probe!world
  BY DEF Probe!Next, Probe!Start, Probe!Ask, Probe!AskFails, Probe!Finish, Probe!vars
<1>2. P' = P /\ Askable' = Askable /\ \A b : Probe!Present(b)' = Probe!Present(b)
  BY <1>1, PlanStays
<1>3. ProbeTypes'
  <2>1. bpc' \in {"start", "asking", "built", "failed"}
    BY DEF ProbeInv, ProbeTypes, Probe!Next, Probe!Start, Probe!Ask, Probe!AskFails, Probe!Finish, Probe!vars
  <2> QED BY <1>1, <2>1 DEF ProbeInv, ProbeTypes, Probe!world
<1> HIDE DEF P
<1>4. ASSUME NEW s, NEW n, s' = s, n' = n PROVE FromPlan(s, n)' <=> FromPlan(s, n)
  BY <1>2, <1>4 DEF FromPlan, P
<1>5. asked' = asked => (Found' = Found /\ Behind' )
  <2> SUFFICES ASSUME asked' = asked PROVE Found' = Found /\ Behind'
    OBVIOUS
  <2>1. Found' = Found
    BY <1>2 DEF Found
  <2>2. Behind'
    BY <1>2, <1>3 DEF ProbeInv, Behind, FromPlan, P, ProbeTypes
  <2> QED BY <2>1, <2>2
<1>6. CASE Probe!Start
  <2>1. bpc = "start" /\ asked = <<>> /\ asked' = asked /\ years' = years /\ found' = found
    BY <1>6 DEF Probe!Start, ProbeInv, Ahead
  <2>2. Ahead'
    <3>1. CASE bpc' = "failed"
      BY <3>1 DEF Ahead
    <3>2. CASE bpc' # "failed"
      <4>1. bpc' = "asking" /\ todo' = P /\ Askable
        BY <1>6, <3>2 DEF Probe!Start, Askable, P
      <4>2. Len(P) \in Nat /\ P = [n \in 1..Len(P) |-> P[n]]
        BY <4>1, PlanIs DEF ProbeInv, ProbeTypes, AsksOnce, P
      <4>3. P \in Seq(Probe!Elems(P))
        BY <4>2 DEF Probe!Elems
      <4>4. FromPlan(P, 0)
        BY <4>2, <4>3 DEF FromPlan, P
      <4>5. Len(asked) = 0 /\ Len(asked') = 0 /\ 0 + Len(P) = Len(P)
        BY <2>1, <4>2
      <4>6. FromPlan(todo, Len(asked))'
        BY <1>2, <4>1, <4>4, <4>5 DEF FromPlan, P
      <4> QED BY <1>2, <4>1, <4>5, <4>6 DEF Ahead, P
    <3> QED BY <3>1, <3>2
  <2>3. WhatIsFound' /\ WhatIsBuilt'
    BY <1>5, <1>6, <2>1 DEF ProbeInv, WhatIsFound, WhatIsBuilt, Probe!Start
  <2> QED BY <1>3, <1>5, <2>1, <2>2, <2>3 DEF ProbeInv
<1>7. CASE Probe!Ask
  <2> DEFINE b == Head(todo)
  <2>1. /\ bpc = "asking" /\ bpc' = "asking" /\ Askable
        /\ todo \in Seq(Probe!Elems(P)) /\ todo # <<>> /\ asked \in Seq(Probe!Elems(P))
        /\ Len(asked) + Len(todo) = Len(P)
        /\ \A i \in 1..Len(asked) : 0 + i \in 1..Len(P) /\ asked[i] = P[0 + i]
        /\ \A i \in 1..Len(todo) : Len(asked) + i \in 1..Len(P) /\ todo[i] = P[Len(asked) + i]
    BY <1>7 DEF Probe!Ask, ProbeInv, Behind, Ahead, FromPlan, P
  <2>2. asked' = Append(asked, b) /\ todo' = Tail(todo)
    BY <1>7 DEF Probe!Ask
  <2>3. b = P[Len(asked) + 1] /\ b \in Probe!Elems(P) /\ Len(asked) + 1 \in 1..Len(P)
        /\ Len(asked) \in Nat /\ Len(todo) \in Nat
    BY <2>1
  <2> HIDE DEF b
  <2>4. /\ asked' \in Seq(Probe!Elems(P)) /\ Len(asked') = Len(asked) + 1
        /\ asked'[Len(asked) + 1] = b
        /\ \A i \in 1..Len(asked) : asked'[i] = asked[i]
        /\ \A i \in 1..Len(asked') : i \in 1..Len(asked) \/ i = Len(asked) + 1
        /\ \A i \in 1..Len(asked) : i \in 1..Len(asked')
        /\ Len(asked) + 1 \in 1..Len(asked')
    BY <2>1, <2>2, <2>3
  <2>5. /\ todo' \in Seq(Probe!Elems(P)) /\ Len(todo') = Len(todo) - 1
        /\ \A i \in 1..Len(todo') : todo'[i] = todo[i + 1] /\ i + 1 \in 1..Len(todo)
    BY <2>1, <2>2, <2>3
  <2>6. \A i \in 1..Len(asked') : 0 + i \in 1..Len(P) /\ asked'[i] = P[0 + i]
    BY <2>1, <2>3, <2>4
  <2>7. Behind'
    BY <1>2, <2>1, <2>4, <2>6 DEF Behind, FromPlan, P
  <2>8. ASSUME NEW i \in 1..Len(todo')
        PROVE  Len(asked') + i \in 1..Len(P) /\ todo'[i] = P[Len(asked') + i]
    <3>1. Len(asked') + i = Len(asked) + (i + 1) /\ i + 1 \in 1..Len(todo)
      BY <2>3, <2>4, <2>5
    <3> QED BY <2>1, <2>5, <3>1
  <2>9. Ahead'
    <3>1. Len(asked') + Len(todo') = Len(P)
      <4>1. /\ Len(asked) \in Nat /\ Len(todo) \in Nat /\ Len(asked') = Len(asked) + 1
            /\ Len(todo') = Len(todo) - 1 /\ Len(asked) + Len(todo) = Len(P)
        BY <2>1, <2>3, <2>4, <2>5
      <4> QED BY <4>1
    <3> QED BY <1>2, <2>1, <2>5, <2>8, <3>1 DEF Ahead, FromPlan, P
  <2>10. Found' = Found \cup Probe!Present(b)
    <3>1. \A x : x \in Found' => x \in Found \cup Probe!Present(b)
      BY <1>2, <2>4 DEF Found
    <3>2. \A x : x \in Found \cup Probe!Present(b) => x \in Found'
      BY <1>2, <2>4 DEF Found
    <3> QED BY <3>1, <3>2
  <2>11. WhatIsFound'
    <3>1. years = {e[2] : e \in Found} /\ found = {e[1] : e \in Found}
      BY DEF ProbeInv, WhatIsFound
    <3>2. /\ years' = years \cup {e[2] : e \in Probe!Present(b)}
          /\ found' = found \cup {e[1] : e \in Probe!Present(b)}
      BY <1>7 DEF Probe!Ask, b
    <3> DEFINE F == Found  B == Probe!Present(b)  G == Found'
    <3>3. G = F \cup B
      BY <2>10
    <3> HIDE DEF F, B, G
    <3>4. {e[2] : e \in G} = {e[2] : e \in F} \cup {e[2] : e \in B}
      BY <3>3
    <3>5. {e[1] : e \in G} = {e[1] : e \in F} \cup {e[1] : e \in B}
      BY <3>3
    <3> QED BY <3>1, <3>2, <3>4, <3>5 DEF WhatIsFound, F, B, G
  <2>12. WhatIsBuilt'
    BY <2>1 DEF WhatIsBuilt
  <2> QED BY <1>3, <2>7, <2>9, <2>11, <2>12 DEF ProbeInv
<1>8. CASE Probe!AskFails
  BY <1>3, <1>5, <1>8 DEF Probe!AskFails, ProbeInv, Ahead, WhatIsFound, WhatIsBuilt
<1>9. CASE Probe!Finish
  <2>1. /\ bpc = "asking" /\ todo = <<>> /\ asked' = asked /\ todo' = todo
        /\ years' = years /\ found' = found /\ bpc' \in {"built", "failed"}
    BY <1>9 DEF Probe!Finish
  <2>2. Ahead'
    <3>1. Askable /\ FromPlan(todo, Len(asked)) /\ Len(asked) + Len(todo) = Len(P)
      BY <2>1 DEF ProbeInv, Ahead, P
    <3>2. FromPlan(todo, Len(asked))'
      BY <1>2, <2>1, <3>1 DEF FromPlan, P
    <3> QED BY <1>2, <2>1, <3>1, <3>2 DEF Ahead, P
  <2>3. WhatIsFound'
    BY <1>5, <2>1 DEF ProbeInv, WhatIsFound
  <2>4. WhatIsBuilt'
    <3>1. kind' = kind
      BY <1>1 DEF Probe!world
    <3>2. Probe!Earliest' = Probe!Earliest /\ Probe!Latest' = Probe!Latest
      BY <2>1 DEF Probe!Earliest, Probe!Latest
    <3> QED BY <1>9, <2>1, <3>1, <3>2 DEF WhatIsBuilt, Probe!Finish
  <2> QED BY <1>3, <1>5, <2>1, <2>2, <2>3, <2>4 DEF ProbeInv
<1>10. CASE UNCHANGED Probe!vars
  <2>1. /\ asked' = asked /\ todo' = todo /\ years' = years /\ found' = found /\ bpc' = bpc
        /\ result' = result /\ kind' = kind
    BY <1>10 DEF Probe!vars, Probe!world
  <2>2. Ahead'
    BY <1>2, <2>1 DEF ProbeInv, Ahead, FromPlan, P
  <2>3. Probe!Earliest' = Probe!Earliest /\ Probe!Latest' = Probe!Latest
    BY <2>1 DEF Probe!Earliest, Probe!Latest
  <2>4. WhatIsFound' /\ WhatIsBuilt'
    BY <1>5, <2>1, <2>3 DEF ProbeInv, WhatIsFound, WhatIsBuilt
  <2> QED BY <1>3, <1>5, <2>1, <2>2, <2>4 DEF ProbeInv
<1> QED BY <1>6, <1>7, <1>8, <1>9, <1>10 DEF Probe!Next

\* A probe that asked its whole plan saw what lies in the reported areas and years.
LEMMA AllIsFound ==
  ASSUME Probe!ProbeAssumption, ProbeInv, bpc = "built"
  PROVE  \A e : e \in Found <=>
                  /\ e \in IF kind = "changes" THEN valued \cup empty ELSE valued
                  /\ e[1] \in Probe!Reported /\ e[2] \in Probe!Asked
<1> DEFINE P == Probe!Plan  W == IF kind = "changes" THEN valued \cup empty ELSE valued
           R == Probe!Reported  Y == Probe!Asked
<1>1. /\ asked \in Seq(Probe!Elems(P)) /\ Len(asked) = Len(P) /\ Len(P) \in Nat
      /\ \A i \in 1..Len(P) : asked[i] = P[i]
  <2>1. Askable /\ Len(asked) + Len(todo) = Len(P) /\ todo = <<>>
    BY DEF ProbeInv, Ahead
  <2>2. /\ asked \in Seq(Probe!Elems(P))
        /\ \A i \in 1..Len(asked) : 0 + i \in 1..Len(P) /\ asked[i] = P[0 + i]
    BY <2>1 DEF ProbeInv, Behind, FromPlan
  <2> HIDE DEF P
  <2> QED BY <2>1, <2>2
<1>2. /\ \A n \in 1..Len(P) : P[n].of \subseteq R /\ P[n].in \subseteq Y
      /\ \A a \in R, y \in Y : \E n \in 1..Len(P) : a \in P[n].of /\ y \in P[n].in
  BY PlanIs DEF ProbeInv, ProbeTypes, Ahead, AsksOnce
<1>3. \A b, e : e \in Probe!Present(b) <=> (e \in W /\ e[1] \in b.of /\ e[2] \in b.in)
  BY DEF Probe!Present, Probe!Entries
<1> HIDE DEF P, W, R, Y
<1>4. \A e : e \in Found <=> \E i \in 1..Len(P) : e \in Probe!Present(P[i])
  BY <1>1 DEF Found
<1>5. \A e : e \in Found <=> (e \in W /\ e[1] \in R /\ e[2] \in Y)
  BY <1>2, <1>3, <1>4
<1> QED BY <1>5 DEF W, R, Y

LEMMA ProbeInvImplies ==
  ASSUME Probe!ProbeAssumption, ProbeInv
  PROVE  Probe!ProbeIsExact
<1>1. Probe!BatchesPartition
  <2>1. CASE ~ Askable
    <3>1. asked = <<>> /\ bpc # "built"
      BY <2>1 DEF ProbeInv, Behind, Ahead
    <3>2. Len(<<>>) = 0 /\ 1..0 = {}
      OBVIOUS
    <3> QED BY <3>1, <3>2 DEF Probe!BatchesPartition
  <2>2. CASE Askable
    <3> DEFINE P == Probe!Plan
    <3>1. AsksOnce(P, Probe!Reported, Probe!Asked) /\ (kind # "oudata" => AsksFew(P))
      BY <2>2, PlanIs DEF ProbeInv, ProbeTypes
    <3>2. /\ asked \in Seq(Probe!Elems(P))
          /\ \A i \in 1..Len(asked) : 0 + i \in 1..Len(P) /\ asked[i] = P[0 + i]
      BY <2>2 DEF ProbeInv, Behind, FromPlan
    <3>3. bpc = "built" => Len(asked) + Len(todo) = Len(P) /\ todo = <<>>
      BY DEF ProbeInv, Ahead
    <3> HIDE DEF P
    <3>4. \A i \in 1..Len(asked) : i \in 1..Len(P) /\ asked[i] = P[i]
      BY <3>2
    <3>5. \A i \in 1..Len(asked) :
            kind # "oudata" => Probe!Cardinality(asked[i].of) <= Limit /\ Probe!Cardinality(asked[i].in) <= Limit
      BY <3>1, <3>4, SameInProbe DEF AsksFew
    <3>6. \A i, j \in 1..Len(asked) :
            asked[i].of \cap asked[j].of # {} /\ asked[i].in \cap asked[j].in # {} => i = j
      BY <3>1, <3>4 DEF AsksOnce
    <3>7. bpc = "built" => \A a \in Probe!Reported, y \in Probe!Asked :
            \E i \in 1..Len(asked) : a \in asked[i].of /\ y \in asked[i].in
      <4> SUFFICES ASSUME bpc = "built"
                   PROVE  \A a \in Probe!Reported, y \in Probe!Asked :
                            \E i \in 1..Len(asked) : a \in asked[i].of /\ y \in asked[i].in
        OBVIOUS
      <4>1. Len(asked) = Len(P)
        BY <3>2, <3>3
      <4> QED BY <3>1, <3>4, <4>1 DEF AsksOnce
    <3> QED BY <3>5, <3>6, <3>7 DEF Probe!BatchesPartition
  <2> QED BY <2>1, <2>2
<1>2. Probe!ChangesAreExact
  <2> SUFFICES ASSUME bpc = "built", kind = "changes"
               PROVE  result.changed <=> \E e \in valued \cup empty : e[1] \in Probe!Reported /\ e[2] \in Probe!Asked
    BY DEF Probe!ChangesAreExact
  <2>1. result.changed <=> found # {}
    <3> DEFINE some == found # {}
    <3>1. result = [kind |-> kind, changed |-> some]
      BY Zenon DEF ProbeInv, WhatIsBuilt
    <3> HIDE DEF some
    <3>2. result.changed = some
      BY <3>1
    <3> QED BY <3>2 DEF some
  <2>2. found # {} <=> \E e : e \in Found
    BY DEF ProbeInv, WhatIsFound
  <2> QED BY <2>1, <2>2, AllIsFound
<1>3. Probe!DimensionsAreExact
  <2> DEFINE there == {e \in valued : e[1] \in Probe!Reported /\ e[2] \in Probe!Year}
  <2> SUFFICES ASSUME bpc = "built", kind # "changes"
               PROVE  /\ result.years = {e[2] : e \in there} /\ result.ids = {e[1] : e \in there}
                      /\ result.first \in result.years /\ result.last \in result.years
                      /\ \A y \in result.years : result.first <= y /\ y <= result.last
    BY DEF Probe!DimensionsAreExact
  <2>1. Probe!Asked = Probe!Year
    BY DEF Probe!Asked
  <2>2. Found = there
    <3>1. \A e : e \in Found <=> e \in there
      BY <2>1, AllIsFound
    <3> QED BY <3>1
  <2>3. /\ result.years = years /\ result.ids = found /\ result.first = Probe!Earliest
        /\ result.last = Probe!Latest /\ years # {}
    BY DEF ProbeInv, WhatIsBuilt
  <2>4. years = {e[2] : e \in there} /\ found = {e[1] : e \in there}
    BY <2>2 DEF ProbeInv, WhatIsFound
  <2>5. years \subseteq First..Last /\ First \in Nat /\ Last \in Nat
    BY <2>4 DEF Probe!Year, Probe!ProbeAssumption
  <2> HIDE DEF there
  <2>6. PICK y \in years : \A z \in years : y <= z
    <3>1. years \subseteq Nat
      BY <2>5
    <3> QED BY <2>3, <3>1, LeastOf
  <2>7. Probe!Earliest \in years /\ \A z \in years : Probe!Earliest <= z
    BY <2>6 DEF Probe!Earliest
  <2>8. \E y1 \in years : \A z \in years : z <= y1
    <3> DEFINE D == {Last - z : z \in years}
    <3>1. D \subseteq Nat /\ D # {}
      BY <2>3, <2>5
    <3>2. PICK d \in D : \A c \in D : d <= c
      <4> HIDE DEF D
      <4> QED BY <3>1, LeastOf
    <3>3. PICK y1 \in years : d = Last - y1
      BY <3>2
    <3>4. ASSUME NEW z \in years PROVE z <= y1
      <4>1. d <= Last - z
        BY <3>2
      <4> HIDE DEF D
      <4> QED BY <2>5, <3>3, <4>1
    <3> QED BY <3>3, <3>4
  <2>9. Probe!Latest \in years /\ \A z \in years : z <= Probe!Latest
    BY <2>8 DEF Probe!Latest
  <2> QED BY <2>3, <2>4, <2>7, <2>9
<1> QED BY <1>1, <1>2, <1>3 DEF Probe!ProbeIsExact

\* A probe finds exactly the years and the areas that have values, or that there
\* are changes, in requests that are never too large and never overlap, whatever
\* the catalogue, the years, the limit and the server's values.
THEOREM ProbesAreExact == Probe!Spec => []ProbeIsExact
<1>1. Probe!ProbeAssumption
  BY PartsAssumption
<1>2. Probe!Init => ProbeInv
  BY ProbeInitInv
<1>3. ProbeInv /\ [Probe!Next]_Probe!vars => ProbeInv'
  BY <1>1, ProbeStepInv
<1>4. ProbeInv => Probe!ProbeIsExact
  BY <1>1, ProbeInvImplies
<1> QED BY <1>2, <1>3, <1>4, PTL DEF ProbeIsExact, Probe!Spec

-----------------------------------------------------------------------------
(* A document.                                                               *)

\* What is built, and what the schema then says of it.
DocumentInv ==
  /\ \/ api = "v1" /\ payload \in V1Payloads
     \/ api = "v2" /\ payload \in V2Payloads
  /\ dpc \in {"payload", "failed", "built", "valid", "rejected"}
  /\ dpc \in {"built", "valid", "rejected"} =>
       IF api = "v1"
       THEN ~ Document!V1Fails(payload) /\ document = Document!V1Document(payload)
       ELSE ~ Document!V2Fails(payload) /\ document = Document!V2Document(payload)
  /\ periods # <<>> => api = "v1" /\ periods = Document!TwoPeriods(Document!TimeLabels(payload))
  /\ dpc = "valid" => Document!Valid(document)
  /\ dpc = "rejected" => ~ Document!Valid(document)

LEMMA DocumentInvHolds ==
  /\ Document!Init => DocumentInv
  /\ DocumentInv /\ [Document!Next]_Document!vars => DocumentInv'
<1>1. Document!Init => DocumentInv
  BY DEF Document!Init, DocumentInv
<1>2. ASSUME DocumentInv, Document!Build PROVE DocumentInv'
  <2>1. /\ dpc = "payload" /\ api' = api /\ payload' = payload
        /\ periods' = periods \/ (api = "v1" /\ periods' = Document!TwoPeriods(Document!TimeLabels(payload)))
        /\ dpc' \in {"failed", "built"}
        /\ dpc' = "built" => IF api = "v1"
             THEN ~ Document!V1Fails(payload) /\ document' = Document!V1Document(payload)
             ELSE ~ Document!V2Fails(payload) /\ document' = Document!V2Document(payload)
    BY <1>2 DEF Document!Build
  <2> QED BY <1>2, <2>1 DEF DocumentInv
<1>3. ASSUME DocumentInv, Document!Validate PROVE DocumentInv'
  BY <1>3 DEF DocumentInv, Document!Validate
<1>4. ASSUME DocumentInv, UNCHANGED Document!vars PROVE DocumentInv'
  BY <1>4 DEF DocumentInv, Document!vars
<1> QED BY <1>1, <1>2, <1>3, <1>4 DEF Document!Next

\* A finite set of natural numbers that is not empty has a greatest element.
LEMMA GreatestOf ==
  ASSUME NEW S, S \subseteq Nat, S # {}, IsFiniteSet(S)
  PROVE  \E n \in S : \A m \in S : m <= n
<1> DEFINE Top(T) == \E n \in T : \A m \in T : m <= n
           Bad == {c \in Nat : \E T \in SUBSET Nat :
                     T # {} /\ IsFiniteSet(T) /\ Cardinality(T) = c /\ ~ Top(T)}
<1>1. Bad = {}
  <2> SUFFICES ASSUME Bad # {} PROVE FALSE
    OBVIOUS
  <2>1. PICK c \in Bad : \A d \in Bad : c <= d
    <3>1. Bad \subseteq Nat
      OBVIOUS
    <3> HIDE DEF Bad
    <3> QED BY <3>1, LeastOf
  <2>2. PICK T \in SUBSET Nat : T # {} /\ IsFiniteSet(T) /\ Cardinality(T) = c /\ ~ Top(T)
    OBVIOUS
  <2>3. PICK x \in T : TRUE
    BY <2>2
  <2> DEFINE U == T \ {x}
  <2>4. IsFiniteSet(U) /\ Cardinality(U) = c - 1 /\ c - 1 \in Nat
    <3>1. IsFiniteSet(U) /\ Cardinality(U) = Cardinality(T) - 1
      BY <2>2, <2>3, FS_RemoveElement
    <3> QED BY <2>2, <3>1, FS_CardinalityType
  <2>5. U # {}
    <3> SUFFICES ASSUME U = {} PROVE FALSE
      OBVIOUS
    <3>1. \A m \in T : m = x
      OBVIOUS
    <3>2. Top(T)
      BY <2>3, <3>1
    <3> QED BY <2>2, <3>2
  <2>6. Top(U)
    <3>1. c - 1 \notin Bad
      <4>1. c \in Nat /\ ~ (c <= c - 1)
        OBVIOUS
      <4> QED BY <2>1, <4>1
    <3> QED BY <2>2, <2>4, <2>5, <3>1
  <2>7. PICK n \in U : \A m \in U : m <= n
    BY <2>6
  <2>8. Top(T)
    <3>1. \A m \in T : m \in Nat /\ (m = x \/ m \in U)
      OBVIOUS
    <3>2. CASE x <= n
      <4>1. \A m \in T : m <= n
        BY <2>7, <3>1, <3>2
      <4> QED BY <2>7, <4>1
    <3>3. CASE ~ (x <= n)
      <4>1. n \in Nat /\ x \in Nat /\ n <= x
        BY <2>3, <2>7, <3>1, <3>3
      <4>2. \A m \in U : m <= x
        BY <2>7, <3>1, <4>1
      <4>3. \A m \in T : m <= x
        BY <3>1, <4>1, <4>2
      <4> QED BY <2>3, <4>3
    <3> QED BY <3>2, <3>3
  <2> QED BY <2>2, <2>8
<1>2. Cardinality(S) \in Nat /\ Cardinality(S) \notin Bad
  BY <1>1, FS_CardinalityType
<1> QED BY <1>2

\* The places of a list are as many as its length.
LEMMA Places ==
  ASSUME NEW T, NEW s \in Seq(T)
  PROVE  IsFiniteSet(1..Len(s)) /\ Cardinality(1..Len(s)) = Len(s) /\ Len(s) \in Nat
<1>1. Len(s) \in Nat
  OBVIOUS
<1>2. IsFiniteSet(1..Len(s)) /\ Cardinality(1..Len(s)) = IF 1 > Len(s) THEN 0 ELSE Len(s) - 1 + 1
  BY <1>1, FS_Interval
<1> QED BY <1>1, <1>2

LEMMA ElemsAreFinite ==
  ASSUME NEW T, NEW s \in Seq(T)
  PROVE  /\ IsFiniteSet(Document!Elems(s)) /\ Cardinality(Document!Elems(s)) \in Nat
         /\ Cardinality(Document!Elems(s)) <= Len(s)
         /\ Cardinality(Document!Elems(s)) = Len(s) <=> Document!Distinct(s)
<1> DEFINE E == Document!Elems(s)  S == 1..Len(s)  f == [i \in S |-> s[i]]
<1>1. f \in Surjection(S, E)
  BY DEF Surjection, Document!Elems
<1>2. IsFiniteSet(S) /\ Cardinality(S) = Len(s) /\ Len(s) \in Nat
  BY Places
<1>3. f \in Injection(S, E) <=> Document!Distinct(s)
  BY DEF Injection, IsInjective, Document!Distinct, Document!Elems
<1> HIDE DEF E, S, f
<1>4. IsFiniteSet(E) /\ Cardinality(E) <= Cardinality(S) /\ (Cardinality(S) = Cardinality(E) <=> f \in Injection(S, E))
  BY <1>1, <1>2, FS_Surjection
<1>5. Cardinality(E) \in Nat
  BY <1>4, FS_CardinalityType
<1> QED BY <1>2, <1>3, <1>4, <1>5 DEF E

LEMMA SameInDocument ==
  /\ \A s, S : Document!Only(s, S) = Only(s, S)
  /\ \A S : Document!Cardinality(S) = Cardinality(S)
<1>1. \A s, S : Document!Only(s, S) = Only(s, S)
  BY DEF Document!Only, Only
<1>2. \A S : Document!Cardinality(S) = Cardinality(S)
  BY DEF Document!Cardinality, Cardinality
<1> QED BY <1>1, <1>2

\* In a list without repetitions a position says where an element is.
LEMMA PositionIs ==
  ASSUME NEW T, NEW s \in Seq(T), Document!Distinct(s), NEW i \in 1..Len(s)
  PROVE  Document!Position(s)[s[i]] = i - 1 /\ Document!LastPosition(s)[s[i]] = i - 1
<1>1. s[i] \in Document!Elems(s) /\ i \in Int
  BY DEF Document!Elems
<1>2. \A j \in 1..Len(s) : s[j] = s[i] => j = i
  BY DEF Document!Distinct
<1>3. (CHOOSE j \in 1..Len(s) : s[j] = s[i]) = i
  BY <1>2
<1>4. (CHOOSE j \in 1..Len(s) : s[j] = s[i] /\ \A k \in 1..Len(s) : s[k] = s[i] => k <= j) = i
  <2>1. \A k \in 1..Len(s) : s[k] = s[i] => k <= i
    BY <1>1, <1>2
  <2> QED BY <1>2, <2>1
<1> QED BY <1>1, <1>3, <1>4 DEF Document!Position, Document!LastPosition

\* The last position is one of the list, and the last element's is the last.
LEMMA LastPositionIs ==
  ASSUME NEW T, NEW s \in Seq(T)
  PROVE  /\ DOMAIN Document!LastPosition(s) = Document!Elems(s)
         /\ Len(s) # 0 => Document!LastPosition(s)[s[Len(s)]] = Len(s) - 1
<1>1. DOMAIN Document!LastPosition(s) = Document!Elems(s)
  BY DEF Document!LastPosition
<1>2. ASSUME Len(s) # 0 PROVE Document!LastPosition(s)[s[Len(s)]] = Len(s) - 1
  <2> DEFINE n == Len(s)
  <2>1. n \in Nat /\ n \in 1..Len(s) /\ s[n] \in Document!Elems(s)
    BY <1>2 DEF Document!Elems
  <2>2. \A k \in 1..Len(s) : k <= n /\ k \in Int
    BY <2>1
  <2>3. (CHOOSE j \in 1..Len(s) : s[j] = s[n] /\ \A k \in 1..Len(s) : s[k] = s[n] => k <= j) = n
    <3>1. \A j \in 1..Len(s) : s[j] = s[n] /\ (\A k \in 1..Len(s) : s[k] = s[n] => k <= j) => j = n
      BY <2>1, <2>2
    <3>2. s[n] = s[n] /\ \A k \in 1..Len(s) : s[k] = s[n] => k <= n
      BY <2>2
    <3> QED BY <2>1, <3>1, <3>2
  <2> QED BY <2>1, <2>3 DEF Document!LastPosition
<1> QED BY <1>1, <1>2

\* The index of a list without repetitions is dense.
LEMMA PositionsAreDense ==
  ASSUME NEW T, NEW s \in Seq(T), Document!Distinct(s)
  PROVE  Document!Dense(Document!LastPosition(s))
<1> DEFINE f == Document!LastPosition(s)  E == Document!Elems(s)
<1>1. DOMAIN f = E /\ Len(s) \in Nat
  BY LastPositionIs
<1>2. \A i \in 1..Len(s) : f[s[i]] = i - 1
  BY PositionIs
<1>3. \A x \in E : \E i \in 1..Len(s) : x = s[i]
  BY DEF Document!Elems
<1>4. \A i \in 1..Len(s) : s[i] \in E
  BY DEF Document!Elems
<1>5. Document!Cardinality(E) = Len(s)
  BY ElemsAreFinite, SameInDocument
<1> HIDE DEF f, E
<1>6. ASSUME NEW x \in E, NEW y \in E, f[x] = f[y] PROVE x = y
  <2>1. PICK i \in 1..Len(s) : x = s[i]
    BY <1>3
  <2>2. PICK j \in 1..Len(s) : y = s[j]
    BY <1>3
  <2>3. i - 1 = j - 1
    BY <1>2, <1>6, <2>1, <2>2
  <2>4. i = j
    BY <1>1, <2>3
  <2> QED BY <2>1, <2>2, <2>4
<1>7. {f[x] : x \in E} = 0..(Len(s) - 1)
  <2>1. ASSUME NEW x \in E PROVE f[x] \in 0..(Len(s) - 1)
    <3>1. PICK i \in 1..Len(s) : x = s[i]
      BY <1>3
    <3> QED BY <1>1, <1>2, <3>1
  <2>2. ASSUME NEW k \in 0..(Len(s) - 1) PROVE \E x \in E : f[x] = k
    <3>1. k + 1 \in 1..Len(s) /\ (k + 1) - 1 = k
      BY <1>1
    <3>2. f[s[k + 1]] = k /\ s[k + 1] \in E
      BY <1>2, <1>4, <3>1
    <3> QED BY <3>2
  <2>3. \A k : k \in {f[x] : x \in E} => k \in 0..(Len(s) - 1)
    BY <2>1
  <2>4. \A k : k \in 0..(Len(s) - 1) => k \in {f[x] : x \in E}
    BY <2>2
  <2> QED BY <2>3, <2>4
<1>8. Document!Dense(f)
  BY <1>1, <1>5, <1>6, <1>7 DEF Document!Dense
<1> QED BY <1>8 DEF f

\* A list whose index is dense has no repetitions.
LEMMA DenseIsDistinct ==
  ASSUME NEW T, NEW s \in Seq(T), Document!Dense(Document!LastPosition(s))
  PROVE  Document!Distinct(s)
<1> DEFINE f == Document!LastPosition(s)  E == Document!Elems(s)
<1>1. CASE Len(s) = 0
  BY <1>1 DEF Document!Distinct
<1>2. CASE Len(s) # 0
  <2>1. DOMAIN f = E /\ f[s[Len(s)]] = Len(s) - 1
    BY <1>2, LastPositionIs
  <2>2. s[Len(s)] \in E /\ Len(s) \in Nat
    BY <1>2 DEF Document!Elems
  <2>3. Cardinality(E) \in Nat /\ Cardinality(E) <= Len(s) /\ (Cardinality(E) = Len(s) <=> Document!Distinct(s))
    BY ElemsAreFinite
  <2>4. {f[x] : x \in E} = 0..(Cardinality(E) - 1)
    BY <2>1, SameInDocument DEF Document!Dense
  <2> HIDE DEF f, E
  <2>5. Len(s) - 1 \in 0..(Cardinality(E) - 1)
    BY <2>1, <2>2, <2>4
  <2> QED BY <2>2, <2>3, <2>5
<1> QED BY <1>1, <1>2

-----------------------------------------------------------------------------
\* What V1Document says of the i-th variable of a payload.
V1Axis(vs, i) ==
  LET d == Document!V1Document(vs)  c == vs[i].code IN
  /\ d.id[i] = c /\ c \in Document!Elems(d.id) /\ c # Document!Blank
  /\ d.text[c] = Document!OrId(vs[i].text, c)
  /\ d.index[c] = Document!LastPosition(vs[i].values)
  /\ DOMAIN d.label[c] = Document!Elems(vs[i].values)
  /\ \A k \in 1..Len(vs[i].values) :
       /\ d.index[c][vs[i].values[k]] = k - 1
       /\ d.label[c][vs[i].values[k]] = Document!TextAt(vs[i], k)

LEMMA V1DocumentIs ==
  ASSUME Document!DocumentsAssumption, NEW vs \in V1Payloads, ~ Document!V1Fails(vs)
  PROVE  LET d == Document!V1Document(vs)  C == Document!Elems(d.id) IN
         /\ Len(d.id) = Len(vs) /\ d.id \in Seq(C) /\ Document!Distinct(d.id)
         /\ C = {vs[i].code : i \in 1..Len(vs)}
         /\ DOMAIN d.index = C
         /\ d.role = [r \in Document!RoleName |-> Only(d.id, {c \in C : Document!Var(vs, c).role = r})]
         /\ \A i \in 1..Len(vs) : V1Axis(vs, i) /\ Document!Var(vs, vs[i].code) = vs[i]
<1> DEFINE s == Document!Codes(vs)  d == Document!V1Document(vs)  C == Document!Elems(s)
<1>1. vs \in Seq(Document!Elems(vs)) /\ \A i \in 1..Len(vs) : vs[i].values \in Seq(Int) /\ vs[i].texts \in Seq(Int)
  BY DEF Document!DocumentsAssumption
<1>2. s = [i \in 1..Len(vs) |-> vs[i].code] /\ Len(vs) \in Nat
  BY <1>1 DEF Document!Codes
<1>3. /\ d.id = s /\ DOMAIN d.index = C
      /\ d.role = [r \in Document!RoleName |-> Only(s, {c \in C : Document!Var(vs, c).role = r})]
  BY SameInDocument DEF Document!V1Document
<1>4. /\ Document!Distinct(s) /\ Document!Blank \notin C
      /\ \A i \in 1..Len(vs) : Document!Distinct(vs[i].values)
  BY DEF Document!V1Fails, Document!Unusable
<1>5. \A c \in C :
        /\ d.text[c] = Document!OrId(Document!Var(vs, c).text, c)
        /\ d.index[c] = Document!LastPosition(Document!Var(vs, c).values)
        /\ d.label[c] = [x \in Document!Elems(Document!Var(vs, c).values) |->
                           Document!TextAt(Document!Var(vs, c), Document!LastPosition(Document!Var(vs, c).values)[x] + 1)]
  BY DEF Document!V1Document
<1>6. C = {s[i] : i \in 1..Len(s)}
  BY DEF Document!Elems
<1> HIDE DEF s, d, C
<1>7. /\ Len(s) = Len(vs) /\ \A i \in 1..Len(vs) : s[i] = vs[i].code
      /\ s \in Seq(C) /\ C = {vs[i].code : i \in 1..Len(vs)}
  <2>1. Len(s) = Len(vs) /\ \A i \in 1..Len(vs) : s[i] = vs[i].code
    BY <1>2
  <2>2. C = {vs[i].code : i \in 1..Len(vs)}
    BY <1>6, <2>1
  <2>3. s \in Seq(C)
    BY <1>2, <2>2
  <2> QED BY <2>1, <2>2, <2>3
<1>8. ASSUME NEW i \in 1..Len(vs)
      PROVE  vs[i].code \in C /\ Document!Var(vs, vs[i].code) = vs[i]
  <2>1. vs[i].code \in C
    BY <1>7
  <2>2. Document!Position(s)[s[i]] = i - 1
    BY <1>4, <1>7, PositionIs
  <2>3. Document!Position(s)[vs[i].code] + 1 = i
    BY <1>2, <1>7, <2>2
  <2> QED BY <2>1, <2>3 DEF Document!Var, s
<1>9. ASSUME NEW i \in 1..Len(vs) PROVE V1Axis(vs, i)
  <2> DEFINE c == vs[i].code  v == vs[i].values
  <2>1. c \in C /\ Document!Var(vs, c) = vs[i]
    BY <1>8
  <2>2. /\ d.text[c] = Document!OrId(vs[i].text, c)
        /\ d.index[c] = Document!LastPosition(v)
        /\ d.label[c] = [x \in Document!Elems(v) |-> Document!TextAt(vs[i], Document!LastPosition(v)[x] + 1)]
    BY <1>5, <2>1
  <2>3. ASSUME NEW k \in 1..Len(v)
        PROVE  d.index[c][v[k]] = k - 1 /\ d.label[c][v[k]] = Document!TextAt(vs[i], k)
    <3>1. Document!LastPosition(v)[v[k]] = k - 1 /\ k \in Int
      BY <1>1, <1>4, PositionIs
    <3>2. v[k] \in Document!Elems(v) /\ (k - 1) + 1 = k
      BY <3>1 DEF Document!Elems
    <3> HIDE DEF v, c
    <3> QED BY <2>2, <3>1, <3>2
  <2>4. DOMAIN d.label[c] = Document!Elems(v)
    BY <2>2
  <2>5. d.id[i] = c /\ c \in Document!Elems(d.id) /\ c # Document!Blank
    BY <1>3, <1>4, <1>7, <2>1 DEF C
  <2> QED BY <2>2, <2>3, <2>4, <2>5 DEF V1Axis, d
<1> QED BY <1>3, <1>4, <1>7, <1>8, <1>9 DEF d, C

LEMMA V1Faithful ==
  ASSUME Document!DocumentsAssumption, DocumentInv
  PROVE  Document!V1IsFaithful
<1> SUFFICES ASSUME dpc = "valid", api = "v1" PROVE Document!V1IsFaithful
  BY DEF Document!V1IsFaithful
<1>1. payload \in V1Payloads /\ ~ Document!V1Fails(payload) /\ document = Document!V1Document(payload)
  BY DEF DocumentInv
<1>2. Len(document.id) = Len(payload) /\ \A i \in 1..Len(payload) : V1Axis(payload, i)
  BY <1>1, V1DocumentIs
<1>3. ASSUME NEW i \in 1..Len(payload)
      PROVE  LET v == payload[i]  c == document.id[i] IN
             /\ c = v.code /\ Document!Cardinality(DOMAIN document.index[c]) = Len(v.values)
             /\ document.text[c] = IF v.text = Document!Missing THEN c ELSE v.text
             /\ \A k \in 1..Len(v.values) :
                  /\ document.index[c][v.values[k]] = k - 1
                  /\ \/ k \in DOMAIN v.texts /\ document.label[c][v.values[k]] = v.texts[k]
                     \/ /\ document.label[c][v.values[k]] = v.values[k]
                        /\ k \in DOMAIN v.texts => v.texts[k] = Document!Missing
  <2> DEFINE v == payload[i]  c == document.id[i]
  <2>1. /\ c = v.code /\ document.index[c] = Document!LastPosition(v.values)
        /\ document.text[c] = Document!OrId(v.text, c)
        /\ \A k \in 1..Len(v.values) :
             /\ document.index[c][v.values[k]] = k - 1
             /\ document.label[c][v.values[k]] = Document!TextAt(v, k)
    BY <1>1, <1>2 DEF V1Axis
  <2>2. v.values \in Seq(Int) /\ v.texts \in Seq(Int)
    BY <1>1 DEF Document!DocumentsAssumption
  <2>3. Document!Distinct(v.values)
    BY <1>1 DEF Document!V1Fails, Document!Unusable
  <2> HIDE DEF v, c
  <2>4. Document!Cardinality(DOMAIN document.index[c]) = Len(v.values)
    BY <2>1, <2>2, <2>3, LastPositionIs, ElemsAreFinite, SameInDocument
  <2>5. ASSUME NEW k \in 1..Len(v.values)
        PROVE  \/ k \in DOMAIN v.texts /\ document.label[c][v.values[k]] = v.texts[k]
               \/ /\ document.label[c][v.values[k]] = v.values[k]
                  /\ k \in DOMAIN v.texts => v.texts[k] = Document!Missing
    <3>1. k \in DOMAIN v.texts <=> k <= Len(v.texts)
      BY <2>2
    <3> QED BY <2>1, <3>1 DEF Document!TextAt
  <2>6. document.text[c] = IF v.text = Document!Missing THEN c ELSE v.text
    BY <2>1 DEF Document!OrId
  <2> QED BY <2>1, <2>4, <2>5, <2>6 DEF v, c
<1> QED BY <1>2, <1>3 DEF Document!V1IsFaithful

LEMMA V2Faithful ==
  ASSUME Document!DocumentsAssumption, DocumentInv
  PROVE  Document!V2IsFaithful
<1> SUFFICES ASSUME dpc = "valid", api = "v2" PROVE Document!V2IsFaithful
  BY DEF Document!V2IsFaithful
<1>1. /\ payload \in V2Payloads /\ ~ Document!V2Fails(payload)
      /\ document = Document!V2Document(payload) /\ Document!Valid(document)
  BY DEF DocumentInv
<1>2. document.id = payload.ids /\ DOMAIN document.index = DOMAIN payload.dims
  BY <1>1 DEF Document!V2Document
<1>3. ASSUME NEW c \in DOMAIN payload.dims
      PROVE  LET d == payload.dims[c] IN
             /\ document.text[c] = IF d.text = Document!Missing THEN c ELSE d.text
             /\ Document!Distinct(d.cats) /\ DOMAIN document.index[c] = Document!Elems(d.cats)
             /\ \A k \in 1..Len(d.cats) :
                  /\ document.index[c][d.cats[k]] = IF d.form = "dict" THEN d.ord[k] ELSE k - 1
                  /\ document.label[c][d.cats[k]] =
                       IF d.cats[k] \in DOMAIN d.label THEN d.label[d.cats[k]] ELSE d.cats[k]
  <2> DEFINE d == payload.dims[c]
  <2>1. /\ DOMAIN document.index = DOMAIN payload.dims /\ document.index[c] = Document!Index(d)
        /\ document.text[c] = Document!OrId(d.text, c)
        /\ document.label[c] = [x \in DOMAIN document.index[c] |-> Document!LabelOf(d, x)]
    BY <1>1 DEF Document!V2Document
  <2>2. Document!Dense(document.index[c])
    BY <1>1, <2>1 DEF Document!Valid, Document!CategoryValid
  <2>3. /\ d.form \in {"dict", "list", "labels", "none"} /\ d.cats \in Seq(Int)
        /\ d.form = "dict" => Document!Distinct(d.cats)
    BY <1>1 DEF Document!DocumentsAssumption
  <2>4. d.form # "none"
    BY <1>1 DEF Document!V2Fails, Document!Index
  <2> HIDE DEF d
  <2>5. document.text[c] = IF d.text = Document!Missing THEN c ELSE d.text
    BY <2>1 DEF Document!OrId
  <2>6. /\ Document!Distinct(d.cats) /\ DOMAIN document.index[c] = Document!Elems(d.cats)
        /\ \A k \in 1..Len(d.cats) :
             document.index[c][d.cats[k]] = IF d.form = "dict" THEN d.ord[k] ELSE k - 1
    <3>1. CASE d.form = "dict"
      <4>1. DOMAIN document.index[c] = Document!Elems(d.cats)
        BY <2>1, <3>1 DEF Document!Index
      <4>2. ASSUME NEW k \in 1..Len(d.cats) PROVE document.index[c][d.cats[k]] = d.ord[k]
        <5>1. d.cats[k] \in Document!Elems(d.cats) /\ Document!Position(d.cats)[d.cats[k]] = k - 1
          BY <2>3, <3>1, PositionIs DEF Document!Elems
        <5>2. document.index[c][d.cats[k]] = d.ord[(k - 1) + 1]
          BY <2>1, <3>1, <5>1 DEF Document!Index
        <5>3. (k - 1) + 1 = k
          OBVIOUS
        <5> QED BY <5>2, <5>3
      <4> QED BY <2>3, <3>1, <4>1, <4>2
    <3>2. CASE d.form \in {"list", "labels"}
      <4>1. document.index[c] = Document!LastPosition(d.cats)
        BY <2>1, <3>2 DEF Document!Index
      <4>2. Document!Distinct(d.cats) /\ DOMAIN document.index[c] = Document!Elems(d.cats)
        BY <2>2, <2>3, <4>1, DenseIsDistinct, LastPositionIs
      <4>3. \A k \in 1..Len(d.cats) : document.index[c][d.cats[k]] = k - 1
        BY <2>3, <4>1, <4>2, PositionIs
      <4> QED BY <3>2, <4>2, <4>3
    <3> QED BY <2>3, <2>4, <3>1, <3>2
  <2>7. ASSUME NEW k \in 1..Len(d.cats)
        PROVE  document.label[c][d.cats[k]] =
                 IF d.cats[k] \in DOMAIN d.label THEN d.label[d.cats[k]] ELSE d.cats[k]
    <3>1. d.cats[k] \in DOMAIN document.index[c]
      BY <2>6 DEF Document!Elems
    <3>2. document.label[c][d.cats[k]] = Document!LabelOf(d, d.cats[k])
      BY <2>1, <3>1
    <3> QED BY <3>2 DEF Document!LabelOf
  <2> QED BY <2>5, <2>6, <2>7 DEF d
<1> QED BY <1>2, <1>3 DEF Document!V2IsFaithful

\* A filtered list has exactly the elements that pass.
LEMMA OnlyElems ==
  ASSUME NEW T, NEW s \in Seq(T), NEW S
  PROVE  Document!Elems(Only(s, S)) = Document!Elems(s) \cap S
<1> DEFINE t == Only(s, S)
<1>1. KeptFrom(s, S, T, Len(s), t)
  BY OnlyKeeps
<1> HIDE DEF t
<1>2. \A i \in 1..Len(t) : \E k \in 1..Len(s) : s[k] = t[i] /\ s[k] \in S
  BY <1>1 DEF KeptFrom
<1>3. \A k \in 1..Len(s) : s[k] \in S => \E i \in 1..Len(t) : t[i] = s[k]
  BY <1>1 DEF KeptFrom
<1> QED BY <1>2, <1>3 DEF Document!Elems, t

LEMMA RolesGiven ==
  ASSUME Document!DocumentsAssumption, DocumentInv
  PROVE  Document!RolesAreGiven
<1> SUFFICES ASSUME dpc = "valid", NEW r \in Document!RoleName
             PROVE  Document!Elems(document.role[r]) =
                      IF api = "v1"
                      THEN {payload[i].code : i \in {j \in 1..Len(payload) : payload[j].role = r}}
                      ELSE Document!Elems(payload.role[r]) \ {Document!Blank}
  BY DEF Document!RolesAreGiven
<1>1. CASE api = "v1"
  <2> DEFINE C == Document!Elems(document.id)  S == {c \in C : Document!Var(payload, c).role = r}
  <2>1. /\ payload \in V1Payloads /\ ~ Document!V1Fails(payload)
        /\ document = Document!V1Document(payload)
    BY <1>1 DEF DocumentInv
  <2>2. /\ document.id \in Seq(C) /\ C = {payload[i].code : i \in 1..Len(payload)}
        /\ document.role[r] = Only(document.id, S)
        /\ \A i \in 1..Len(payload) : Document!Var(payload, payload[i].code) = payload[i]
    BY <2>1, V1DocumentIs
  <2>3. Document!Elems(document.role[r]) = C \cap S
    BY <2>2, OnlyElems
  <2> HIDE DEF C
  <2>4. S = {payload[i].code : i \in {j \in 1..Len(payload) : payload[j].role = r}}
    BY <2>2
  <2>5. C \cap S = S
    OBVIOUS
  <2> HIDE DEF S
  <2> QED BY <1>1, <2>3, <2>4, <2>5
<1>2. CASE api # "v1"
  <2>1. payload \in V2Payloads /\ document = Document!V2Document(payload)
    BY <1>2 DEF DocumentInv
  <2>2. payload.role[r] \in Seq(Int)
    BY <2>1 DEF Document!DocumentsAssumption
  <2> DEFINE E == Document!Elems(payload.role[r])
  <2>3. document.role[r] = Only(payload.role[r], E \ {Document!Blank})
    BY <2>1, SameInDocument DEF Document!V2Document, Document!Roles
  <2>4. Document!Elems(document.role[r]) = E \cap (E \ {Document!Blank})
    BY <2>2, <2>3, OnlyElems
  <2> HIDE DEF E
  <2>5. E \cap (E \ {Document!Blank}) = E \ {Document!Blank}
    OBVIOUS
  <2> QED BY <1>2, <2>4, <2>5 DEF E
<1> QED BY <1>1, <1>2

LEMMA RolesOrdered ==
  ASSUME Document!DocumentsAssumption, DocumentInv
  PROVE  Document!RolesAreOrdered
<1> SUFFICES ASSUME dpc = "valid" PROVE Document!RolesAreOrdered
  BY DEF Document!RolesAreOrdered
<1> DEFINE d == document
<1>1. /\ Document!Distinct(d.id)
      /\ \A r \in Document!RoleName :
           Document!Elems(d.role[r]) \subseteq Document!Elems(d.id) /\ Document!InIdOrder(d.role[r], d.id)
      /\ \A r, s \in Document!RoleName :
           Document!Elems(d.role[r]) \cap Document!Elems(d.role[s]) # {} => r = s
  BY DEF DocumentInv, Document!Valid
<1>2. \E T : d.id \in Seq(T)
  <2>1. CASE api = "v1"
    BY <2>1, V1DocumentIs DEF DocumentInv
  <2>2. CASE api = "v2"
    BY <2>2 DEF DocumentInv, Document!V2Document, Document!DocumentsAssumption
  <2> QED BY <2>1, <2>2 DEF DocumentInv
<1> HIDE DEF d
<1>3. ASSUME NEW r \in Document!RoleName, NEW i \in 1..Len(d.role[r]), NEW j \in 1..Len(d.role[r]), i < j
      PROVE  \E k, l \in 1..Len(d.id) : k < l /\ d.id[k] = d.role[r][i] /\ d.id[l] = d.role[r][j]
  <2>1. PICK k \in 1..Len(d.id) : d.id[k] = d.role[r][i]
    BY <1>1 DEF Document!Elems
  <2>2. PICK l \in 1..Len(d.id) : d.id[l] = d.role[r][j]
    BY <1>1 DEF Document!Elems
  <2>3. Document!Position(d.id)[d.role[r][i]] < Document!Position(d.id)[d.role[r][j]]
    BY <1>1, <1>3 DEF Document!InIdOrder
  <2>4. Document!Position(d.id)[d.id[k]] = k - 1 /\ Document!Position(d.id)[d.id[l]] = l - 1
    BY <1>1, <1>2, PositionIs
  <2>5. k - 1 < l - 1
    BY <2>1, <2>2, <2>3, <2>4
  <2>6. k < l
    BY <2>5
  <2> QED BY <2>1, <2>2, <2>6
<1> QED BY <1>1, <1>3 DEF Document!RolesAreOrdered, d

LEMMA StringsAreFinite ==
  ASSUME NEW s \in Seq(Int)
  PROVE  Document!Strings(s) \subseteq Nat /\ IsFiniteSet(Document!Strings(s))
<1>1. Document!Strings(s) \subseteq Document!Elems(s)
  BY DEF Document!Strings
<1>2. IsFiniteSet(Document!Elems(s))
  BY ElemsAreFinite
<1>3. Document!Strings(s) \subseteq Nat
  BY DEF Document!Strings, Document!Elems, Document!Blank
<1> QED BY <1>1, <1>2, <1>3, FS_Subset

LEMMA PeriodsAreOfTime ==
  ASSUME Document!DocumentsAssumption, DocumentInv
  PROVE  Document!PeriodsOfTime
<1> SUFFICES ASSUME periods # <<>> PROVE Document!PeriodsOfTime
  BY DEF Document!PeriodsOfTime
<1> DEFINE L == Document!TimeLabels(payload)  T == {i \in 1..Len(payload) : payload[i].role = "time"}
           t == Document!Largest(T)
<1>1. payload \in V1Payloads /\ periods = Document!TwoPeriods(L)
  BY DEF DocumentInv
<1>2. payload \in Seq(Document!Elems(payload))
      /\ \A i \in 1..Len(payload) : payload[i].values \in Seq(Int) /\ payload[i].texts \in Seq(Int)
  BY <1>1 DEF Document!DocumentsAssumption
<1>3. L # {} /\ periods = <<Document!Smallest(L), Document!Largest(L)>>
  BY <1>1 DEF Document!TwoPeriods
<1>4. /\ T # {}
      /\ L = Document!Strings(payload[t].texts) \/ L = Document!Strings(payload[t].values)
  BY <1>3 DEF Document!TimeLabels
<1>5. t \in T
  <2>1. T \subseteq 1..Len(payload) /\ Len(payload) \in Nat
    BY <1>2
  <2>2. IsFiniteSet(1..Len(payload)) /\ 1..Len(payload) \subseteq Nat
    BY <1>2, Places
  <2> HIDE DEF T
  <2>3. IsFiniteSet(T) /\ T \subseteq Nat
    BY <2>1, <2>2, FS_Subset
  <2>4. \E n \in T : \A m \in T : m <= n
    BY <1>4, <2>3, GreatestOf
  <2> QED BY <2>4 DEF Document!Largest
<1> HIDE DEF L, t
<1>6. /\ t \in 1..Len(payload) /\ payload[t].role = "time"
      /\ payload[t].values \in Seq(Int) /\ payload[t].texts \in Seq(Int)
  BY <1>2, <1>5
<1>7. L \subseteq Nat /\ IsFiniteSet(L)
  BY <1>4, <1>6, StringsAreFinite
<1>8. Document!Smallest(L) \in L /\ \A x \in L : Document!Smallest(L) <= x
  <2>1. \E n \in L : \A m \in L : n <= m
    BY <1>3, <1>7, LeastOf
  <2> QED BY <2>1 DEF Document!Smallest
<1>9. Document!Largest(L) \in L
  <2>1. \E n \in L : \A m \in L : m <= n
    BY <1>3, <1>7, GreatestOf
  <2> QED BY <2>1 DEF Document!Largest
<1>10. periods[1] <= periods[2] /\ Document!Elems(periods) \subseteq L
  <2> DEFINE a == Document!Smallest(L)  b == Document!Largest(L)
  <2>1. a \in L /\ b \in L /\ a <= b /\ periods = <<a, b>>
    BY <1>3, <1>8, <1>9
  <2> HIDE DEF a, b
  <2> QED BY <2>1 DEF Document!Elems
<1> QED BY <1>4, <1>6, <1>10 DEF Document!PeriodsOfTime

\* Each category of an axis without blank texts is one the schema takes.
LEMMA V1CategoryValid ==
  ASSUME Document!DocumentsAssumption, NEW vs \in V1Payloads, ~ Document!V1Fails(vs), NEW i \in 1..Len(vs),
         V1Axis(vs, i), vs[i].text # Document!Blank, Document!Blank \notin Document!Elems(vs[i].texts)
  PROVE  LET d == Document!V1Document(vs)  c == vs[i].code IN
         d.text[c] # Document!Blank /\ Document!CategoryValid(d.index[c], d.label[c])
<1> DEFINE d == Document!V1Document(vs)  c == vs[i].code  v == vs[i].values
<1>1. v \in Seq(Int) /\ vs[i].texts \in Seq(Int)
  BY DEF Document!DocumentsAssumption
<1>2. v # <<>> /\ Document!Blank \notin Document!Elems(v) /\ Document!Distinct(v)
  BY DEF Document!V1Fails, Document!Unusable
<1>3. /\ d.id[i] = c /\ c \in Document!Elems(d.id) /\ c # Document!Blank
      /\ d.text[c] = Document!OrId(vs[i].text, c)
      /\ d.index[c] = Document!LastPosition(v)
      /\ DOMAIN d.label[c] = Document!Elems(v)
      /\ \A k \in 1..Len(v) :
           /\ d.index[c][v[k]] = k - 1
           /\ d.label[c][v[k]] = Document!TextAt(vs[i], k)
  BY DEF V1Axis
<1>4. d.text[c] # Document!Blank
  BY <1>3 DEF Document!OrId
<1>5. d.index[c] # [x \in {} |-> 0]
  <2>1. v[1] \in Document!Elems(v)
    BY <1>1, <1>2 DEF Document!Elems
  <2>2. DOMAIN d.index[c] = Document!Elems(v)
    BY <1>1, <1>3, LastPositionIs
  <2>3. DOMAIN [x \in {} |-> 0] = {}
    OBVIOUS
  <2> HIDE DEF d, c, v
  <2> QED BY <2>1, <2>2, <2>3
<1>6. DOMAIN d.index[c] = Document!Elems(v)
  BY <1>1, <1>3, LastPositionIs
<1>7. Document!Dense(d.index[c])
  BY <1>1, <1>2, <1>3, PositionsAreDense
<1>8. ASSUME NEW x \in DOMAIN d.label[c] PROVE d.label[c][x] # Document!Blank
  <2>1. PICK k \in 1..Len(v) : x = v[k]
    BY <1>3 DEF Document!Elems
  <2>2. d.label[c][x] = Document!TextAt(vs[i], k) /\ v[k] # Document!Blank /\ k \in Int
    BY <1>2, <1>3, <2>1 DEF Document!Elems
  <2>3. k <= Len(vs[i].texts) => vs[i].texts[k] # Document!Blank
    BY <1>1 DEF Document!Elems
  <2> QED BY <2>2, <2>3 DEF Document!TextAt
<1> QED BY <1>2, <1>3, <1>4, <1>5, <1>6, <1>7, <1>8 DEF Document!CategoryValid

LEMMA V1Valid ==
  ASSUME Document!DocumentsAssumption, NEW vs \in V1Payloads, ~ Document!V1Fails(vs),
         \A i \in 1..Len(vs) : vs[i].text # Document!Blank /\ Document!Blank \notin Document!Elems(vs[i].texts)
  PROVE  Document!Valid(Document!V1Document(vs))
<1> DEFINE d == Document!V1Document(vs)  C == Document!Elems(d.id)
           Of(r) == {c \in C : Document!Var(vs, c).role = r}
<1>1. /\ Len(d.id) = Len(vs) /\ d.id \in Seq(C) /\ Document!Distinct(d.id)
      /\ C = {vs[i].code : i \in 1..Len(vs)} /\ DOMAIN d.index = C
      /\ d.role = [r \in Document!RoleName |-> Only(d.id, Of(r))]
      /\ \A i \in 1..Len(vs) : V1Axis(vs, i)
  BY V1DocumentIs
<1>2. vs # <<>> /\ vs \in Seq(Document!Elems(vs))
  BY DEF Document!V1Fails, Document!DocumentsAssumption
<1>3. d.id # <<>>
  BY <1>1, <1>2
<1>4. ASSUME NEW c \in C
      PROVE  c # Document!Blank /\ d.text[c] # Document!Blank /\ Document!CategoryValid(d.index[c], d.label[c])
  <2>1. PICK i \in 1..Len(vs) : c = vs[i].code
    BY <1>1
  <2>2. V1Axis(vs, i)
    BY <1>1
  <2>3. c # Document!Blank
    BY <2>1, <2>2 DEF V1Axis
  <2>4. d.text[c] # Document!Blank /\ Document!CategoryValid(d.index[c], d.label[c])
    BY <2>1, <2>2, V1CategoryValid
  <2> QED BY <2>3, <2>4
<1>5. ASSUME NEW r \in Document!RoleName
      PROVE  /\ Document!Elems(d.role[r]) \subseteq C \cap Of(r)
             /\ Document!InIdOrder(d.role[r], d.id)
  <2> DEFINE t == d.role[r]  S == Of(r)
  <2>1. t = Only(d.id, S)
    BY <1>1
  <2> HIDE DEF S, t, C
  <2>2. KeptFrom(d.id, S, C, Len(d.id), t)
    BY <1>1, <2>1, OnlyKeeps
  <2>3. Document!Elems(t) \subseteq C \cap S
    <3>1. ASSUME NEW i \in 1..Len(t) PROVE t[i] \in C \cap S
      <4>1. PICK k \in 1..Len(d.id) : d.id[k] = t[i] /\ d.id[k] \in S
        BY <2>2 DEF KeptFrom
      <4>2. d.id[k] \in C
        BY DEF C, Document!Elems
      <4> QED BY <4>1, <4>2
    <3> QED BY <3>1 DEF Document!Elems
  <2>4. ASSUME NEW i \in 1..Len(t), NEW j \in 1..Len(t), i < j
        PROVE  Document!Position(d.id)[t[i]] < Document!Position(d.id)[t[j]]
    <3>1. PICK k, l \in 1..Len(d.id) : k < l /\ d.id[k] = t[i] /\ d.id[l] = t[j]
      BY <2>2, <2>4 DEF KeptFrom, KeepsOrder
    <3>2. Document!Position(d.id)[d.id[k]] = k - 1 /\ Document!Position(d.id)[d.id[l]] = l - 1
      BY <1>1, PositionIs
    <3>3. k - 1 < l - 1
      BY <3>1
    <3> QED BY <3>1, <3>2, <3>3
  <2>5. Document!InIdOrder(t, d.id)
    BY <2>4 DEF Document!InIdOrder
  <2> QED BY <2>3, <2>5 DEF S, t
<1>6. ASSUME NEW r \in Document!RoleName, NEW s \in Document!RoleName,
             Document!Elems(d.role[r]) \cap Document!Elems(d.role[s]) # {}
      PROVE  r = s
  <2>1. PICK c : c \in Document!Elems(d.role[r]) /\ c \in Document!Elems(d.role[s])
    BY <1>6
  <2>2. c \in Of(r) /\ c \in Of(s)
    BY <1>5, <2>1
  <2> QED BY <2>2
<1>7. Document!Blank \notin C
  BY <1>4
<1> HIDE DEF Of
<1> QED BY <1>1, <1>3, <1>4, <1>5, <1>6, <1>7 DEF Document!Valid

LEMMA OnlyBlanksRefused ==
  ASSUME Document!DocumentsAssumption, DocumentInv
  PROVE  Document!V1RefusedForBlanks
<1> SUFFICES ASSUME dpc = "rejected", api = "v1",
                    ~ \E i \in 1..Len(payload) :
                        payload[i].text = Document!Blank \/ Document!Blank \in Document!Elems(payload[i].texts)
             PROVE  FALSE
  BY DEF Document!V1RefusedForBlanks
<1>1. /\ payload \in V1Payloads /\ ~ Document!V1Fails(payload)
      /\ document = Document!V1Document(payload) /\ ~ Document!Valid(document)
  BY DEF DocumentInv
<1> QED BY <1>1, V1Valid

\* What is saved of an answer says what the answer said, whatever the answer: every
\* axis and category, its text or label, its place, its roles and the periods.
THEOREM DocumentsFaithful == Document!Spec => []DocumentsAreFaithful
<1>1. Document!DocumentsAssumption
  BY PartsAssumption
<1>2. DocumentInv => Document!DocumentsAreFaithful
  BY <1>1, V1Faithful, V2Faithful, RolesGiven, RolesOrdered, PeriodsAreOfTime
     DEF Document!DocumentsAreFaithful
<1> QED BY <1>2, DocumentInvHolds, PTL DEF DocumentsAreFaithful, Document!Spec

\* The schema refuses a document of the v1 adapter for a blank text only.
THEOREM V1RefusesBlanksOnly == Document!Spec => []V1RefusedForBlanks
<1>1. DocumentInv => Document!V1RefusedForBlanks
  BY PartsAssumption, OnlyBlanksRefused
<1> QED BY <1>1, DocumentInvHolds, PTL DEF V1RefusedForBlanks, Document!Spec

-----------------------------------------------------------------------------
(* The sample of a PXWeb v1 table.                                           *)

\* What is asked for of dimension i before any cut.
Two(i) == Enrichment!Least(2, table[i].size)

Cuts ==
  /\ table \in Tables /\ limit \in Limits /\ dim \in 0..Len(table)
  /\ picked \in [1..Len(table) -> {1, 2}]
  /\ \A i \in 1..Len(table) : picked[i] = IF i <= dim THEN Two(i) ELSE 1
  /\ dim < Len(table) => Enrichment!Product([picked EXCEPT ![dim + 1] = Two(dim + 1)]) > limit
\* The loop's cells are the request's, and what it ends with fits.
Cells ==
  /\ cells = Enrichment!Product(picked)
  /\ epc # "reduce" => cells <= limit
FromSample ==
  epc = "enriched" =>
    LET n == Enrichment!Normalised(answer) IN
    /\ answer \in Samples /\ Enrichment!Accepted(answer)
    /\ ids = n.ids /\ sizes = n.sizes /\ keys = n.keys /\ index = n.index /\ extras = n.extras
EnrichmentInv == Cuts /\ Cells /\ FromSample

-----------------------------------------------------------------------------
(* Products.                                                                 *)

Multiplied(s, n, f) == f = [k \in 0..n |-> IF k = 0 THEN 1 ELSE f[k - 1] * s[k]]

LEMMA ProductIsDefined ==
  ASSUME NEW s, Len(s) \in Nat
  PROVE  \E f : Multiplied(s, Len(s), f) /\ Enrichment!Product(s) = f[Len(s)]
<1> DEFINE Bad == {n \in Nat : ~ \E f : Multiplied(s, n, f)}
<1>1. Bad = {}
  <2> SUFFICES ASSUME Bad # {} PROVE FALSE
    OBVIOUS
  <2>1. PICK n \in Bad : \A m \in Bad : n <= m
    <3>1. Bad \subseteq Nat
      OBVIOUS
    <3> HIDE DEF Bad
    <3> QED BY <3>1, LeastOf
  <2>2. n # 0
    <3> DEFINE f == [k \in 0..0 |-> 1]
    <3>1. Multiplied(s, 0, f)
      BY DEF Multiplied
    <3> QED BY <3>1
  <2>3. n - 1 \in Nat /\ n \in Nat /\ n - 1 \notin Bad
    <3>1. n \in Nat /\ n - 1 \in Nat /\ ~ (n <= n - 1)
      BY <2>2
    <3> QED BY <2>1, <3>1
  <2>4. PICK g : Multiplied(s, n - 1, g)
    BY <2>3
  <2> DEFINE new == g[n - 1] * s[n]
             f == [k \in 0..n |-> IF k = n THEN new ELSE g[k]]
  <2>5. ASSUME NEW k \in 0..n
        PROVE  f[k] = IF k = 0 THEN 1 ELSE f[k - 1] * s[k]
    <3>1. CASE k = n
      BY <2>2, <2>3, <3>1
    <3>2. CASE k # n
      <4>1. k \in 0..(n - 1) /\ f[k] = g[k] /\ (k # 0 => k - 1 \in 0..n /\ k - 1 # n)
        BY <2>3, <3>2
      <4>2. g[k] = IF k = 0 THEN 1 ELSE g[k - 1] * s[k]
        BY <2>4, <4>1 DEF Multiplied
      <4> QED BY <4>1, <4>2
    <3> QED BY <3>1, <3>2
  <2>6. Multiplied(s, n, f)
    BY <2>5 DEF Multiplied
  <2> QED BY <2>1, <2>6
<1>2. \E f : Multiplied(s, Len(s), f)
  BY <1>1
<1> QED BY <1>2 DEF Enrichment!Product, Multiplied

\* A factor put in the place of 1 multiplies the product.
LEMMA ProductOfOneMore ==
  ASSUME NEW N \in Nat, NEW s \in [1..N -> {1, 2}], NEW i \in 1..N
  PROVE  LET t == [s EXCEPT ![i] = 1] IN
         /\ Enrichment!Product(t) \in Nat
         /\ s[i] = 1 => Enrichment!Product(s) = Enrichment!Product(t)
         /\ s[i] = 2 => Enrichment!Product(s) = 2 * Enrichment!Product(t)
<1> DEFINE t == [s EXCEPT ![i] = 1]
<1>1. Len(s) = N /\ Len(t) = N /\ t \in [1..N -> {1, 2}] /\ t[i] = 1
      /\ \A k \in 1..N : k # i => t[k] = s[k]
  OBVIOUS
<1> HIDE DEF t
<1>2. PICK f : Multiplied(s, N, f) /\ Enrichment!Product(s) = f[N]
  BY <1>1, ProductIsDefined
<1>3. PICK g : Multiplied(t, N, g) /\ Enrichment!Product(t) = g[N]
  BY <1>1, ProductIsDefined
<1> DEFINE Fits(n) == /\ g[n] \in Nat
                      /\ n < i \/ s[i] = 1 => f[n] = g[n]
                      /\ i <= n /\ s[i] = 2 => f[n] = 2 * g[n]
           Bad == {n \in 0..N : ~ Fits(n)}
<1>4. Bad = {}
  <2> SUFFICES ASSUME Bad # {} PROVE FALSE
    OBVIOUS
  <2>1. PICK n \in Bad : \A m \in Bad : n <= m
    <3>1. Bad \subseteq Nat
      OBVIOUS
    <3> HIDE DEF Bad
    <3> QED BY <3>1, LeastOf
  <2>2. n \in 0..N /\ ~ Fits(n)
    OBVIOUS
  <2>3. n # 0
    <3> SUFFICES ASSUME n = 0 PROVE FALSE
      OBVIOUS
    <3>1. f[0] = 1 /\ g[0] = 1
      BY <1>2, <1>3 DEF Multiplied
    <3>2. Fits(0)
      BY <3>1
    <3> QED BY <2>2, <3>2
  <2>4. n - 1 \in 0..N /\ n \in 1..N /\ n \in Int /\ ~ (n <= n - 1)
    BY <2>2, <2>3
  <2>5. Fits(n - 1)
    BY <2>1, <2>4
  <2>6. f[n] = f[n - 1] * s[n] /\ g[n] = g[n - 1] * t[n]
    BY <1>2, <1>3, <2>2, <2>3 DEF Multiplied
  <2>7. Fits(n)
    <3> DEFINE a == f[n - 1]  b == g[n - 1]  c == f[n]  d == g[n]
    <3>1. /\ b \in Nat /\ (n - 1 < i \/ s[i] = 1 => a = b) /\ (i <= n - 1 /\ s[i] = 2 => a = 2 * b)
          /\ c = a * s[n] /\ d = b * t[n] /\ s[n] \in {1, 2} /\ t[n] \in {1, 2} /\ s[i] \in {1, 2}
      BY <1>1, <2>4, <2>5, <2>6
    <3>2. (n = i => t[n] = 1) /\ (n # i => t[n] = s[n]) /\ i \in Int
      BY <1>1, <2>4
    <3> HIDE DEF a, b, c, d
    <3>3. d \in Nat /\ (t[n] = 1 => d = b) /\ (t[n] = 2 => d = 2 * b) /\ (s[n] = 1 => c = a) /\ (s[n] = 2 /\ a \in Int => c = 2 * a)
      BY <3>1
    <3>4. a \in Int
      BY <2>4, <3>1, <3>2
    <3>5. n < i \/ s[i] = 1 => c = d
      BY <2>4, <3>1, <3>2, <3>3, <3>4
    <3>6. i <= n /\ s[i] = 2 => c = 2 * d
      BY <2>4, <3>1, <3>2, <3>3, <3>4
    <3> QED BY <3>3, <3>5, <3>6 DEF c, d
  <2> QED BY <2>2, <2>7
<1>5. Fits(N)
  BY <1>4
<1>6. i <= N
  OBVIOUS
<1> QED BY <1>2, <1>3, <1>5, <1>6 DEF t

LEMMA ProductOfOnes ==
  ASSUME NEW N \in Nat, NEW s \in [1..N -> {1, 2}], \A i \in 1..N : s[i] = 1
  PROVE  Enrichment!Product(s) = 1
<1>1. Len(s) = N
  OBVIOUS
<1>2. PICK f : Multiplied(s, N, f) /\ Enrichment!Product(s) = f[N]
  BY <1>1, ProductIsDefined
<1> DEFINE Bad == {n \in 0..N : f[n] # 1}
<1>3. Bad = {}
  <2> SUFFICES ASSUME Bad # {} PROVE FALSE
    OBVIOUS
  <2>1. PICK n \in Bad : \A m \in Bad : n <= m
    <3>1. Bad \subseteq Nat
      OBVIOUS
    <3> HIDE DEF Bad
    <3> QED BY <3>1, LeastOf
  <2>2. n \in 0..N /\ f[n] # 1
    OBVIOUS
  <2>3. n # 0
    BY <1>2, <2>2 DEF Multiplied
  <2>4. n - 1 \in 0..N /\ n \in 1..N /\ ~ (n <= n - 1)
    BY <2>2, <2>3
  <2>5. f[n - 1] = 1
    BY <2>1, <2>4
  <2>6. f[n] = f[n - 1] * s[n]
    BY <1>2, <2>2, <2>3 DEF Multiplied
  <2>7. s[n] = 1
    BY <2>4
  <2> QED BY <2>2, <2>5, <2>6, <2>7
<1> QED BY <1>2, <1>3

-----------------------------------------------------------------------------
LEMMA SizesAre ==
  ASSUME NEW t \in Seq([code : STRING, size : Nat \ {0}])
  PROVE  Len(t) \in Nat /\ \A i \in 1..Len(t) : t[i].size \in Nat \ {0}
<1> DEFINE R == [code : STRING, size : Nat \ {0}]
<1>1. \A r \in R : r.size \in Nat \ {0}
  OBVIOUS
<1> HIDE DEF R
<1>2. t \in Seq(R)
  BY DEF R
<1>3. Len(t) \in Nat /\ \A i \in 1..Len(t) : t[i] \in R
  BY <1>2
<1> QED BY <1>1, <1>3

LEMMA TableIs ==
  ASSUME Enrichment!EnrichmentAssumption, Cuts
  PROVE  /\ Len(table) \in Nat /\ limit \in Nat \ {0} /\ dim \in Nat /\ dim <= Len(table)
         /\ \A i \in 1..Len(table) : Two(i) \in {1, 2}
<1>1. table \in Seq([code : STRING, size : Nat \ {0}]) /\ limit \in Nat \ {0}
  BY DEF Enrichment!EnrichmentAssumption, Cuts
<1>2. Len(table) \in Nat /\ \A i \in 1..Len(table) : table[i].size \in Nat \ {0}
  BY <1>1, SizesAre
<1>3. \A i \in 1..Len(table) : Two(i) \in {1, 2}
  BY <1>2 DEF Two, Enrichment!Least
<1>4. dim \in Nat /\ dim <= Len(table)
  BY <1>2 DEF Cuts
<1> QED BY <1>1, <1>2, <1>3, <1>4

LEMMA EnrichmentInit ==
  ASSUME Enrichment!EnrichmentAssumption, Enrichment!Init
  PROVE  EnrichmentInv
<1>1. /\ table \in Tables /\ limit \in Limits /\ dim = Len(table) /\ epc = "reduce"
      /\ picked = [i \in 1..Len(table) |-> Two(i)] /\ cells = Enrichment!Product(picked)
  BY DEF Enrichment!Init, Enrichment!N, Two
<1>2. table \in Seq([code : STRING, size : Nat \ {0}])
  BY <1>1 DEF Enrichment!EnrichmentAssumption
<1>3. Len(table) \in Nat /\ \A i \in 1..Len(table) : Two(i) \in {1, 2}
  <2>1. Len(table) \in Nat /\ \A i \in 1..Len(table) : table[i].size \in Nat \ {0}
    BY <1>2, SizesAre
  <2> QED BY <2>1 DEF Two, Enrichment!Least
<1>4. Cuts
  <2>1. picked \in [1..Len(table) -> {1, 2}] /\ \A i \in 1..Len(table) : picked[i] = Two(i) /\ i <= dim
    BY <1>1, <1>3
  <2>2. dim \in 0..Len(table) /\ ~ (dim < Len(table))
    BY <1>1, <1>3
  <2> QED BY <1>1, <2>1, <2>2 DEF Cuts
<1>5. Cells /\ FromSample
  BY <1>1 DEF Cells, FromSample
<1> QED BY <1>4, <1>5 DEF EnrichmentInv

LEMMA ReduceOneStep ==
  ASSUME Enrichment!EnrichmentAssumption, EnrichmentInv, Enrichment!ReduceOne
  PROVE  EnrichmentInv'
<1> DEFINE L == Len(table)  p == picked[dim]
<1>1. /\ epc = "reduce" /\ epc' = epc /\ dim > 0 /\ ~ (cells <= limit) /\ cells' = cells \div p
      /\ picked' = [picked EXCEPT ![dim] = 1] /\ dim' = dim - 1 /\ table' = table /\ limit' = limit
  BY DEF Enrichment!ReduceOne, Enrichment!Fits, Enrichment!DivideByPicked
<1>2. /\ table \in Tables /\ limit \in Limits /\ dim \in 0..L
      /\ picked \in [1..L -> {1, 2}]
      /\ \A i \in 1..L : picked[i] = IF i <= dim THEN Two(i) ELSE 1
      /\ cells = Enrichment!Product(picked)
  BY DEF EnrichmentInv, Cuts, Cells
<1>3. /\ L \in Nat /\ limit \in Nat \ {0} /\ dim \in Nat /\ dim <= L /\ dim \in 1..L
      /\ \A i \in 1..L : Two(i) \in {1, 2}
  <2>1. L \in Nat /\ limit \in Nat \ {0} /\ dim \in Nat /\ dim <= L /\ \A i \in 1..L : Two(i) \in {1, 2}
    BY TableIs DEF EnrichmentInv
  <2> QED BY <1>1, <2>1
<1>4. \A i : Two(i)' = Two(i)
  BY <1>1 DEF Two
<1> HIDE DEF L
<1>5. /\ picked' \in [1..L -> {1, 2}] /\ picked'[dim] = 1
      /\ \A i \in 1..L : i # dim => picked'[i] = picked[i]
      /\ [picked' EXCEPT ![dim] = Two(dim)] = picked
  <2>1. /\ picked' \in [1..L -> {1, 2}] /\ picked'[dim] = 1
        /\ \A i \in 1..L : i # dim => picked'[i] = picked[i]
    BY <1>1, <1>2, <1>3
  <2>2. picked[dim] = Two(dim)
    BY <1>2, <1>3
  <2>3. [picked' EXCEPT ![dim] = Two(dim)] = picked
    BY <1>2, <1>3, <2>1, <2>2
  <2> QED BY <2>1, <2>3
<1>6. /\ Enrichment!Product(picked') \in Nat /\ p \in {1, 2}
      /\ p = 1 => cells = Enrichment!Product(picked')
      /\ p = 2 => cells = 2 * Enrichment!Product(picked')
  BY <1>1, <1>2, <1>3, ProductOfOneMore
<1>7. Cells'
  <2> DEFINE q == Enrichment!Product(picked')
  <2>1. q \in Nat /\ p \in {1, 2} /\ (p = 1 => cells = q) /\ (p = 2 => cells = 2 * q) /\ cells' = cells \div p
    BY <1>1, <1>6
  <2> HIDE DEF q, p
  <2>2. cells' = q
    BY <2>1
  <2> QED BY <1>1, <2>2 DEF Cells, q
<1>8. Cuts'
  <2>1. dim' \in 0..L /\ dim' + 1 = dim /\ dim' \in Int
    BY <1>1, <1>3
  <2>2. \A i \in 1..L : picked'[i] = IF i <= dim' THEN Two(i)' ELSE 1
    <3> TAKE i \in 1..L
    <3>0. dim \in Int /\ dim' = dim - 1 /\ i \in Int
      BY <1>1, <1>3
    <3>1. CASE i = dim
      <4>1. ~ (i <= dim')
        BY <3>0, <3>1
      <4> QED BY <1>5, <3>1, <4>1
    <3>2. CASE i # dim
      <4>1. i <= dim <=> i <= dim'
        BY <3>0, <3>2
      <4> QED BY <1>2, <1>4, <1>5, <3>2, <4>1
    <3> QED BY <3>1, <3>2
  <2>3. ([picked EXCEPT ![dim + 1] = Two(dim + 1)])' = picked
    <3>1. Two(dim + 1)' = Two(dim)
      BY <1>1, <2>1 DEF Two
    <3> QED BY <1>5, <2>1, <3>1
  <2>4. Enrichment!Product(picked) > limit
    <3>1. cells \in Int
      BY <1>6
    <3> QED BY <1>1, <1>2, <1>3, <3>1
  <2>5. Len(table)' = L
    BY <1>1 DEF L
  <2> QED BY <1>1, <1>2, <1>5, <2>1, <2>2, <2>3, <2>4, <2>5 DEF Cuts
<1>9. FromSample'
  BY <1>1 DEF FromSample
<1> QED BY <1>7, <1>8, <1>9 DEF EnrichmentInv

LEMMA CutsStay ==
  ASSUME Cuts, table' = table, limit' = limit, dim' = dim, picked' = picked
  PROVE  Cuts'
BY DEF Cuts, Two

LEMMA ReducedStep ==
  ASSUME Enrichment!EnrichmentAssumption, EnrichmentInv, Enrichment!Reduced
  PROVE  EnrichmentInv'
<1>1. /\ epc' = "asking" /\ (dim = 0 \/ cells <= limit)
      /\ table' = table /\ limit' = limit /\ dim' = dim /\ picked' = picked /\ cells' = cells
  BY DEF Enrichment!Reduced, Enrichment!Fits
<1>2. Cuts'
  BY <1>1, CutsStay DEF EnrichmentInv
<1>3. cells <= limit
  <2>1. CASE dim = 0
    <3>1. /\ Len(table) \in Nat /\ limit \in Nat \ {0} /\ picked \in [1..Len(table) -> {1, 2}]
          /\ \A i \in 1..Len(table) : picked[i] = 1
      <4>1. Len(table) \in Nat /\ limit \in Nat \ {0}
        BY TableIs DEF EnrichmentInv
      <4>2. \A i \in 1..Len(table) : ~ (i <= dim)
        BY <2>1
      <4> QED BY <4>1, <4>2 DEF EnrichmentInv, Cuts
    <3>2. cells = 1
      BY <3>1, ProductOfOnes DEF EnrichmentInv, Cells
    <3> QED BY <3>1, <3>2
  <2> QED BY <1>1, <2>1
<1>4. Cells' /\ FromSample'
  BY <1>1, <1>3 DEF EnrichmentInv, Cells, FromSample
<1> QED BY <1>2, <1>4 DEF EnrichmentInv

LEMMA SampledStep ==
  ASSUME EnrichmentInv, Enrichment!Sampled
  PROVE  EnrichmentInv'
<1>1. /\ epc = "asking" /\ epc' = "enriched"
      /\ table' = table /\ limit' = limit /\ dim' = dim /\ picked' = picked /\ cells' = cells
  BY DEF Enrichment!Sampled
<1>2. PICK a \in Samples : /\ Enrichment!Accepted(a) /\ answer' = a
       /\ ids' = Enrichment!Normalised(a).ids /\ sizes' = Enrichment!Normalised(a).sizes
       /\ keys' = Enrichment!Normalised(a).keys /\ index' = Enrichment!Normalised(a).index
       /\ extras' = Enrichment!Normalised(a).extras
  BY DEF Enrichment!Sampled
<1>3. Cuts' /\ Cells'
  BY <1>1, CutsStay DEF EnrichmentInv, Cells
<1>4. Enrichment!Normalised(a)' = Enrichment!Normalised(a)
  BY <1>1 DEF Enrichment!Normalised, Enrichment!Synthetic, Enrichment!Renamed, Enrichment!Codes, Enrichment!N, Enrichment!SizeOf
<1>5. Enrichment!Accepted(a)'
  <2>1. Enrichment!Unusable(a)' <=> Enrichment!Unusable(a)
    BY <1>1 DEF Enrichment!Unusable, Enrichment!Synthetic, Enrichment!Renamed, Enrichment!Codes,
       Enrichment!N, Enrichment!SizeOf
  <2>2. Enrichment!Codes' = Enrichment!Codes /\ Enrichment!N' = Enrichment!N
    BY <1>1 DEF Enrichment!Codes, Enrichment!N
  <2>3. \A c : Enrichment!AskedOf(c)' = Enrichment!AskedOf(c)
    BY <1>1 DEF Enrichment!AskedOf, Enrichment!N
  <2> DEFINE n == Enrichment!Normalised(a)
  <2>4. n' = n
    BY <1>4
  <2> HIDE DEF n
  <2>5. Enrichment!Matches(n)' <=> Enrichment!Matches(n)
    BY <2>2, <2>3, <2>4 DEF Enrichment!Matches, Enrichment!KeysMatch, Enrichment!SizesMatch, Enrichment!ExtrasChosen
  <2> QED BY <1>2, <2>1, <2>5 DEF Enrichment!Accepted, n
<1>6. FromSample'
  BY <1>2, <1>4, <1>5 DEF FromSample
<1> QED BY <1>3, <1>6 DEF EnrichmentInv

LEMMA EnrichmentStepInv ==
  ASSUME Enrichment!EnrichmentAssumption, EnrichmentInv, [Enrichment!Next]_Enrichment!vars
  PROVE  EnrichmentInv'
<1>1. CASE Enrichment!ReduceOne
  BY <1>1, ReduceOneStep
<1>2. CASE Enrichment!Reduced
  BY <1>2, ReducedStep
<1>3. CASE Enrichment!Sampled
  BY <1>3, SampledStep
<1>4. CASE Enrichment!AskFails
  <2>1. /\ epc = "asking" /\ epc' \in {"retried", "rejected"}
        /\ table' = table /\ limit' = limit /\ dim' = dim /\ picked' = picked /\ cells' = cells
    BY <1>4 DEF Enrichment!AskFails
  <2>2. Cuts'
    BY <2>1, CutsStay DEF EnrichmentInv
  <2> QED BY <2>1, <2>2 DEF EnrichmentInv, Cells, FromSample
<1>5. CASE UNCHANGED Enrichment!vars
  <2>1. /\ epc' = epc /\ table' = table /\ limit' = limit /\ dim' = dim /\ picked' = picked
        /\ cells' = cells /\ ids' = ids /\ sizes' = sizes /\ keys' = keys /\ index' = index
        /\ extras' = extras /\ answer' = answer
    BY <1>5 DEF Enrichment!vars
  <2>2. Cuts' /\ Cells'
    BY <2>1, CutsStay DEF EnrichmentInv, Cells
  <2>3. FromSample'
    <3>1. Enrichment!Codes' = Enrichment!Codes /\ Enrichment!N' = Enrichment!N
      BY <2>1 DEF Enrichment!Codes, Enrichment!N
    <3>2. \A c : Enrichment!AskedOf(c)' = Enrichment!AskedOf(c) /\ Enrichment!SizeOf(c)' = Enrichment!SizeOf(c)
      BY <2>1 DEF Enrichment!AskedOf, Enrichment!SizeOf, Enrichment!N
    <3>3. /\ Enrichment!Synthetic(answer)' <=> Enrichment!Synthetic(answer)
          /\ Enrichment!Renamed(answer)' <=> Enrichment!Renamed(answer)
      BY <2>1, <3>1, <3>2 DEF Enrichment!Synthetic, Enrichment!Renamed
    <3> DEFINE n == Enrichment!Normalised(answer)
    <3>4. n' = n
      BY <2>1, <3>3 DEF Enrichment!Normalised
    <3>5. Enrichment!Unusable(answer)' <=> Enrichment!Unusable(answer)
      BY <2>1, <3>3 DEF Enrichment!Unusable
    <3> HIDE DEF n
    <3>6. Enrichment!Matches(n)' <=> Enrichment!Matches(n)
      BY <3>1, <3>2, <3>4 DEF Enrichment!Matches, Enrichment!KeysMatch, Enrichment!SizesMatch, Enrichment!ExtrasChosen
    <3>7. Enrichment!Accepted(answer)' <=> Enrichment!Accepted(answer)
      BY <3>5, <3>6 DEF Enrichment!Accepted, n
    <3> QED BY <2>1, <3>4, <3>7 DEF EnrichmentInv, FromSample, n
  <2> QED BY <2>2, <2>3 DEF EnrichmentInv
<1> QED BY <1>1, <1>2, <1>3, <1>4, <1>5 DEF Enrichment!Next

\* Taking a position out of a list takes nothing else.
LEMMA WithoutIs ==
  ASSUME NEW T, NEW s \in Seq(T), NEW p \in 1..Len(s), NEW i \in 1..Len(s), i # p
  PROVE  \E j \in 1..Len(Enrichment!Without(s, p)) : Enrichment!Without(s, p)[j] = s[i]
<1> DEFINE w == Enrichment!Without(s, p)
<1>1. Len(s) \in Nat /\ Len(s) - 1 \in Nat
  OBVIOUS
<1>2. w = [j \in 1..(Len(s) - 1) |-> IF j < p THEN s[j] ELSE s[j + 1]]
  BY DEF Enrichment!Without
<1> HIDE DEF w
<1>3. Len(w) = Len(s) - 1
  BY <1>1, <1>2
<1>4. CASE i < p
  <2>1. i \in 1..(Len(s) - 1)
    BY <1>1, <1>4
  <2> QED BY <1>2, <1>3, <1>4, <2>1 DEF w
<1>5. CASE ~ (i < p)
  <2>1. i - 1 \in 1..(Len(s) - 1) /\ ~ (i - 1 < p) /\ (i - 1) + 1 = i
    BY <1>1, <1>5
  <2>2. w[i - 1] = s[i]
    BY <1>2, <2>1
  <2> QED BY <1>3, <2>1, <2>2 DEF w
<1> QED BY <1>4, <1>5

\* What an accepted answer has besides the table's dimensions.
LEMMA ExtraAxis ==
  ASSUME Enrichment!EnrichmentAssumption, NEW a \in Samples, Enrichment!Accepted(a),
         NEW i \in 1..Len(a.ids), a.ids[i] \notin Enrichment!Codes
  PROVE  a.ids[i] = Enrichment!Contents /\ a.sizes[i] = 1
<1> DEFINE n == Enrichment!Normalised(a)
<1>1. /\ DOMAIN a = {"ids", "sizes", "keys", "index", "extras"} /\ a.ids \in Seq(STRING)
  BY DEF Enrichment!EnrichmentAssumption
<1>2. ~ Enrichment!Unusable(a) /\ {n.ids[j] : j \in 1..Len(n.ids)} = Enrichment!Codes
  BY DEF Enrichment!Accepted, Enrichment!Matches
<1>3. n.ids # a.ids
  <2> HIDE DEF n
  <2> QED BY <1>2
<1>4. Enrichment!Synthetic(a) /\ Enrichment!PositionOf(a) # {}
  <2> SUFFICES ASSUME ~ (Enrichment!Synthetic(a) /\ Enrichment!PositionOf(a) # {}) PROVE n.ids = a.ids
    BY <1>3
  <2>1. CASE Enrichment!Synthetic(a)
    <3>1. n = [a EXCEPT !.keys = @ \ {Enrichment!Contents}]
      BY <2>1 DEF Enrichment!Normalised
    <3> QED BY <1>1, <3>1
  <2>2. CASE ~ Enrichment!Synthetic(a) /\ ~ Enrichment!Renamed(a)
    BY <2>2 DEF Enrichment!Normalised
  <2>3. CASE ~ Enrichment!Synthetic(a) /\ Enrichment!Renamed(a)
    <3>1. n = [a EXCEPT !.index[Enrichment!Contents] = "selection",
                        !.extras[Enrichment!Contents] = IF @ = {} THEN {} ELSE {"selected"}]
      BY <2>3 DEF Enrichment!Normalised
    <3> QED BY <1>1, <3>1
  <2> QED BY <2>1, <2>2, <2>3
<1> DEFINE p == CHOOSE j \in Enrichment!PositionOf(a) : TRUE
<1>5. p \in 1..Len(a.ids) /\ a.ids[p] = Enrichment!Contents /\ a.sizes[p] = 1
  <2>1. p \in Enrichment!PositionOf(a)
    BY <1>4
  <2> HIDE DEF p
  <2> QED BY <1>2, <1>4, <2>1 DEF Enrichment!PositionOf, Enrichment!Unusable
<1>6. n.ids = Enrichment!Without(a.ids, p)
  <2> DEFINE cut == [a EXCEPT !.keys = @ \ {Enrichment!Contents}]
  <2>1. cut.ids = a.ids /\ DOMAIN cut = DOMAIN a
    BY <1>1
  <2>2. n = [cut EXCEPT !.ids = Enrichment!Without(@, p), !.sizes = Enrichment!Without(@, p)]
    BY <1>4 DEF Enrichment!Normalised
  <2> HIDE DEF cut, p, n
  <2> QED BY <1>1, <2>1, <2>2
<1>7. i = p
  <2> HIDE DEF p, n
  <2> SUFFICES ASSUME i # p PROVE FALSE
    OBVIOUS
  <2>1. PICK j \in 1..Len(Enrichment!Without(a.ids, p)) : Enrichment!Without(a.ids, p)[j] = a.ids[i]
    BY <1>1, <1>5, WithoutIs
  <2> QED BY <1>2, <1>6, <2>1
<1> QED BY <1>5, <1>7

LEMMA EnrichmentInvImplies ==
  ASSUME Enrichment!EnrichmentAssumption, EnrichmentInv
  PROVE  Enrichment!SampleIsSound
<1>1. Enrichment!RequestFits
  BY DEF EnrichmentInv, Cuts, Cells, Two, Enrichment!RequestFits, Enrichment!N
<1>2. ASSUME epc = "enriched"
      PROVE  /\ Enrichment!Accepted(answer) /\ answer \in Samples
             /\ Len(ids) = Len(table) /\ keys = Enrichment!Codes
             /\ sizes = [i \in 1..Len(ids) |-> Enrichment!AskedOf(ids[i])]
             /\ \A c \in Enrichment!Codes : extras[c] \subseteq {"selected"}
  BY <1>2 DEF EnrichmentInv, FromSample, Enrichment!Accepted, Enrichment!Matches, Enrichment!KeysMatch,
     Enrichment!SizesMatch, Enrichment!ExtrasChosen, Enrichment!N
<1>3. Enrichment!SampleIsOfTable
  BY <1>2, ExtraAxis DEF Enrichment!SampleIsOfTable, Enrichment!N
<1>4. Enrichment!ExtrasAreOwn
  BY <1>2 DEF Enrichment!ExtrasAreOwn
<1> QED BY <1>1, <1>3, <1>4 DEF Enrichment!SampleIsSound

\* Whatever the table and the limit, the sample asked for is the largest that fits,
\* and whatever the answer, what is merged from it belongs to the table.
THEOREM SamplesAreSound == Enrichment!Spec => []SampleIsSound
<1>1. Enrichment!EnrichmentAssumption
  BY PartsAssumption
<1>2. Enrichment!Init => EnrichmentInv
  BY <1>1, EnrichmentInit
<1>3. EnrichmentInv /\ [Enrichment!Next]_Enrichment!vars => EnrichmentInv'
  BY <1>1, EnrichmentStepInv
<1>4. EnrichmentInv => Enrichment!SampleIsSound
  BY <1>1, EnrichmentInvImplies
<1> QED BY <1>2, <1>3, <1>4, PTL DEF SampleIsSound, Enrichment!Spec

-----------------------------------------------------------------------------
LEMMA EachPart ==
  MCSpec => Spec /\ Probe!Spec /\ Document!Spec /\ Enrichment!Spec /\ Attempts!Spec
<1>1. MCInit => Init /\ Probe!Init /\ Document!Init /\ Enrichment!Init /\ Attempts!Init
  BY DEF MCInit
<1> DEFINE any == [MCNext]_everything
<1>2. any => [Next]_vars
  BY DEF MCNext, One, InClient, InProbe, InDocument, InEnrichment, InAttempts, everything
<1>3. any => [Probe!Next]_(Probe!vars)
  BY DEF MCNext, One, InClient, InProbe, InDocument, InEnrichment, InAttempts, everything, ofProbe,
         Probe!vars, Probe!world
<1>4. any => [Document!Next]_(Document!vars)
  BY DEF MCNext, One, InClient, InProbe, InDocument, InEnrichment, InAttempts, everything, ofDocument,
         Document!vars
<1>5. any => [Enrichment!Next]_(Enrichment!vars)
  BY DEF MCNext, One, InClient, InProbe, InDocument, InEnrichment, InAttempts, everything, ofEnrichment,
         Enrichment!vars
<1>6. any => [Attempts!Next]_(Attempts!vars)
  BY DEF MCNext, One, InClient, InProbe, InDocument, InEnrichment, InAttempts, everything, ofAttempts,
         Attempts!vars
<1>7. MCSpec => MCInit /\ [][MCNext]_everything
  BY PTL DEF MCSpec
<1> QED
  BY <1>1, <1>2, <1>3, <1>4, <1>5, <1>6, <1>7, PTL
     DEF Spec, Probe!Spec, Document!Spec, Enrichment!Spec, Attempts!Spec

\* So the five machines side by side keep what each of them promises.
THEOREM FetchSafe ==
  MCSpec => [](/\ OneContent /\ CacheIsComplete /\ ProbeIsExact /\ DocumentsAreFaithful
               /\ V1RefusedForBlanks /\ SampleIsSound /\ SavedFromOneRound /\ EarlyFailureIsFinal)
<1> QED
  BY EachPart, SharedContent, OnlyComplete, ProbesAreExact, DocumentsFaithful, V1RefusesBlanksOnly,
     SamplesAreSound, OneRoundSaved, EarlyFailuresFinal, PTL
====
