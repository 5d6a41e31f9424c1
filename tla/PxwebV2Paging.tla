---- MODULE PxwebV2Paging ----
(* PxWebV2ProviderAdapter._discover_candidates: /tables is read page by page *)
(* while the provider may add and remove tables, and every table found goes  *)
(* to execute(), which fails on one it has seen.                             *)
EXTENDS Integers, Sequences, FiniteSets, SequencesExt

CONSTANTS
  Table,
  Unusable,    \* tables that make no DatasetCandidate: logged and left out
  PageSize,    \* 1000
  Listings,    \* what /tables may list at first
  MaxChanges,  \* bound on the provider's changes, for TLC only
  MaxPage      \* bound on page_number, for TLC only: above any that is reached

\* /tables names each table once.
PagingAssumption ==
  /\ Unusable \subseteq Table
  /\ Listings \subseteq Seq(Table) /\ \A s \in Listings : IsInjective(s)
  /\ PageSize \in Nat \ {0} /\ MaxChanges \in Nat /\ MaxPage \in Nat

VARIABLES
  listing, paged,     \* the provider: its order, and whether answers are paged
  page,               \* page_number
  tables, last,       \* of the page in hand: tables to go, current >= total
  seen,               \* execute's seen
  pc,
  initial, removed,   \* history: the first listing, what was ever taken out
  pulled, pushed,     \* history: a removal, an addition in front of the cursor
  again,              \* history: a table that was read came back
  changes

provider == <<listing, changes, removed, pulled, pushed, again>>
vars == <<provider, paged, page, tables, last, seen, pc, initial>>

Ended == {"complete", "duplicate", "failed"}
Least(a, b) == IF a < b THEN a ELSE b

\* The positions of the listing that page n holds.
Slice(n) ==
  IF paged THEN SubSeq(listing, (n - 1) * PageSize + 1, Least(n * PageSize, Len(listing)))
  ELSE listing
TotalPages == (Len(listing) + PageSize - 1) \div PageSize
Read       == IF page = 0 THEN 0 ELSE IF paged THEN page * PageSize ELSE Len(listing)

Init ==
  /\ listing \in Listings /\ initial = listing /\ paged \in BOOLEAN
  /\ page = 0 /\ tables = <<>> /\ last = FALSE /\ seen = {} /\ pc = "fetch"
  /\ removed = {} /\ pulled = FALSE /\ pushed = FALSE /\ again = FALSE /\ changes = 0

\* An answer without a page object counts as the only page.
ExactlyLast(n) == ~ paged \/ n = TotalPages
BeforeLast(n)  == ~ paged \/ n + 1 >= TotalPages
IsLast(n)      == ~ paged \/ n >= TotalPages

FetchFirstTwice ==
  /\ pc = "fetch" /\ page < MaxPage
  /\ page' = page + 1
  /\ tables' = Slice(IF page = 0 THEN 1 ELSE page) /\ last' = IsLast(page + 1)
  /\ pc' = "yield"
  /\ UNCHANGED <<provider, paged, seen, initial>>

Fetch ==
  /\ pc = "fetch" /\ page < MaxPage
  /\ page' = page + 1
  /\ tables' = Slice(page + 1) /\ last' = IsLast(page + 1)
  /\ pc' = "yield"
  /\ UNCHANGED <<provider, paged, seen, initial>>

\* No JSON object, or one without a list of tables, is a RuntimeError.
FailureEndsListing(outcome) == pc' = "complete"
FetchFailure(outcome)       == pc' = outcome
FetchFails ==
  /\ pc = "fetch" /\ page < MaxPage
  /\ page' = page + 1 /\ FetchFailure("failed")
  /\ UNCHANGED <<provider, paged, tables, last, seen, initial>>

Drop ==
  /\ pc = "yield" /\ tables # <<>> /\ Head(tables) \in Unusable
  /\ tables' = Tail(tables)
  /\ UNCHANGED <<provider, paged, page, last, seen, pc, initial>>

Yield ==
  /\ pc = "yield" /\ tables # <<>> /\ Head(tables) \notin Unusable
  /\ IF Head(tables) \in seen THEN pc' = "duplicate" /\ UNCHANGED <<tables, seen>>
     ELSE tables' = Tail(tables) /\ seen' = seen \cup {Head(tables)} /\ UNCHANGED pc
  /\ UNCHANGED <<provider, paged, page, last, initial>>

PageDone ==
  /\ pc = "yield" /\ tables = <<>>
  /\ pc' = IF last THEN "complete" ELSE "fetch"
  /\ UNCHANGED <<provider, paged, page, tables, last, seen, initial>>

\* The provider publishes and withdraws tables at any position, at any time.
ReadTables == seen \cup {tables[i] : i \in 1..Len(tables)}
Publish(t, i) ==
  /\ pc \notin Ended /\ changes < MaxChanges
  /\ ~ \E k \in 1..Len(listing) : listing[k] = t
  /\ listing' = InsertAt(listing, i, t)
  /\ pushed' = (pushed \/ i <= Read) /\ again' = (again \/ t \in ReadTables)
  /\ changes' = changes + 1
  /\ UNCHANGED <<removed, pulled, paged, page, tables, last, seen, pc, initial>>

Withdraw(i) ==
  /\ pc \notin Ended /\ changes < MaxChanges
  /\ listing' = RemoveAt(listing, i)
  /\ removed' = removed \cup {listing[i]} /\ pulled' = (pulled \/ i <= Read)
  /\ changes' = changes + 1
  /\ UNCHANGED <<pushed, again, paged, page, tables, last, seen, pc, initial>>

Discover == Fetch \/ FetchFails \/ Drop \/ Yield \/ PageDone
Change ==
  \/ \E t \in Table, i \in 1..Len(listing) + 1 : Publish(t, i)
  \/ \E i \in 1..Len(listing) : Withdraw(i)
Next == Discover \/ Change

Spec == Init /\ [][Next]_vars

-----------------------------------------------------------------------------
\* A complete listing has every usable table that stood in /tables from the first
\* request to the last, unless a table was withdrawn in front of the page reached:
\* only that can pull one across a page boundary unread.  The run dies of a
\* duplicate only of a table published in front of the page reached, or of one
\* read that came back.  So if the provider changes nothing, complete is exact.
FaultsAreExplained ==
  /\ pc = "complete" /\ ~ pulled =>
       \A i \in 1..Len(initial) : initial[i] \in seen \cup removed \cup Unusable
  /\ pc = "duplicate" => pushed \/ again
  /\ pc = "complete" /\ changes = 0 =>
       seen = {initial[i] : i \in 1..Len(initial)} \ Unusable
====
