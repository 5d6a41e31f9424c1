---- MODULE MCDiscovery ----
(* The four machines that find a provider's tables, on small instances.      *)
(* They meet in their results only: a crawl is what a listing falls back to, *)
(* a listing is what a database contributes, /tables is the other version's. *)
(* An execution looks at one of them, the others rest in an initial state.   *)
EXTENDS PxwebV1Crawl, FiniteSetsExt

CONSTANTS TableId, TableFold, WebPath, NoPath, FlatAnswers, WebAnswers,
          Databases, DatabaseId, Place, Stamp, NoStamp, DatabaseListings,
          Table, Unusable, PageSize, PageListings, MaxChanges, MaxPage

VARIABLES
  part,
  lpc, flat, web, short, todo, metadata, result, how, trouble,
  dpc, db, listed, ready, taken, lost, broken,
  ppc, listing, paged, page, tables, last, seen, initial, removed, pulled, pushed,
  again, changes

Listing == INSTANCE PxwebV1Listing WITH
  Id <- TableId, Fold <- TableFold, Path <- WebPath, pc <- lpc
Provider == INSTANCE PxwebV1Discovery WITH
  Id <- DatabaseId, Path <- Place, Listings <- DatabaseListings, pc <- dpc
Paging == INSTANCE PxwebV2Paging WITH Listings <- PageListings, pc <- ppc

ASSUME PartsAssumption ==
  Listing!ListingAssumption /\ Provider!DiscoveryAssumption /\ Paging!PagingAssumption

ofListing  == <<lpc, flat, web, short, todo, metadata, result, how, trouble>>
ofProvider == <<dpc, db, listed, ready, taken, lost, broken>>
ofPaging   == <<ppc, listing, paged, page, tables, last, seen, initial, removed,
                pulled, pushed, again, changes>>
everything == <<part, vars, ofListing, ofProvider, ofPaging>>

MCInit ==
  /\ part \in {"crawl", "listing", "provider", "paging"}
  /\ Init /\ Listing!Init /\ Provider!Init
  /\ part # "paging" => initial = <<>> /\ paged = FALSE
  /\ Paging!Init

InCrawl    == part = "crawl" /\ UNCHANGED <<part, ofListing, ofProvider, ofPaging>>
InListing  == part = "listing" /\ UNCHANGED <<part, vars, ofProvider, ofPaging>>
InProvider == part = "provider" /\ UNCHANGED <<part, vars, ofListing, ofPaging>>
InPaging   == part = "paging" /\ UNCHANGED <<part, vars, ofListing, ofProvider>>

Reader ==
  \/ InCrawl /\ Next
  \/ InListing /\ Listing!Next
  \/ InProvider /\ Provider!Next
  \/ InPaging /\ Paging!Discover

\* The provider may publish and withdraw tables while /tables is read.
Changing == InPaging /\ Paging!Change

MCNext == Reader \/ Changing
MCSpec == MCInit /\ [][MCNext]_everything /\ WF_everything(Reader)

-----------------------------------------------------------------------------
\* list_pxweb_tables: see PxwebV1Listing.
WebListIsSound == Listing!WebListIsSound

\* PxwebV1Adapter's databases and execute's loop: see PxwebV1Discovery.
CompleteHasAll == Provider!CompleteHasAll
CodeIsOneTable == Provider!CodeIsOneTable
ListingFailureStopsRun == Provider!ListingFailureStopsRun

\* /tables while the provider changes it: see PxwebV2Paging.
FaultsAreExplained == Paging!FaultsAreExplained

\* Each of them ends: the crawl although every folder may name another one, the
\* listing through all its sources, the databases whatever they list or however
\* they fail, /tables although its total moves.
DiscoveryEnds ==
  <>CASE part = "crawl"    -> pc \in {"done", "failed"}
      [] part = "listing"  -> lpc \in {"returned", "failed"}
      [] part = "provider" -> dpc \in {"complete", "failed"}
      [] part = "paging"   -> ppc \in Paging!Ended

-----------------------------------------------------------------------------
MCFold      == [i \in Id |-> IF i = "A" THEN "a" ELSE i]
SomeEntries == [type : {"l", "t"}, id : Id] \cup {[type |-> "other", id |-> "a"]}
UpTo2(S)    == UNION {[1..n -> S] : n \in 0..2}
MCAnswers   == UpTo2(SomeEntries)

MCTableFold   == [i \in TableId |-> IF i = "A" THEN "a" ELSE i]
MCFlatAnswers == UpTo2([id : TableId \ {"A"}, path : WebPath \cup {NoPath}])
MCWebAnswers  == UpTo2([id : TableId, path : WebPath] \cup {[id |-> "b", path |-> NoPath]})

MCDatabases == <<"d1", "d2">>
Occurrence  == [id : DatabaseId, path : Place, stamp : Stamp \cup {NoStamp}]
MCDatabaseListings ==
  {S \in UNION {kSubset(n, Occurrence) : n \in 1..3} :
     \A o, p \in S : o.id = p.id /\ o.path = p.path => o = p}

MCTable        == 1..5
MCPageListings == {<<>>, <<1>>, <<1, 2>>, <<1, 2, 3, 4>>, <<3, 2, 1>>, <<5, 3, 1, 2, 4>>}
====
