---- MODULE MCFetch ----
(* The five machines that make a document of a dataset, on small instances:  *)
(* Kolada's shared catalogues and its probes, the sample of a PXWeb v1       *)
(* table, the documents of both PXWeb versions, and what the runner's        *)
(* retries make of the answers they need.  They meet in their results only,  *)
(* so an execution looks at one of them and the others rest in an initial    *)
(* state.                                                                    *)
EXTENDS KoladaClient, FiniteSetsExt

CONSTANTS Catalogues, Riket, Units, First, FirstChange, Last, Limit, Worlds,
          V1Payloads, V2Payloads, Tables, Limits, Samples, Requests, Tries, Rounds

VARIABLES
  part,
  bpc, kind, type, catalogue, valued, empty, todo, years, found, asked, result,
  dpc, api, payload, document, periods,
  epc, table, limit, picked, dim, cells, ids, sizes, keys, index, extras, answer,
  rpc, adapter, round, step, try, log, payloads

Probe      == INSTANCE KoladaProbe WITH pc <- bpc, ids <- found
Document   == INSTANCE Documents WITH pc <- dpc
Enrichment == INSTANCE PxwebV1Enrichment WITH pc <- epc, at <- dim
Attempts   == INSTANCE Resolution WITH pc <- rpc, Plans <- Requests

ASSUME PartsAssumption ==
  /\ Probe!ProbeAssumption /\ Document!DocumentsAssumption
  /\ Enrichment!EnrichmentAssumption /\ Attempts!ResolutionAssumption

ofProbe      == <<bpc, kind, type, catalogue, valued, empty, todo, years, found, asked, result>>
ofDocument   == <<dpc, api, payload, document, periods>>
ofEnrichment == <<epc, table, limit, picked, dim, cells, ids, sizes, keys, index, extras, answer>>
ofAttempts   == <<rpc, adapter, round, step, try, log, payloads>>
everything   == <<part, vars, ofProbe, ofDocument, ofEnrichment, ofAttempts>>

MCInit ==
  /\ part \in {"client", "probe", "document", "enrichment", "attempts"}
  /\ part # "client" => plan = [t \in Task |-> CHOOSE p \in Plans : TRUE]
  /\ part # "probe" =>
       kind = "data" /\ type = "K" /\ catalogue = <<>> /\ valued = {} /\ empty = {}
  /\ part # "document" => api = "v1" /\ payload = <<>>
  /\ part # "enrichment" =>
       table = (CHOOSE t \in Tables : TRUE) /\ limit = (CHOOSE n \in Limits : TRUE)
  /\ part # "attempts" => adapter = "v2"
  /\ Document!Init /\ Init /\ Enrichment!Init /\ Attempts!Init /\ Probe!Init

InClient     == part = "client" /\ UNCHANGED <<part, ofProbe, ofDocument, ofEnrichment, ofAttempts>>
InProbe      == part = "probe" /\ UNCHANGED <<part, vars, ofDocument, ofEnrichment, ofAttempts>>
InDocument   == part = "document" /\ UNCHANGED <<part, vars, ofProbe, ofEnrichment, ofAttempts>>
InEnrichment == part = "enrichment" /\ UNCHANGED <<part, vars, ofProbe, ofDocument, ofAttempts>>
InAttempts   == part = "attempts" /\ UNCHANGED <<part, vars, ofProbe, ofDocument, ofEnrichment>>

One ==
  \/ InProbe /\ Probe!Next
  \/ InDocument /\ Document!Next
  \/ InAttempts /\ Attempts!Next

MCNext ==
  \/ One
  \/ InEnrichment /\ Enrichment!Next
  \/ InClient /\ Next

\* The event loop runs every task that can run, every request ends by an answer
\* or its timeout, and every backoff passes; nobody has to cancel.
MCSpec ==
  /\ MCInit /\ [][MCNext]_everything
  /\ WF_everything(One) /\ \A t \in Task : WF_everything(InClient /\ Goes(t))

-----------------------------------------------------------------------------
\* Years and areas of a KPI, and the change feed: see KoladaProbe.
ProbeIsExact == Probe!ProbeIsExact

\* Both PXWeb versions and the schema: see Documents.
DocumentsAreFaithful == Document!DocumentsAreFaithful
V1RefusedForBlanks == Document!V1RefusedForBlanks

\* The sample of a PXWeb v1 table: see PxwebV1Enrichment.
SampleIsSound == Enrichment!SampleIsSound

\* One dataset's requests over all its attempts: see Resolution.
SavedFromOneRound == Attempts!SavedFromOneRound
EarlyFailureIsFinal == Attempts!EarlyFailureIsFinal

\* Each of them ends: the tasks although others fail or are cancelled while they
\* hold a lock and links may lead back, the rest whatever is answered.  (The
\* sample's loop counts down, and is left out.)
FetchEnds ==
  <>CASE part = "client" -> \A t \in Task : pc[t] \in {"done", "failed", "cancelled"}
      [] part = "probe"      -> bpc \in {"built", "failed"}
      [] part = "document"   -> dpc \in {"valid", "rejected", "failed"}
      [] part = "enrichment" -> TRUE
      [] part = "attempts"   -> rpc \in {"saved", "failed"}

-----------------------------------------------------------------------------
MCPlans    == {<<"kpis", "places">>, <<"places">>}
MCListings == [c \in Cache |-> IF c = "kpis" THEN <<"k", "g">> ELSE <<"m">>]

Area(i, t)   == [id |-> i, type |-> t]
MCCatalogues ==
  {<<Area("a", "K"), Area("b", "K"), Area("0000", "L")>>, <<Area("0000", "L"), Area("c", "L")>>,
   <<Area("a", "K")>>, <<>>}
Facts    == {"a", "0000", "u"} \X {1, 3, 5}
MCWorlds == UNION {kSubset(n, Facts) : n \in 0..1} \cup kSubset(2, {"a", "0000"} \X {1, 5})

UpTo2(S) == UNION {[1..n -> S] : n \in 0..2}
Variable(c, t, v, x, r) == [code |-> c, text |-> t, values |-> v, texts |-> x, role |-> r]
Plain == Variable(1, 5, <<2, 1>>, <<8, 7>>, "time")
Any   == {Variable(c, t, v, x, r) : c \in {0, 1, 2}, t \in {-1, 0, 5}, v \in UpTo2({0, 1, 2}),
           x \in UpTo2({-1, 0, 6}), r \in {"time", "geo", "none"}}
MCV1  == {<<>>} \cup {<<v>> : v \in Any} \cup {<<v, Plain>> : v \in Any} \cup {<<Plain, v>> : v \in Any}

Dim(t, f, c, o, l) == [text |-> t, form |-> f, cats |-> c, ord |-> o, label |-> l]
Labels == UNION {[S -> {0, 6}] : S \in SUBSET {1, 2}}
Dims ==
  {Dim(t, "dict", c, o, l) : t \in {-1, 0, 5}, c \in {<<1>>, <<2, 1>>, <<0, 1>>}, o \in UpTo2({0, 1, 2}) \ {<<>>},
     l \in Labels}
  \cup {Dim(5, "list", c, <<>>, l) : c \in UpTo2({0, 1, 2}), l \in Labels}
  \cup {Dim(5, "labels", c, <<>>, l) : c \in {<<1, 2>>}, l \in [{1, 2} -> {0, 6}]}
  \cup {Dim(5, "none", <<>>, <<>>, l) : l \in {[x \in {} |-> 0]}}
Given  == {d \in Dims : d.form = "dict" => Len(d.ord) = Len(d.cats)}
Good   == Dim(5, "list", <<2, 1>>, <<>>, [x \in {1} |-> 6])
Role   == {"time", "geo", "metric"}
NoRole == [r \in Role |-> <<>>]
MCV2 ==
  {[ids |-> <<1>>, dims |-> [c \in {1} |-> d], role |-> NoRole] : d \in Given}
  \cup {[ids |-> s, dims |-> [c \in k |-> Good], role |-> [NoRole EXCEPT !["time"] = t, !["geo"] = g]]
     : s \in UpTo2({0, 1, 2}), k \in {{1}, {1, 2}}, t \in UpTo2({0, 1, 2, 9}), g \in UpTo2({1, 2})}

Metric == "ContentsCode"
Codes  == {"A", "B", Metric}
MCTables ==
  {<<[code |-> c, size |-> n]>> : c \in {"A", Metric}, n \in 1..3} \cup
  {<<[code |-> "A", size |-> m], [code |-> c, size |-> n]>> :
     c \in {"B", Metric}, m \in 1..3, n \in 1..3}
  \cup {<<[code |-> "A", size |-> 2], [code |-> "B", size |-> 2],
          [code |-> Metric, size |-> n]>> : n \in 1..2}

\* Answers that are odd in the metadata of at most one dimension.
Fine(v) == [c \in Codes |-> v]
Axes == UNION {[1..n -> Codes] \X [1..n -> 1..2] : n \in 0..3} \cup {<<<<"A", "B">>, <<2>>>>}
Odd  == {<<"A", "selection", {"selected"}>>, <<"A", "other", {"selected"}>>,
         <<"A", "placeholder", {"selected"}>>, <<"A", "selection", {"marker"}>>,
         <<"A", "selection", {"other"}>>} \cup
        {<<Metric, x, e>> : x \in {"other", "placeholder"},
                            e \in {{}, {"selected"}, {"marker"}, {"other"}}}
MCSamples ==
  {[ids |-> s[1], sizes |-> s[2], keys |-> k,
    index |-> [Fine("selection") EXCEPT ![o[1]] = o[2]],
    extras |-> [Fine({"selected"}) EXCEPT ![o[1]] = o[3]]] :
     s \in Axes, k \in {{"A"}, {"A", "B"}, {"A", Metric}, Codes}, o \in Odd}

MCRequests == [v1 |-> <<"get", "post">>, v2 |-> <<"get">>, kolada |-> <<"get", "get">>]
====
