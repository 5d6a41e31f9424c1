---- MODULE PxwebV1Enrichment ----
(* pxweb_v1/enrichment.py: the metadata of a table, read with GET, gets      *)
(* units, notes and links from a sample of its data.  The sample's request   *)
(* is cut down to cell_limit; its answer, in any order and any shape, is     *)
(* matched to the GET metadata or refused.                                   *)
EXTENDS Integers, Sequences

CONSTANTS
  Tables,     \* GET metadata: sequences of [code, size]
  Limits,     \* values of cell_limit
  Samples     \* JSON-stat2 answers

Contents == "ContentsCode"

\* A dimension of the GET metadata has a category; a sample is read field by field.
EnrichmentAssumption ==
  /\ Limits \subseteq Nat \ {0}
  /\ \A t \in Tables : t \in Seq([code : STRING, size : Nat \ {0}])
  /\ \A a \in Samples :
       DOMAIN a = {"ids", "sizes", "keys", "index", "extras"} /\ a.ids \in Seq(STRING) /\ a.sizes \in Seq(Int)

VARIABLES
  pc, table, limit,
  picked,     \* how many categories of each dimension are asked for, in order
  at, cells,  \* the loop over reversed(metadata.id)
  ids, sizes, keys, index, extras,   \* of the answer, after normalisation
  answer      \* history: the answer as it came
vars == <<pc, table, limit, picked, at, cells, ids, sizes, keys, index, extras, answer>>

sample == <<ids, sizes, keys, index, extras, answer>>

N        == Len(table)
Codes    == {table[i].code : i \in 1..N}
SizeOf(c) == table[CHOOSE i \in 1..N : table[i].code = c].size
AskedOf(c) == picked[CHOOSE i \in 1..N : table[i].code = c]
Product(s) ==
  LET upTo[n \in 0..Len(s)] == IF n = 0 THEN 1 ELSE upTo[n - 1] * s[n] IN upTo[Len(s)]
Least(a, b) == IF a < b THEN a ELSE b

Init ==
  /\ pc = "reduce" /\ table \in Tables /\ limit \in Limits
  /\ picked = [i \in 1..N |-> Least(2, table[i].size)]
  /\ at = N /\ cells = Product(picked)
  /\ ids = <<>> /\ sizes = <<>> /\ keys = {} /\ index = <<>> /\ extras = <<>>
  /\ answer = <<>>

-----------------------------------------------------------------------------
\* From the last dimension to the first, one category instead of two until the
\* request fits.
DivideByPicked == cells \div picked[at]

FitsNearly == cells <= limit + 1
Fits       == cells <= limit

ReduceOne ==
  /\ pc = "reduce" /\ at > 0 /\ ~ Fits
  /\ cells' = DivideByPicked
  /\ picked' = [picked EXCEPT ![at] = 1]
  /\ at' = at - 1
  /\ UNCHANGED <<pc, table, limit, sample>>

Reduced ==
  /\ pc = "reduce" /\ (at = 0 \/ Fits)
  /\ pc' = "asking"
  /\ UNCHANGED <<table, limit, picked, at, cells, sample>>

\* No answer, 429 or 5xx raise ExternalAPIError, which the runner retries; any
\* other status, an answer that is not a JSON-stat2 dataset, and one that is not
\* Accepted, below, end the dataset.
AskFails ==
  /\ pc = "asking" /\ pc' \in {"retried", "rejected"}
  /\ UNCHANGED <<table, limit, picked, at, cells, sample>>

-----------------------------------------------------------------------------
(* A singleton metric may be made up by the server, and a real one may come  *)
(* under a marker; both are recognised by the index of ContentsCode.         *)

Without(s, i) == [j \in 1..(Len(s) - 1) |-> IF j < i THEN s[j] ELSE s[j + 1]]

WellFormed(a) ==
  Len(a.sizes) = Len(a.ids) /\ \A i, j \in 1..Len(a.ids) : a.ids[i] = a.ids[j] => i = j
Placeholder(a) ==
  WellFormed(a) /\ Contents \in a.keys /\ a.index[Contents] = "placeholder"

Synthetic(a) == Placeholder(a) /\ Contents \notin Codes
Renamed(a)   == Placeholder(a) /\ Contents \in Codes /\ SizeOf(Contents) = 1

PositionOf(a)   == {i \in 1..Len(a.ids) : a.ids[i] = Contents}
Unusable(a) ==
  \/ Synthetic(a) /\ \E i \in PositionOf(a) : a.sizes[i] # 1
  \/ Renamed(a) /\ ~ a.extras[Contents] \subseteq {"marker"}

Normalised(a) ==
  IF Synthetic(a)
  THEN LET cut == [a EXCEPT !.keys = @ \ {Contents}]
       IN  IF PositionOf(a) = {} THEN cut
           ELSE LET i == CHOOSE i \in PositionOf(a) : TRUE
                IN  [cut EXCEPT !.ids = Without(@, i), !.sizes = Without(@, i)]
  ELSE IF Renamed(a)
  THEN [a EXCEPT !.index[Contents] = "selection",
                 !.extras[Contents] = IF @ = {} THEN {} ELSE {"selected"}]
  ELSE a

SizesByPosition(n) == n.sizes = picked
SizesMatch(n) == n.sizes = [i \in 1..Len(n.ids) |-> AskedOf(n.ids[i])]

KeysMatch(n) == n.keys = Codes

ExtrasKnown(n, c)  == n.extras[c] \subseteq {"selected", "marker"}
ExtrasChosen(n, c) == n.extras[c] \subseteq {"selected"}

Matches(n) ==
  /\ Len(n.ids) = N /\ {n.ids[i] : i \in 1..Len(n.ids)} = Codes
  /\ KeysMatch(n)
  /\ SizesMatch(n)
  /\ \A c \in Codes : n.index[c] = "selection" /\ ExtrasChosen(n, c)

Accepted(a) == ~ Unusable(a) /\ Matches(Normalised(a))

Sampled ==
  /\ pc = "asking" /\ pc' = "enriched"
  /\ \E a \in {b \in Samples : Accepted(b)} :
       /\ answer' = a
       /\ ids' = Normalised(a).ids /\ sizes' = Normalised(a).sizes
       /\ keys' = Normalised(a).keys /\ index' = Normalised(a).index
       /\ extras' = Normalised(a).extras
  /\ UNCHANGED <<table, limit, picked, at, cells>>

Next == ReduceOne \/ Reduced \/ AskFails \/ Sampled
Spec == Init /\ [][Next]_vars

-----------------------------------------------------------------------------
\* The request never asks for more than cell_limit cells, and asks for as much as
\* the rule allows: a cut dimension was cut because the request did not fit.
RequestFits ==
  pc # "reduce" =>
    /\ Product(picked) <= limit
    /\ at < N => Product([picked EXCEPT ![at + 1] = Least(2, table[at + 1].size)]) > limit

\* An accepted sample is about exactly the dimensions of the GET metadata, each
\* axis as long as what was asked of that dimension, in whatever order they come;
\* an extra axis is only ever the server's own singleton metric.
SampleIsOfTable ==
  pc = "enriched" =>
    /\ keys = Codes /\ Len(ids) = N
    /\ \A i \in 1..N : sizes[i] = AskedOf(ids[i])
    /\ \A i \in 1..Len(answer.ids) : answer.ids[i] \notin Codes =>
         answer.ids[i] = Contents /\ answer.sizes[i] = 1

\* Units and notes are merged for categories of the GET metadata only, never for
\* the server's marker.
ExtrasAreOwn ==
  pc = "enriched" => \A c \in Codes : extras[c] \subseteq {"selected"}

\* The sample asked for is the largest the limit and the order of the cuts allow,
\* and what is merged from its answer belongs to the table.
SampleIsSound == RequestFits /\ SampleIsOfTable /\ ExtrasAreOwn
====
