---- MODULE KoladaProbe ----
(* kolada/client.py and parsing.py: which years and areas, or units, have a  *)
(* value is found by asking for all of them, at most Limit of each at a      *)
(* time.  The dimensions of a KPI, and the KPIs changed since a date, are    *)
(* what the answers of all batches say together.                             *)
EXTENDS Filtering, FiniteSets

CONSTANTS
  Catalogues,             \* /municipality: sequences of [id, type]
  Riket,                  \* "0000", the national total
  Units,                  \* organizational units
  First, FirstChange, Last,\* years: 1970, 2010, this year + 3
  Limit,                  \* MAX_FILTER_VALUES
  Worlds                  \* what the server has: sets of <<area or unit, year>>

Year == First..Last
Elems(s) == {s[i] : i \in 1..Len(s)}

\* /municipality names each area once.
ProbeAssumption ==
  /\ First \in Nat /\ Last \in Nat /\ FirstChange \in Nat /\ First <= FirstChange
  /\ Limit \in Nat \ {0}
  /\ \A c \in Catalogues :
       c \in Seq(Elems(c)) /\ \A i, j \in 1..Len(c) : c[i].id = c[j].id => i = j

VARIABLES
  kind,         \* "data", "oudata" or "changes": what is asked for
  type,         \* municipality_type of the KPI
  catalogue,
  valued, empty,\* entries with a value; entries that are null or deleted
  pc, todo,     \* batches still to ask
  years, ids,   \* found so far; a KPI is in a change feed if any area has an entry
  asked,        \* history: the batches in order
  result
world == <<kind, type, catalogue, valued, empty>>
vars  == <<world, pc, todo, years, ids, asked, result>>

NoResult == [kind |-> "none"]

Init ==
  /\ kind \in {"data", "oudata", "changes"} /\ type \in {"K", "L", "A", "other"}
  /\ catalogue \in Catalogues /\ valued \in Worlds /\ empty \in Worlds
  /\ valued \cap empty = {}
  /\ pc = "start" /\ todo = <<>> /\ years = {} /\ ids = {} /\ asked = <<>>
  /\ result = NoResult

-----------------------------------------------------------------------------
Ids(c) == [i \in 1..Len(c) |-> c[i].id]
OfType(k) == Ids(Only(catalogue, {m \in Elems(catalogue) : m.type = k}))

\* candidate_municipality_ids: Riket, itself of type L, goes with type K too.
WithoutRiket ==
  CASE type = "A" -> Ids(catalogue) [] type = "L" -> OfType("L") [] OTHER -> OfType("K")
Candidates ==
  IF type = "K" /\ Riket \in Elems(Ids(catalogue)) \ Elems(OfType("K"))
  THEN Append(OfType("K"), Riket)
  ELSE WithoutRiket

YearsFrom(y) == [i \in 1..(IF y <= Last THEN Last - y + 1 ELSE 0) |-> y + i - 1]

\* batch_values and build_data_request_batches.
Least(a, b) == IF a < b THEN a ELSE b
Overlapping(s) ==
  [i \in 1..((Len(s) + Limit - 1) \div Limit) |->
     SubSeq(s, (i - 1) * Limit + 1, Least(i * Limit + 1, Len(s)))]
Batches(s) ==
  [i \in 1..((Len(s) + Limit - 1) \div Limit) |->
     SubSeq(s, (i - 1) * Limit + 1, Least(i * Limit, Len(s)))]

Pairs(areas, ys) ==
  LET A == Batches(areas)  Y == Batches(ys)
  IN  [n \in 1..(Len(A) * Len(Y)) |->
         [of |-> Elems(A[(n - 1) \div Len(Y) + 1]), in |-> Elems(Y[((n - 1) % Len(Y)) + 1])]]

\* fetch_year_and_ou_presence: one request per year, for every unit.
YearByYear(ys) == [n \in 1..Len(ys) |-> [of |-> Units, in |-> {ys[n]}]]

Plan ==
  CASE kind = "data"    -> Pairs(Candidates, YearsFrom(First))
    [] kind = "oudata"  -> YearByYear(YearsFrom(First))
    [] kind = "changes" -> Pairs(Ids(catalogue), YearsFrom(FirstChange))

Start ==
  /\ pc = "start"
  /\ IF (kind = "data" /\ type = "other") \/ (kind = "changes" /\ catalogue = <<>>)
     THEN pc' = "failed" /\ UNCHANGED todo
     ELSE pc' = "asking" /\ todo' = Plan
  /\ UNCHANGED <<world, years, ids, asked, result>>

\* extract_presence counts what has a value; a change feed counts every entry.
Entries(batch) == {e \in valued \cup empty : e[1] \in batch.of /\ e[2] \in batch.in}
OnlyValues(batch) == Entries(batch) \cap valued
Present(batch)   == IF kind = "changes" THEN Entries(batch) ELSE Entries(batch) \cap valued

Ask ==
  /\ pc = "asking" /\ todo # <<>>
  /\ years' = years \cup {e[2] : e \in Present(Head(todo))}
  /\ ids' = ids \cup {e[1] : e \in Present(Head(todo))}
  /\ asked' = Append(asked, Head(todo))
  /\ todo' = Tail(todo)
  /\ UNCHANGED <<world, pc, result>>

\* A page that fails, or an entry that cannot be read, fails the whole dataset.
AskFails ==
  /\ pc = "asking" /\ todo # <<>>
  /\ pc' = "failed"
  /\ UNCHANGED <<world, todo, years, ids, asked, result>>

\* Dimensions need a year and an area; a change feed may be empty.
Earliest == CHOOSE y \in years : \A z \in years : y <= z
Latest   == CHOOSE y \in years : \A z \in years : z <= y

Finish ==
  /\ pc = "asking" /\ todo = <<>>
  /\ IF kind # "changes" /\ (years = {} \/ ids = {})
     THEN pc' = "failed" /\ UNCHANGED result
     ELSE /\ pc' = "built"
          /\ result' = IF kind = "changes" THEN [kind |-> kind, changed |-> ids # {}]
                       ELSE [kind |-> kind, ids |-> ids, years |-> years,
                             first |-> Earliest, last |-> Latest]
  /\ UNCHANGED <<world, todo, years, ids, asked>>

Next == Start \/ Ask \/ AskFails \/ Finish
Spec == Init /\ [][Next]_vars

-----------------------------------------------------------------------------
\* The areas a KPI of each type reports for, per Kolada's docs.
Reported ==
  CASE kind = "oudata"  -> Units
    [] kind = "changes" -> Elems(Ids(catalogue))
    [] OTHER -> {m.id : m \in {c \in Elems(catalogue) :
                   type = "A" \/ c.type = type \/ (type = "K" /\ c.id = Riket)}}
Asked == IF kind = "changes" THEN FirstChange..Last ELSE Year

\* Dimensions that are built have exactly the years and the areas some value is
\* there for, the first and the last of them being the dataset's periods; a probe
\* of which one request failed builds nothing.
DimensionsAreExact ==
  pc = "built" /\ kind # "changes" =>
    LET seen == {e \in valued : e[1] \in Reported /\ e[2] \in Year}
    IN  /\ result.years = {e[2] : e \in seen} /\ result.ids = {e[1] : e \in seen}
        /\ result.first \in result.years /\ result.last \in result.years
        /\ \A y \in result.years : result.first <= y /\ y <= result.last

\* A KPI is in the change feed if it has an entry, be it a deletion, in its years.
ChangesAreExact ==
  pc = "built" /\ kind = "changes" =>
    (result.changed <=> \E e \in valued \cup empty : e[1] \in Reported /\ e[2] \in Asked)

\* Every area is asked for in every year, once, and no request has more values
\* than Kolada takes.
BatchesPartition ==
  /\ \A i \in 1..Len(asked) :
       kind # "oudata" => Cardinality(asked[i].of) <= Limit /\ Cardinality(asked[i].in) <= Limit
  /\ \A i, j \in 1..Len(asked) :
       asked[i].of \cap asked[j].of # {} /\ asked[i].in \cap asked[j].in # {} => i = j
  /\ pc = "built" => \A a \in Reported, y \in Asked :
       \E i \in 1..Len(asked) : a \in asked[i].of /\ y \in asked[i].in

\* Whatever the batches are and wherever the values lie, the answers together say
\* what one unbounded request would have said, and no request is too large.
ProbeIsExact == DimensionsAreExact /\ ChangesAreExact /\ BatchesPartition
====
