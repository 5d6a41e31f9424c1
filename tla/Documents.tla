---- MODULE Documents ----
(* What a PXWeb answer becomes: the axes, categories, labels, roles and      *)
(* periods of a dataset, built by the adapter of its API version and then    *)
(* accepted or refused by the one schema of all providers.  Identifiers and  *)
(* labels are numbers, compared as the code compares strings; Blank is a     *)
(* string of white space, Missing an absent one.  What a payload may lack    *)
(* besides (an object, a list) fails as the cases here do.                   *)
(*                                                                           *)
(* A definition right above the one it varies is a mutant: what the code     *)
(* could wrongly do.  No action uses it.                                     *)
EXTENDS Filtering, FiniteSets

CONSTANTS
  V1Payloads,  \* sequences of [code, text, values, texts, role]
  V2Payloads   \* [ids, dims : [ids -> [text, form, cats, ord, label]], role]

Blank   == 0
Missing == -1
RoleName == {"time", "geo", "metric"}

VARIABLES api, payload, pc, document, periods
vars == <<api, payload, pc, document, periods>>

Elems(s)    == {s[i] : i \in 1..Len(s)}
Distinct(s) == \A i, j \in 1..Len(s) : s[i] = s[j] => i = j
Position(s) == [x \in Elems(s) |-> (CHOOSE i \in 1..Len(s) : s[i] = x) - 1]
None        == [id |-> <<>>]

\* Lists are lists, strings are strings, and an object has a key once.
DocumentsAssumption ==
  /\ \A vs \in V1Payloads : vs \in Seq(Elems(vs)) /\ \A i \in 1..Len(vs) :
       vs[i].values \in Seq(Int) /\ vs[i].texts \in Seq(Int)
  /\ \A p \in V2Payloads : \A r \in RoleName : p.role[r] \in Seq(Int)
  /\ \A p \in V2Payloads : p.ids \in Seq(Int) /\ \A c \in DOMAIN p.dims :
       LET d == p.dims[c] IN
       /\ d.form \in {"dict", "list", "labels", "none"} /\ d.cats \in Seq(Int)
       /\ d.form = "dict" => Len(d.ord) = Len(d.cats) /\ Distinct(d.cats)

Init ==
  /\ \/ api = "v1" /\ payload \in V1Payloads
     \/ api = "v2" /\ payload \in V2Payloads
  /\ pc = "payload" /\ document = None /\ periods = <<>>

-----------------------------------------------------------------------------
(* pxweb_v1/adapter.py, resolve_dataset                                      *)

\* An enumeration of a list into a dictionary: a repeated id has its last place.
LastPosition(s) == [x \in Elems(s) |-> (CHOOSE i \in 1..Len(s) :
                      s[i] = x /\ \A j \in 1..Len(s) : s[j] = x => j <= i) - 1]
IdAlways(text, c) == c
OrId(text, c)     == IF text = Missing THEN c ELSE text

Repeats(var) == var.values = <<>> \/ Blank \in Elems(var.values)
Unusable(var) ==
  var.values = <<>> \/ Blank \in Elems(var.values) \/ ~ Distinct(var.values)

Codes(vs)  == [i \in 1..Len(vs) |-> vs[i].code]
V1Fails(vs) ==
  \/ vs = <<>> \/ Blank \in Elems(Codes(vs)) \/ ~ Distinct(Codes(vs))
  \/ \E i \in 1..Len(vs) : Unusable(vs[i])

NextText(var, i) ==
  LET given == SelectSeq(var.texts, LAMBDA x : x # Missing)
  IN  IF i <= Len(given) THEN given[i] ELSE var.values[i]
\* Texts go with values by position; without one the value is its own label.
TextAt(var, i) ==
  IF i <= Len(var.texts) /\ var.texts[i] # Missing THEN var.texts[i] ELSE var.values[i]

\* The variable whose code is c.
LastVar(vs, c) == vs[Len(vs)]
Var(vs, c) == vs[Position(Codes(vs))[c] + 1]
V1Document(vs) ==
  [id    |-> Codes(vs),
   text  |-> [c \in Elems(Codes(vs)) |-> OrId(Var(vs, c).text, c)],
   index |-> [c \in Elems(Codes(vs)) |-> LastPosition(Var(vs, c).values)],
   label |-> [c \in Elems(Codes(vs)) |->
               [x \in Elems(Var(vs, c).values) |->
                  TextAt(Var(vs, c), LastPosition(Var(vs, c).values)[x] + 1)]],
   role  |-> [r \in RoleName |-> Only(Codes(vs), {c \in Elems(Codes(vs)) : Var(vs, c).role = r})]]

\* The periods come from the labels of the last time variable, sorted.
Smallest(S) == CHOOSE x \in S : \A y \in S : x <= y
Largest(S)  == CHOOSE x \in S : \A y \in S : y <= x
Strings(s)  == {x \in Elems(s) : x > Blank}
AnyLabels(vs) == UNION {Strings(vs[i].texts) : i \in 1..Len(vs)}
TimeLabels(vs) ==
  LET T == {i \in 1..Len(vs) : vs[i].role = "time"}
  IN  IF T = {} THEN {}
      ELSE IF Strings(vs[Largest(T)].texts) # {} THEN Strings(vs[Largest(T)].texts)
      ELSE Strings(vs[Largest(T)].values)
TwoPeriods(labels) == IF labels = {} THEN <<>> ELSE <<Smallest(labels), Largest(labels)>>

-----------------------------------------------------------------------------
(* pxweb_v2/parsing.py, build_dimensions                                     *)

\* _build_category: ordinals as given, or by position in a list, where a repeated
\* id has its last position, or in the order of the labels.
Index(dim) ==
  CASE dim.form = "dict"  -> [x \in Elems(dim.cats) |-> dim.ord[Position(dim.cats)[x] + 1]]
    [] dim.form \in {"list", "labels"} -> LastPosition(dim.cats)
    [] dim.form = "none"  -> [x \in {} |-> 0]

\* normalize_role: blank names are dropped, order and repetitions stay.
OneRoleEach(role) ==
  \A r, s \in RoleName : (Elems(role[r]) \cap Elems(role[s])) \ {Blank} # {} => r = s
FirstOfRole(role) ==
  [r \in RoleName |-> Only(role[r], {role[r][i] : i \in {1} \cap 1..Len(role[r])} \ {Blank})]
Roles(role) == [r \in RoleName |-> Only(role[r], Elems(role[r]) \ {Blank})]

V2Fails(p) ==
  \/ p.ids = <<>> \/ Blank \in Elems(p.ids) \/ ~ Distinct(p.ids)
  \/ DOMAIN p.dims # Elems(p.ids)
  \/ ~ OneRoleEach(p.role)
  \/ \E r \in RoleName : ~ Elems(Roles(p.role)[r]) \subseteq Elems(p.ids)
  \/ \E d \in DOMAIN p.dims : Index(p.dims[d]) = [x \in {} |-> 0]

\* A category without a label is its own label.
LabelAtOrdinal(dim, x) ==
  IF Index(dim)[x] \in DOMAIN dim.label THEN dim.label[Index(dim)[x]] ELSE x
LabelOf(dim, x) == IF x \in DOMAIN dim.label THEN dim.label[x] ELSE x
V2Document(p) ==
  [id    |-> p.ids,
   text  |-> [c \in DOMAIN p.dims |-> OrId(p.dims[c].text, c)],
   index |-> [c \in DOMAIN p.dims |-> Index(p.dims[c])],
   label |-> [c \in DOMAIN p.dims |->
               [x \in DOMAIN Index(p.dims[c]) |-> LabelOf(p.dims[c], x)]],
   role  |-> Roles(p.role)]

-----------------------------------------------------------------------------
Build ==
  /\ pc = "payload"
  /\ IF api = "v1"
     THEN IF V1Fails(payload) THEN pc' = "failed" /\ UNCHANGED <<document, periods>>
          ELSE /\ pc' = "built" /\ document' = V1Document(payload)
               /\ periods' = TwoPeriods(TimeLabels(payload))
     ELSE IF V2Fails(payload) THEN pc' = "failed" /\ UNCHANGED <<document, periods>>
          ELSE pc' = "built" /\ document' = V2Document(payload) /\ UNCHANGED periods
  /\ UNCHANGED <<api, payload>>

(* schemas/dimensions.py and datasets.py                                     *)
AnyOrdinals(index) == TRUE
Dense(index) ==
  /\ \A x, y \in DOMAIN index : index[x] = index[y] => x = y
  /\ {index[x] : x \in DOMAIN index} = 0..(Cardinality(DOMAIN index) - 1)
CategoryValid(index, label) ==
  /\ index # [x \in {} |-> 0] /\ Blank \notin DOMAIN index
  /\ DOMAIN index = DOMAIN label /\ Dense(index)
  /\ \A x \in DOMAIN label : label[x] # Blank
AnyOrder(role, ids) == TRUE
InIdOrder(role, ids) ==
  \A i, j \in 1..Len(role) : i < j => Position(ids)[role[i]] < Position(ids)[role[j]]
Valid(d) ==
  /\ d.id # <<>> /\ Blank \notin Elems(d.id) /\ Distinct(d.id)
  /\ DOMAIN d.index = Elems(d.id)
  /\ \A c \in DOMAIN d.index : d.text[c] # Blank /\ CategoryValid(d.index[c], d.label[c])
  /\ \A r \in RoleName : Elems(d.role[r]) \subseteq Elems(d.id) /\ InIdOrder(d.role[r], d.id)
  /\ \A r, s \in RoleName : Elems(d.role[r]) \cap Elems(d.role[s]) # {} => r = s

Validate ==
  /\ pc = "built"
  /\ pc' = IF Valid(document) THEN "valid" ELSE "rejected"
  /\ UNCHANGED <<api, payload, document, periods>>

Next == Build \/ Validate
Spec == Init /\ [][Next]_vars

-----------------------------------------------------------------------------
\* A saved v1 document has every axis and every category of the answer, in the
\* answer's order, each axis with its own text, or its code where it has none, and
\* each category with the text that stands at its position.
V1IsFaithful ==
  pc = "valid" /\ api = "v1" =>
    /\ Len(document.id) = Len(payload)
    /\ \A i \in 1..Len(payload) :
         LET v == payload[i]  c == document.id[i] IN
         /\ c = v.code /\ Cardinality(DOMAIN document.index[c]) = Len(v.values)
         /\ document.text[c] = IF v.text = Missing THEN c ELSE v.text
         /\ \A k \in 1..Len(v.values) :
              /\ document.index[c][v.values[k]] = k - 1
              /\ \/ k \in DOMAIN v.texts /\ document.label[c][v.values[k]] = v.texts[k]
                 \/ /\ document.label[c][v.values[k]] = v.values[k]
                    /\ k \in DOMAIN v.texts => v.texts[k] = Missing

\* A saved v2 document has exactly the axes and categories of the answer, with its
\* ordinals, or its order where it gives none, each axis with its own text and each
\* category with the label the answer has for it on that axis, or the id where it
\* has none; and a list that names a category twice is never saved.
V2IsFaithful ==
  pc = "valid" /\ api = "v2" =>
    /\ document.id = payload.ids /\ DOMAIN document.index = DOMAIN payload.dims
    /\ \A c \in DOMAIN payload.dims : LET d == payload.dims[c] IN
         /\ document.text[c] = IF d.text = Missing THEN c ELSE d.text
         /\ Distinct(d.cats) /\ DOMAIN document.index[c] = Elems(d.cats)
         /\ \A k \in 1..Len(d.cats) :
              /\ document.index[c][d.cats[k]] = IF d.form = "dict" THEN d.ord[k] ELSE k - 1
              /\ document.label[c][d.cats[k]] =
                   IF d.cats[k] \in DOMAIN d.label THEN d.label[d.cats[k]] ELSE d.cats[k]

\* The axes of a role are those the answer gives it, none dropped and none added: in
\* v1 the variables detect_role finds it for, in v2 the names listed, blanks apart.
RolesAreGiven ==
  pc = "valid" =>
    \A r \in RoleName : Elems(document.role[r]) =
      IF api = "v1" THEN {payload[i].code : i \in {j \in 1..Len(payload) : payload[j].role = r}}
      ELSE Elems(payload.role[r]) \ {Blank}

\* Each axis of a saved document has one role at most, and the axes of a role
\* come in the order of the axes.
RolesAreOrdered ==
  pc = "valid" =>
    \A r \in RoleName :
      /\ \A i, j \in 1..Len(document.role[r]) : i < j =>
           \E k, l \in 1..Len(document.id) :
             k < l /\ document.id[k] = document.role[r][i] /\ document.id[l] = document.role[r][j]
      /\ \A s \in RoleName \ {r} : Elems(document.role[r]) \cap Elems(document.role[s]) = {}

\* What the v1 adapter builds is refused for a blank text only: its own checks
\* are as strict as the schema's in everything else.
V1RefusedForBlanks ==
  pc = "rejected" /\ api = "v1" =>
    \E i \in 1..Len(payload) : payload[i].text = Blank \/ Blank \in Elems(payload[i].texts)

\* The periods of a v1 dataset are labels of one time axis, in order.
PeriodsOfTime ==
  periods # <<>> =>
    /\ periods[1] <= periods[2]
    /\ \E i \in 1..Len(payload) :
         payload[i].role = "time" /\ Elems(periods) \subseteq Strings(payload[i].texts) \cup Strings(payload[i].values)

\* What is saved says what the provider's answer said, in either version: its axes
\* and categories with their texts, labels, order, roles and periods.
DocumentsAreFaithful ==
  V1IsFaithful /\ V2IsFaithful /\ RolesAreGiven /\ RolesAreOrdered /\ PeriodsOfTime
====
