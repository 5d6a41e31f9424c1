---- MODULE DiscoveryProofs ----
(* Proofs about the four machines of MCDiscovery, one after the other:       *)
(* PxwebV1Crawl, PxwebV2Paging, PxwebV1Discovery, PxwebV1Listing.            *)
EXTENDS MCDiscovery, FiniteSetTheorems, SequenceTheorems, WellFoundedInduction, TLAPS

-----------------------------------------------------------------------------
(* The navigation crawl lists exactly what the answers name.                 *)
(* The invariant ties the folders in the queue, asked and left out to        *)
(* seenFolders, and seenFolders and seenTables to the entries already read.  *)

Distinct(s) == \A i, j \in 1..Len(s) : s[i] = s[j] => i = j
Asked       == DOMAIN answer \cup skipped

\* The queue holds each folder once, and none that was asked for.
QueueInv ==
  /\ Distinct(pending)
  /\ Elems(pending) \cap Asked = {}
  /\ seenFolders = Elems(pending) \cup Asked
  /\ <<>> \in seenFolders

ReadingInv ==
  pc = "reading" => path \in DOMAIN answer /\ at <= Len(answer[path]) + 1

\* Entry i of folder p has been read.
Done(p, i) == p # path \/ pc \in {"asking", "done"} \/ i < at

CoverInv ==
  \A p \in DOMAIN answer : \A i \in 1..Len(answer[p]) : Done(p, i) =>
    /\ answer[p][i].type = "l" => Append(p, answer[p][i].id) \in seenFolders
    /\ answer[p][i].type = "t" => <<p, Fold[answer[p][i].id]>> \in seenTables

SoundInv == seenFolders \subseteq Folders /\ seenTables \subseteq Tables
OutputInv ==
  /\ {<<t.path, Fold[t.id]>> : t \in output} = seenTables
  /\ OneSpelling
DoneInv == pc = "done" => pending = <<>>

IInv ==
  /\ TypeOK /\ QueueInv /\ ReadingInv /\ CoverInv /\ SoundInv /\ OutputInv
  /\ CapIsExact /\ DoneInv

-----------------------------------------------------------------------------
(* Sequences.                                                                *)

LEMMA ElemsAppend ==
  ASSUME NEW S, NEW s \in Seq(S), NEW x \in S
  PROVE  /\ Elems(Append(s, x)) = Elems(s) \cup {x}
         /\ Distinct(s) /\ x \notin Elems(s) => Distinct(Append(s, x))
<1> DEFINE t == Append(s, x)
<1>1. /\ t \in Seq(S) /\ Len(t) = Len(s) + 1 /\ Len(s) \in Nat
      /\ \A i \in 1..Len(s) : t[i] = s[i]
      /\ t[Len(s) + 1] = x
  OBVIOUS
<1> HIDE DEF t
<1>2. Elems(t) = Elems(s) \cup {x}
  BY <1>1 DEF Elems
<1>3. Distinct(s) /\ x \notin Elems(s) => Distinct(t)
  BY <1>1 DEF Elems, Distinct
<1> QED BY <1>2, <1>3 DEF t

LEMMA ElemsTail ==
  ASSUME NEW S, NEW s \in Seq(S), s # <<>>
  PROVE  /\ Elems(s) = Elems(Tail(s)) \cup {Head(s)} /\ Head(s) \in S
         /\ Distinct(s) => Distinct(Tail(s)) /\ Head(s) \notin Elems(Tail(s))
<1> DEFINE t == Tail(s)
<1>1. /\ t \in Seq(S) /\ Len(s) = Len(t) + 1 /\ Len(t) \in Nat
      /\ \A i \in 1..Len(t) : t[i] = s[i + 1]
      /\ Head(s) = s[1] /\ s[1] \in S
  OBVIOUS
<1> HIDE DEF t
<1>2. Elems(s) = Elems(t) \cup {Head(s)}
  <2>1. ASSUME NEW i \in 1..Len(s) PROVE s[i] \in Elems(t) \cup {Head(s)}
    <3>1. CASE i = 1
      BY <3>1, <1>1
    <3>2. CASE i # 1
      BY <3>2, <1>1, i - 1 \in 1..Len(t), t[i - 1] = s[i] DEF Elems
    <3> QED BY <3>1, <3>2
  <2>2. ASSUME NEW i \in 1..Len(t) PROVE t[i] \in Elems(s)
    BY <1>1, i + 1 \in 1..Len(s) DEF Elems
  <2>3. Head(s) \in Elems(s)
    BY <1>1, 1 \in 1..Len(s) DEF Elems
  <2> QED BY <2>1, <2>2, <2>3 DEF Elems
<1>3. Distinct(s) => Distinct(t) /\ Head(s) \notin Elems(t)
  <2> SUFFICES ASSUME Distinct(s) PROVE Distinct(t) /\ Head(s) \notin Elems(t)
    OBVIOUS
  <2>1. ASSUME NEW i \in 1..Len(t), NEW j \in 1..Len(t), t[i] = t[j] PROVE i = j
    BY <2>1, <1>1, i + 1 \in 1..Len(s), j + 1 \in 1..Len(s) DEF Distinct
  <2>2. ASSUME NEW i \in 1..Len(t), t[i] = Head(s) PROVE FALSE
    BY <2>2, <1>1, i + 1 \in 1..Len(s), 1 \in 1..Len(s) DEF Distinct
  <2> QED BY <2>1, <2>2 DEF Distinct, Elems
<1> QED BY <1>1, <1>2, <1>3 DEF t

-----------------------------------------------------------------------------
(* What the answers name.                                                    *)

LEMMA InElems == \A s, x : x \in Elems(s) <=> \E i \in 1..Len(s) : x = s[i]
BY DEF Elems

\* A folder that answers for the first time adds names and takes none away.
LEMMA AnswerAdds ==
  ASSUME Answered, Head(pending) \notin DOMAIN answer
  PROVE  Folders \subseteq Folders' /\ Tables \subseteq Tables'
<1>1. \A p \in DOMAIN answer : p \in DOMAIN answer' /\ answer'[p] = answer[p]
  BY DEF Answered
<1>2. Folders \subseteq Folders'
  BY <1>1 DEF Folders
<1>3. Tables \subseteq Tables'
  BY <1>1 DEF Tables
<1> QED BY <1>2, <1>3

LEMMA SameNames ==
  ASSUME answer' = answer PROVE Folders' = Folders /\ Tables' = Tables
BY DEF Folders, Tables

LEMMA NamedFolder ==
  ASSUME NEW p \in DOMAIN answer, NEW i \in 1..Len(answer[p]), answer[p][i].type = "l"
  PROVE  Append(p, answer[p][i].id) \in Folders
BY DEF Folders, Elems

LEMMA NamedTable ==
  ASSUME NEW p \in DOMAIN answer, NEW i \in 1..Len(answer[p]), answer[p][i].type = "t"
  PROVE  <<p, Fold[answer[p][i].id]>> \in Tables
BY DEF Tables, Elems

-----------------------------------------------------------------------------
LEMMA InitInv == Init => IInv
<1> SUFFICES ASSUME Init PROVE IInv
  OBVIOUS
<1> USE DEF Init
<1>1. <<>> \in Path /\ Elems(<< <<>> >>) = {<<>>} /\ IsFiniteSet({<<>>})
  <2>1. <<>> \in Path
    BY DEF Path
  <2>2. Len(<< <<>> >>) = 1 /\ << <<>> >>[1] = <<>> /\ 1..1 = {1}
    OBVIOUS
  <2>3. Elems(<< <<>> >>) = {<<>>}
    BY <2>2, Zenon DEF Elems
  <2> QED BY <2>1, <2>3, FS_Singleton
<1>2. TypeOK
  BY <1>1 DEF TypeOK
<1>3. QueueInv
  BY <1>1 DEF QueueInv, Distinct, Asked
<1>4. SoundInv
  BY DEF SoundInv, Folders
<1>5. OutputInv /\ CoverInv /\ ReadingInv /\ DoneInv
  BY DEF OutputInv, OneSpelling, CoverInv, ReadingInv, DoneInv
<1>6. Cardinality(seenFolders) = 1
  BY FS_Singleton
<1>7. CapIsExact
  BY <1>6, CrawlAssumption DEF CapIsExact
<1> QED BY <1>2, <1>3, <1>4, <1>5, <1>7 DEF IInv

LEMMA HeadIsNew ==
  ASSUME IInv, pending # <<>>
  PROVE  /\ Head(pending) \in Path /\ Head(pending) \notin Asked
         /\ Tail(pending) \in Seq(Path) /\ Distinct(Tail(pending))
         /\ Elems(pending) = Elems(Tail(pending)) \cup {Head(pending)}
         /\ Head(pending) \notin Elems(Tail(pending))
<1>1. pending \in Seq(Path)
  BY DEF IInv, TypeOK
<1>2. Tail(pending) \in Seq(Path)
  BY <1>1
<1>3. Elems(pending) \cap Asked = {} /\ Distinct(pending)
  BY DEF IInv, QueueInv
<1> QED BY <1>1, <1>2, <1>3, ElemsTail

LEMMA AnsweredStep == ASSUME IInv, Answered PROVE IInv'
<1> DEFINE h == Head(pending)
<1>1. /\ h \in Path /\ h \notin Asked /\ Tail(pending) \in Seq(Path)
      /\ Distinct(Tail(pending)) /\ h \notin Elems(Tail(pending))
      /\ Elems(pending) = Elems(Tail(pending)) \cup {h}
  BY HeadIsNew DEF Answered
<1> HIDE DEF h
<1>2. PICK entries \in Answers :
        answer' = [p \in DOMAIN answer \cup {h} |-> IF p = h THEN entries ELSE answer[p]]
  BY DEF Answered, h
<1>3. entries \in Seq(Entry)
  BY CrawlAssumption
<1>4. /\ DOMAIN answer' = DOMAIN answer \cup {h} /\ answer'[h] = entries
      /\ \A p \in DOMAIN answer : answer'[p] = answer[p]
      /\ path' = h /\ at' = 1 /\ pending' = Tail(pending) /\ pc = "asking" /\ pc' = "reading"
      /\ UNCHANGED <<seenFolders, seenTables, output, skipped, why>>
  BY <1>1, <1>2 DEF Answered, Asked, h
<1>5. TypeOK'
  BY <1>1, <1>3, <1>4 DEF IInv, TypeOK
<1>6. QueueInv'
  BY <1>1, <1>4 DEF IInv, QueueInv, Asked
<1>7. ReadingInv'
  <2>1. Len(entries) \in Nat
    BY <1>3
  <2> QED BY <2>1, <1>4 DEF ReadingInv
<1>8. CoverInv'
  <2> SUFFICES ASSUME NEW p \in DOMAIN answer', NEW i \in 1..Len(answer'[p]), Done(p, i)'
               PROVE  /\ answer'[p][i].type = "l" => Append(p, answer'[p][i].id) \in seenFolders'
                      /\ answer'[p][i].type = "t" => <<p, Fold[answer'[p][i].id]>> \in seenTables'
    BY DEF CoverInv
  <2>1. p # h
    BY <1>4 DEF Done
  <2>2. p \in DOMAIN answer /\ answer'[p] = answer[p] /\ Done(p, i)
    BY <2>1, <1>4 DEF Done
  <2> QED BY <2>2, <1>4 DEF IInv, CoverInv
<1>9. SoundInv'
  BY <1>1, <1>4, AnswerAdds DEF IInv, SoundInv, Asked, h
<1>10. OutputInv' /\ DoneInv'
  BY <1>4 DEF IInv, OutputInv, OneSpelling, DoneInv
<1>11. CapIsExact'
  <2>1. Folders \subseteq Folders'
    BY <1>1, AnswerAdds DEF Asked, h
  <2> QED BY <2>1, <1>4 DEF IInv, CapIsExact
<1> QED BY <1>5, <1>6, <1>7, <1>8, <1>9, <1>10, <1>11 DEF IInv

LEMMA UnreachableStep == ASSUME IInv, Unreachable PROVE IInv'
<1> DEFINE h == Head(pending)
<1>1. /\ h \in Path /\ h \notin Asked /\ Tail(pending) \in Seq(Path)
      /\ Distinct(Tail(pending)) /\ h \notin Elems(Tail(pending))
      /\ Elems(pending) = Elems(Tail(pending)) \cup {h}
  BY HeadIsNew DEF Unreachable
<1> HIDE DEF h
<1>2. /\ skipped' = skipped \cup {h} /\ pending' = Tail(pending) /\ pc = "asking"
      /\ UNCHANGED <<pc, seenFolders, seenTables, output, path, at, answer, why>>
  BY DEF Unreachable, h
<1>3. TypeOK'
  BY <1>1, <1>2 DEF IInv, TypeOK
<1>4. QueueInv'
  BY <1>1, <1>2 DEF IInv, QueueInv, Asked
<1>5. ReadingInv' /\ OutputInv' /\ DoneInv'
  BY <1>2 DEF IInv, ReadingInv, OutputInv, OneSpelling, DoneInv
<1>6. CoverInv'
  BY <1>2 DEF IInv, CoverInv, Done
<1>7. SoundInv' /\ CapIsExact'
  BY <1>2, SameNames DEF IInv, SoundInv, CapIsExact
<1> QED BY <1>3, <1>4, <1>5, <1>6, <1>7 DEF IInv

LEMMA ReadingEntry ==
  ASSUME IInv, Reading
  PROVE  /\ pc = "reading" /\ path \in DOMAIN answer /\ at \in 1..Len(answer[path])
         /\ answer[path][at] \in Entry /\ path \in Path
<1>1. pc = "reading" /\ path \in DOMAIN answer /\ path \in Path
  BY DEF IInv, TypeOK, ReadingInv, Reading
<1>2. answer[path] \in Seq(Entry) /\ at \in Nat \ {0} /\ at <= Len(answer[path])
  BY <1>1 DEF IInv, TypeOK, Reading
<1>3. at \in 1..Len(answer[path])
  BY <1>2
<1>4. answer[path][at] \in Entry
  BY <1>2, <1>3
<1> QED BY <1>1, <1>3, <1>4

LEMMA ReadFolderStep == ASSUME IInv, ReadFolder PROVE IInv'
<1> DEFINE e == answer[path][at]
           c == Append(path, e.id)
<1>1. /\ pc = "reading" /\ path \in DOMAIN answer /\ at \in 1..Len(answer[path])
      /\ e \in Entry /\ e.type = "l" /\ path \in Path /\ c \in Path
  <2>1. e.type = "l"
    BY DEF ReadFolder, NextEntry
  <2>2. c \in Path
    BY ReadingEntry DEF ReadFolder, Path, Entry
  <2> QED BY <2>1, <2>2, ReadingEntry DEF ReadFolder
<1>2. /\ UNCHANGED <<seenTables, output, path, answer, skipped>>
      /\ \/ c \in seenFolders /\ at' = at + 1 /\ UNCHANGED <<pc, pending, seenFolders, why>>
         \/ /\ c \notin seenFolders /\ Full
            /\ pc' = "failed" /\ why' = "cap" /\ UNCHANGED <<at, pending, seenFolders>>
         \/ /\ c \notin seenFolders /\ ~ Full /\ at' = at + 1 /\ UNCHANGED <<pc, why>>
            /\ seenFolders' = seenFolders \cup {c} /\ pending' = Append(pending, c)
  BY DEF ReadFolder, Child, NextEntry, Enqueue
<1>3. c \in Folders /\ Folders' = Folders /\ Tables' = Tables
  BY <1>1, <1>2, NamedFolder, SameNames
<1> HIDE DEF c
<1>4. CASE c \in seenFolders /\ at' = at + 1 /\ UNCHANGED <<pc, pending, seenFolders, why>>
  <2>1. TypeOK' /\ QueueInv' /\ OutputInv' /\ DoneInv'
    BY <1>2, <1>4 DEF IInv, TypeOK, QueueInv, OutputInv, DoneInv, OneSpelling, Asked
  <2>2. ReadingInv'
    BY <1>1, <1>2, <1>4 DEF ReadingInv
  <2>3. CoverInv'
    BY <1>1, <1>2, <1>4 DEF IInv, CoverInv, Done, c
  <2>4. SoundInv' /\ CapIsExact'
    BY <1>2, <1>3, <1>4 DEF IInv, SoundInv, CapIsExact
  <2> QED BY <2>1, <2>2, <2>3, <2>4 DEF IInv
<1>5. CASE /\ c \notin seenFolders /\ Full
           /\ pc' = "failed" /\ why' = "cap" /\ UNCHANGED <<at, pending, seenFolders>>
  <2>1. TypeOK' /\ QueueInv' /\ OutputInv' /\ DoneInv' /\ ReadingInv'
    BY <1>2, <1>5 DEF IInv, TypeOK, QueueInv, OutputInv, DoneInv, ReadingInv, OneSpelling, Asked
  <2>2. CoverInv'
    BY <1>1, <1>2, <1>5 DEF IInv, CoverInv, Done
  <2>3. SoundInv'
    BY <1>2, <1>3, <1>5 DEF IInv, SoundInv
  <2>4. CapIsExact'
    <3> DEFINE S == seenFolders \cup {c}
    <3>1. IsFiniteSet(seenFolders)
      BY DEF IInv, TypeOK
    <3>2. Cardinality(S) = Cardinality(seenFolders) + 1 /\ Cardinality(seenFolders) \in Nat
      BY <3>1, <1>5, FS_AddElement, FS_CardinalityType
    <3>3. Cardinality(S) > MaxFolders
      BY <3>2, <1>5, CrawlAssumption DEF Full
    <3>4. S \in SUBSET Folders'
      BY <1>3 DEF IInv, SoundInv
    <3>5. Cardinality(seenFolders') <= MaxFolders
      BY <1>5 DEF IInv, CapIsExact
    <3> QED BY <3>3, <3>4, <3>5 DEF CapIsExact
  <2> QED BY <2>1, <2>2, <2>3, <2>4 DEF IInv
<1>6. CASE /\ c \notin seenFolders /\ ~ Full /\ at' = at + 1 /\ UNCHANGED <<pc, why>>
           /\ seenFolders' = seenFolders \cup {c} /\ pending' = Append(pending, c)
  <2>1. pending \in Seq(Path) /\ IsFiniteSet(seenFolders)
    BY DEF IInv, TypeOK
  <2>2. Elems(pending') = Elems(pending) \cup {c} /\ pending' \in Seq(Path)
    BY <2>1, <1>1, <1>6, ElemsAppend
  <2>3. Distinct(pending')
    BY <2>1, <1>1, <1>6, ElemsAppend DEF IInv, QueueInv
  <2>4. /\ IsFiniteSet(seenFolders') /\ Cardinality(seenFolders') = Cardinality(seenFolders) + 1
        /\ Cardinality(seenFolders) \in Nat
    BY <2>1, <1>6, FS_AddElement, FS_CardinalityType
  <2>5. TypeOK'
    BY <1>1, <1>2, <1>6, <2>2, <2>4 DEF IInv, TypeOK
  <2>6. QueueInv'
    BY <1>2, <1>6, <2>2, <2>3 DEF IInv, QueueInv, Asked
  <2>7. ReadingInv' /\ OutputInv' /\ DoneInv'
    BY <1>1, <1>2, <1>6 DEF IInv, ReadingInv, OutputInv, DoneInv, OneSpelling
  <2>8. CoverInv'
    BY <1>1, <1>2, <1>6 DEF IInv, CoverInv, Done, c
  <2>9. SoundInv'
    BY <1>2, <1>3, <1>6 DEF IInv, SoundInv
  <2>10. CapIsExact'
    BY <1>2, <1>3, <1>6, <2>4, CrawlAssumption DEF IInv, CapIsExact, Full
  <2> QED BY <2>5, <2>6, <2>7, <2>8, <2>9, <2>10 DEF IInv
<1> QED BY <1>2, <1>4, <1>5, <1>6

LEMMA ReadTableStep == ASSUME IInv, ReadTable PROVE IInv'
<1> DEFINE e == answer[path][at]
           k == <<path, Fold[e.id]>>
<1>1. /\ pc = "reading" /\ path \in DOMAIN answer /\ at \in 1..Len(answer[path])
      /\ e \in Entry /\ e.type = "t" /\ path \in Path /\ e.id \in Id /\ k \in Path \X Key
  <2>1. e.type = "t"
    BY DEF ReadTable, NextEntry
  <2>2. e.id \in Id
    BY ReadingEntry DEF ReadTable, Entry
  <2>3. Fold[e.id] \in Key
    BY <2>2, CrawlAssumption
  <2> QED BY <2>1, <2>2, <2>3, ReadingEntry DEF ReadTable
<1>2. /\ UNCHANGED <<pc, pending, seenFolders, path, answer, skipped, why>> /\ at' = at + 1
      /\ \/ k \in seenTables /\ UNCHANGED <<seenTables, output>>
         \/ /\ k \notin seenTables /\ seenTables' = seenTables \cup {k}
            /\ output' = output \cup {[path |-> path, id |-> e.id]}
  BY DEF ReadTable, TableKey, NextEntry
<1>3. k \in Tables /\ Folders' = Folders /\ Tables' = Tables
  BY <1>1, <1>2, NamedTable, SameNames
<1>4. TypeOK'
  BY <1>1, <1>2 DEF IInv, TypeOK
<1>5. QueueInv' /\ DoneInv' /\ ReadingInv'
  BY <1>1, <1>2 DEF IInv, QueueInv, DoneInv, ReadingInv, Asked
<1>6. CoverInv'
  BY <1>1, <1>2 DEF IInv, CoverInv, Done
<1>7. SoundInv' /\ CapIsExact'
  BY <1>2, <1>3 DEF IInv, SoundInv, CapIsExact
<1>8. OutputInv'
  <2>1. CASE UNCHANGED <<seenTables, output>>
    BY <2>1 DEF IInv, OutputInv, OneSpelling
  <2>2. CASE /\ k \notin seenTables /\ seenTables' = seenTables \cup {k}
             /\ output' = output \cup {[path |-> path, id |-> e.id]}
    <3> DEFINE new == [path |-> path, id |-> e.id]
               KeyOf(t) == <<t.path, Fold[t.id]>>
    <3>1. {KeyOf(t) : t \in output'} = seenTables'
      <4>1. KeyOf(new) = k
        OBVIOUS
      <4>2. {KeyOf(t) : t \in output} = seenTables
        BY DEF IInv, OutputInv
      <4>3. output' = output \cup {new} /\ seenTables' = seenTables \cup {k}
        BY <2>2
      <4> HIDE DEF KeyOf, new, k
      <4> QED BY <4>1, <4>2, <4>3
    <3>2. \A t \in output : ~ (t.path = path /\ Fold[t.id] = Fold[e.id])
      BY <2>2 DEF IInv, OutputInv
    <3>3. OneSpelling'
      BY <2>2, <3>2 DEF IInv, OutputInv, OneSpelling
    <3> QED BY <3>1, <3>3 DEF OutputInv
  <2> QED BY <1>2, <2>1, <2>2
<1> QED BY <1>4, <1>5, <1>6, <1>7, <1>8 DEF IInv

LEMMA OtherSteps ==
  ASSUME IInv, RequestFails \/ ReadOther \/ EndOfAnswer \/ Finish \/ UNCHANGED vars
  PROVE  IInv'
<1>1. UNCHANGED <<lists, path, answer, skipped>>
  BY DEF RequestFails, ReadOther, EndOfAnswer, Finish, vars
<1>2. Folders' = Folders /\ Tables' = Tables
  BY <1>1, SameNames
<1>3. TypeOK'
  BY <1>1 DEF IInv, TypeOK, lists, RequestFails, ReadOther, EndOfAnswer, Finish, vars
<1>4. QueueInv' /\ OutputInv' /\ SoundInv'
  BY <1>1, <1>2 DEF IInv, QueueInv, OutputInv, SoundInv, OneSpelling, Asked, lists
<1>5. ReadingInv' /\ DoneInv'
  BY <1>1 DEF IInv, TypeOK, ReadingInv, DoneInv, lists, Reading, RequestFails, ReadOther, EndOfAnswer,
              Finish, vars
<1>6. CapIsExact'
  BY <1>1, <1>2 DEF IInv, CapIsExact, lists, RequestFails, ReadOther, EndOfAnswer, Finish, vars
<1>7. CoverInv'
  BY <1>1 DEF IInv, TypeOK, ReadingInv, CoverInv, Done, lists, Reading, NextEntry, RequestFails,
              ReadOther, EndOfAnswer, Finish, vars
<1> QED BY <1>3, <1>4, <1>5, <1>6, <1>7 DEF IInv

LEMMA StepInv == IInv /\ [Next]_vars => IInv'
BY AnsweredStep, UnreachableStep, ReadFolderStep, ReadTableStep, OtherSteps DEF Next

\* The crawl's queue, its sets and the answers belong together, in every database.
THEOREM CrawlInvariant == Spec => []IInv
BY InitInv, StepInv, PTL DEF Spec

\* Every variable has its type.
THEOREM TypeCorrect == Spec => []TypeOK
<1>1. IInv => TypeOK
  BY DEF IInv
<1> QED BY <1>1, CrawlInvariant, PTL

\* A crawl that ends well lists exactly what the answers named, below every folder
\* that could be reached.
THEOREM Exactness == Spec => []ListingIsExact
<1>1. IInv => ListingIsExact
  <2> SUFFICES ASSUME IInv, pc = "done"
               PROVE  /\ Folders = DOMAIN answer \cup skipped
                      /\ seenTables = Tables
                      /\ {<<t.path, Fold[t.id]>> : t \in output} = Tables
    BY DEF ListingIsExact
  <2>1. \A p \in DOMAIN answer : \A i \in 1..Len(answer[p]) :
          /\ answer[p][i].type = "l" => Append(p, answer[p][i].id) \in seenFolders
          /\ answer[p][i].type = "t" => <<p, Fold[answer[p][i].id]>> \in seenTables
    BY DEF IInv, CoverInv, Done
  <2>2. Folders \subseteq seenFolders
    <3>1. <<>> \in seenFolders
      BY DEF IInv, QueueInv
    <3>2. ASSUME NEW p \in DOMAIN answer, NEW f \in Elems(answer[p]), f.type = "l"
          PROVE  Append(p, f.id) \in seenFolders
      BY <2>1, <3>2 DEF Elems
    <3>3. ASSUME NEW x \in Folders, x # <<>>
          PROVE  \E p \in DOMAIN answer : \E f \in Elems(answer[p]) : f.type = "l" /\ x = Append(p, f.id)
      BY <3>3 DEF Folders
    <3> QED BY <3>1, <3>2, <3>3
  <2>3. Tables \subseteq seenTables
    BY <2>1 DEF Tables, Elems
  <2>4. seenFolders = DOMAIN answer \cup skipped
    BY DEF IInv, DoneInv, QueueInv, Asked, Elems
  <2> QED BY <2>2, <2>3, <2>4 DEF IInv, SoundInv, OutputInv
<1> QED BY <1>1, CrawlInvariant, PTL

\* A table is listed once per folder, however its id is spelled.
THEOREM SpelledOnce == Spec => []OneSpelling
<1>1. IInv => OneSpelling
  BY DEF IInv, OutputInv
<1> QED BY <1>1, CrawlInvariant, PTL

\* The cap is never passed, and met only by a catalogue with more folders.
THEOREM CapExactness == Spec => []CapIsExact
<1>1. IInv => CapIsExact
  BY DEF IInv
<1> QED BY <1>1, CrawlInvariant, PTL

\* No folder is asked for twice.
THEOREM NeverAskedAgain == Spec => []AskedOnce
<1>1. IInv => AskedOnce
  BY HeadIsNew DEF AskedOnce, Asked
<1> QED BY <1>1, CrawlInvariant, PTL

-----------------------------------------------------------------------------
(* /tables of PXWeb v2, read while it changes.                               *)
(* What stood in /tables is withdrawn, unusable, read, or still beyond the   *)
(* page reached; what is beyond the page reached has not been read.          *)

PagingType ==
  /\ listing \in Seq(Table) /\ initial \in Seq(Table) /\ tables \in Seq(Table)
  /\ page \in Nat /\ changes \in Nat /\ paged \in BOOLEAN /\ last \in BOOLEAN
  /\ ppc \in {"fetch", "yield"} \cup Paging!Ended
Beyond == {k \in 1..Len(listing) : k > Paging!Read}

PhaseInv ==
  /\ ppc = "fetch" => tables = <<>> /\ ~ last
  /\ ppc = "complete" => tables = <<>> /\ last
  /\ ppc # "failed" /\ ~ paged /\ page > 0 => last

NoLossInv ==
  ~ pulled /\ ppc # "failed" => \A i \in 1..Len(initial) :
    \/ initial[i] \in removed \cup Unusable \cup Paging!ReadTables
    \/ ~ last /\ \E k \in Beyond : listing[k] = initial[i]

NoRepeatInv ==
  ~ pushed /\ ~ again =>
    /\ ppc # "duplicate" /\ Distinct(tables) /\ Elems(tables) \cap seen = {}
    /\ \A k \in Beyond : listing[k] \notin Paging!ReadTables

UnchangedInv ==
  /\ seen \cap Unusable = {}
  /\ changes = 0 =>
       ~ pulled /\ removed = {} /\ listing = initial /\ Paging!ReadTables \subseteq Elems(initial)

PagingInv ==
  PagingType /\ Distinct(listing) /\ PhaseInv /\ NoLossInv /\ NoRepeatInv /\ UnchangedInv

LEMMA Concatenated ==
  ASSUME NEW S, NEW a \in Seq(S), NEW b \in Seq(S)
  PROVE  /\ a \o b \in Seq(S) /\ Len(a \o b) = Len(a) + Len(b)
         /\ Len(a) \in Nat /\ Len(b) \in Nat
         /\ \A k \in 1..Len(a) : (a \o b)[k] = a[k]
         /\ \A k \in Int : Len(a) < k /\ k <= Len(a) + Len(b) => (a \o b)[k] = b[k - Len(a)]
  OBVIOUS
LEMMA Inserted ==
  ASSUME NEW S, NEW s \in Seq(S), NEW i \in 1..Len(s) + 1, NEW e \in S
  PROVE  /\ Paging!InsertAt(s, i, e) \in Seq(S) /\ Len(Paging!InsertAt(s, i, e)) = Len(s) + 1
         /\ \A k \in 1..Len(s) + 1 : Paging!InsertAt(s, i, e)[k] =
              IF k < i THEN s[k] ELSE IF k = i THEN e ELSE s[k - 1]
<1> DEFINE a == SubSeq(s, 1, i - 1)  b == SubSeq(s, i, Len(s))  c == a \o <<e>>  d == c \o b
<1>1. a \in Seq(S) /\ Len(a) = i - 1 /\ \A k \in 1..i - 1 : a[k] = s[k]
  OBVIOUS
<1>2. b \in Seq(S) /\ Len(b) = Len(s) - i + 1 /\ \A k \in 1..Len(s) - i + 1 : b[k] = s[i + k - 1]
  OBVIOUS
<1>3. Paging!InsertAt(s, i, e) = d
  BY DEF Paging!InsertAt
<1> HIDE DEF a, b
<1>4. <<e>> \in Seq(S) /\ Len(<<e>>) = 1 /\ <<e>>[1] = e
  OBVIOUS
<1>5. c \in Seq(S) /\ Len(c) = i /\ c[i] = e /\ \A k \in 1..i - 1 : c[k] = s[k]
  BY <1>1, <1>4, Concatenated
<1> HIDE DEF c
<1>6. /\ d \in Seq(S) /\ Len(d) = Len(c) + Len(b) /\ \A k \in 1..Len(c) : d[k] = c[k]
      /\ \A k \in Int : Len(c) < k /\ k <= Len(c) + Len(b) => d[k] = b[k - Len(c)]
  BY <1>2, <1>5, Concatenated
<1>7. i \in Nat /\ Len(s) \in Nat
  OBVIOUS
<1> HIDE DEF d
<1> QED BY <1>2, <1>3, <1>5, <1>6, <1>7
LEMMA Removed ==
  ASSUME NEW S, NEW s \in Seq(S), NEW i \in 1..Len(s)
  PROVE  /\ Paging!RemoveAt(s, i) \in Seq(S) /\ Len(Paging!RemoveAt(s, i)) = Len(s) - 1
         /\ \A k \in 1..Len(s) - 1 : Paging!RemoveAt(s, i)[k] = IF k < i THEN s[k] ELSE s[k + 1]
<1> DEFINE a == SubSeq(s, 1, i - 1)  b == SubSeq(s, i + 1, Len(s))  d == a \o b
<1>1. a \in Seq(S) /\ Len(a) = i - 1 /\ \A k \in 1..i - 1 : a[k] = s[k]
  OBVIOUS
<1>2. b \in Seq(S) /\ Len(b) = Len(s) - i /\ \A k \in 1..Len(s) - i : b[k] = s[i + k]
  OBVIOUS
<1>3. Paging!RemoveAt(s, i) = d
  BY DEF Paging!RemoveAt
<1> HIDE DEF a, b
<1>4. /\ d \in Seq(S) /\ Len(d) = Len(a) + Len(b) /\ \A k \in 1..Len(a) : d[k] = a[k]
      /\ \A k \in Int : Len(a) < k /\ k <= Len(a) + Len(b) => d[k] = b[k - Len(a)]
  BY <1>1, <1>2, Concatenated
<1>5. i \in Nat /\ Len(s) \in Nat
  OBVIOUS
<1> HIDE DEF d
<1>6. ASSUME NEW k \in 1..Len(s) - 1 PROVE d[k] = IF k < i THEN s[k] ELSE s[k + 1]
  <2>1. CASE k < i
    BY <1>1, <1>4, <1>5, <2>1
  <2>2. CASE ~ (k < i)
    <3>1. d[k] = b[k - (i - 1)] /\ k - (i - 1) \in 1..Len(s) - i
      BY <1>1, <1>2, <1>4, <1>5, <2>2
    <3>2. b[k - (i - 1)] = s[i + (k - (i - 1))] /\ i + (k - (i - 1)) = k + 1
      BY <1>2, <1>5, <3>1
    <3> QED BY <2>2, <3>1, <3>2
  <2> QED BY <2>1, <2>2
<1>7. Len(d) = Len(s) - 1
  BY <1>1, <1>2, <1>4, <1>5
<1> QED BY <1>3, <1>4, <1>6, <1>7

LEMMA Pages ==
  ASSUME NEW n \in Nat, NEW l \in Nat, NEW p \in Nat \ {0}, n >= (l + p - 1) \div p
  PROVE  n * p >= l
<1> DEFINE q == (l + p - 1) \div p
<1>1. q \in Int /\ l + p - 1 < (q + 1) * p
  OBVIOUS
<1>2. (q + 1) * p <= (n + 1) * p
  OBVIOUS
<1>3. (n + 1) * p = n * p + p /\ n * p \in Int /\ (q + 1) * p \in Int
  BY <1>1
<1> HIDE DEF q
<1> QED BY <1>1, <1>2, <1>3

LEMMA PagingFacts ==
  ASSUME PagingType
  PROVE  /\ PageSize \in Nat \ {0} /\ Paging!Read \in Nat /\ page * PageSize \in Nat
         /\ (page + 1) * PageSize = page * PageSize + PageSize
         /\ Len(listing) \in Nat /\ Paging!ReadTables = seen \cup Elems(tables)
<1>1. PageSize \in Nat \ {0} /\ page \in Nat
  BY PartsAssumption DEF Paging!PagingAssumption, PagingType
<1>2. page * PageSize \in Nat /\ (page + 1) * PageSize = page * PageSize + PageSize
  BY <1>1
<1> QED BY <1>1, <1>2 DEF PagingType, Paging!Read, Paging!ReadTables, Elems

\* The next page is the stretch of the listing that follows what is read.
NextRead == IF paged THEN (page + 1) * PageSize ELSE Len(listing)

LEMMA NextPage ==
  ASSUME PagingInv, ppc = "fetch"
  PROVE  /\ Paging!Slice(page + 1) \in Seq(Table)
         /\ NextRead \in Nat /\ Paging!Read <= NextRead
         /\ \A i \in 1..Len(Paging!Slice(page + 1)) :
              /\ Paging!Read + i \in 1..Len(listing) /\ Paging!Read + i <= NextRead
              /\ Paging!Slice(page + 1)[i] = listing[Paging!Read + i]
         /\ \A k \in Beyond : k <= NextRead => listing[k] \in Elems(Paging!Slice(page + 1))
<1> DEFINE s == Paging!Slice(page + 1)  r == Paging!Read  b == page * PageSize
<1>1. /\ listing \in Seq(Table) /\ page \in Nat /\ paged \in BOOLEAN /\ Len(listing) \in Nat
      /\ PageSize \in Nat \ {0} /\ b \in Nat /\ r \in Nat
      /\ (page + 1) * PageSize = b + PageSize /\ (page + 1) - 1 = page
  BY PagingFacts DEF PagingInv, PagingType
<1>2. CASE ~ paged
  <2>1. page = 0
    BY <1>1, <1>2 DEF PagingInv, PhaseInv
  <2>2. r = 0 /\ s = listing /\ NextRead = Len(listing)
    BY <1>2, <2>1 DEF Paging!Read, Paging!Slice, NextRead
  <2> QED BY <1>1, <2>2 DEF Beyond, Elems
<1>3. CASE paged
  <2> DEFINE e == Paging!Least(b + PageSize, Len(listing))
  <2>1. r = b /\ NextRead = b + PageSize
    BY <1>1, <1>3 DEF Paging!Read, NextRead
  <2>2. s = SubSeq(listing, b + 1, e)
    BY <1>1, <1>3 DEF Paging!Slice
  <2>3. /\ e \in Nat /\ e <= Len(listing) /\ e <= b + PageSize
        /\ \A k \in Nat : k <= Len(listing) /\ k <= b + PageSize => k <= e
    BY <1>1 DEF Paging!Least
  <2> HIDE DEF b, e
  <2>4. CASE b + 1 > e
    <3>1. s = <<>>
      BY <1>1, <2>2, <2>3, <2>4, SubSeqEmpty
    <3> HIDE DEF s
    <3>2. s \in Seq(Table) /\ Len(s) = 0
      <4>1. <<>> \in Seq(Table) /\ Len(<<>>) = 0
        OBVIOUS
      <4> QED BY <3>1, <4>1
    <3>3. Beyond \cap {k \in Nat : k <= NextRead} = {}
      BY <1>1, <2>1, <2>3, <2>4 DEF Beyond
    <3>4. \A k \in Beyond : k \in Nat
      BY <1>1 DEF Beyond
    <3>5. /\ NextRead \in Nat /\ r <= NextRead
          /\ \A k \in Beyond : k <= NextRead => listing[k] \in Elems(s)
      BY <1>1, <2>1, <3>3, <3>4
    <3>6. \A i \in 1..Len(s) : FALSE
      BY <3>2
    <3> QED BY <3>2, <3>5, <3>6 DEF s
  <2>5. CASE ~ (b + 1 > e)
    <3>1. b + 1 \in 1..Len(listing) /\ e \in 1..Len(listing)
      BY <1>1, <2>3, <2>5
    <3>2. /\ s \in Seq(Table) /\ Len(s) = e - b
          /\ \A i \in 1..Len(s) : s[i] = listing[b + i]
      <4> DEFINE u == SubSeq(listing, b + 1, e)
      <4>1. b + 1 \in Int /\ e \in Int /\ e - (b + 1) + 1 = e - b /\ b + 1 <= e
        BY <1>1, <2>3, <2>5 DEF b
      <4>2. \A i \in b + 1..e : listing[i] \in Table
        BY <1>1, <2>3, <3>1, <4>1
      <4>3. /\ u \in Seq(Table) /\ Len(u) = e - b
            /\ \A i \in 1..e - b : u[i] = listing[(b + 1) + i - 1]
        BY <4>1, <4>2, SubSeqProperties
      <4>4. \A i \in 1..e - b : (b + 1) + i - 1 = b + i
        BY <4>1, <1>1 DEF b
      <4> QED BY <2>2, <4>3, <4>4
    <3> HIDE DEF s
    <3>3. ASSUME NEW k \in Beyond, k <= NextRead PROVE listing[k] \in Elems(s)
      <4>1. k \in Nat /\ k <= Len(listing) /\ k > b
        BY <1>1, <2>1 DEF Beyond
      <4>2. k - b \in 1..Len(s)
        BY <1>1, <2>1, <2>3, <3>2, <3>3, <4>1
      <4>3. s[k - b] = listing[k]
        BY <1>1, <3>2, <4>1, <4>2
      <4> QED BY <4>2, <4>3 DEF Elems
    <3>4. /\ NextRead \in Nat /\ r <= NextRead
          /\ \A i \in 1..Len(s) : r + i \in 1..Len(listing) /\ r + i <= NextRead
      BY <1>1, <2>1, <2>3, <3>2
    <3> QED BY <2>1, <3>2, <3>3, <3>4 DEF s
  <2> QED BY <2>4, <2>5
<1> QED BY <1>1, <1>2, <1>3

LEMMA PagingFetch == ASSUME PagingInv, Paging!Fetch PROVE PagingInv'
<1> DEFINE s == Paging!Slice(page + 1)
<1>1. /\ ppc = "fetch" /\ page' = page + 1 /\ tables' = s /\ ppc' = "yield"
      /\ last' = Paging!IsLast(page + 1)
      /\ UNCHANGED <<listing, changes, removed, pulled, pushed, again, paged, seen, initial>>
  BY DEF Paging!Fetch, Paging!provider
<1>2. tables = <<>> /\ PagingType /\ Elems(tables) = {}
  BY <1>1 DEF PagingInv, PhaseInv, Elems
<1>3. /\ s \in Seq(Table) /\ NextRead \in Nat /\ Paging!Read <= NextRead /\ Paging!Read \in Nat
      /\ \A i \in 1..Len(s) :
           /\ Paging!Read + i \in 1..Len(listing) /\ Paging!Read + i <= NextRead
           /\ s[i] = listing[Paging!Read + i]
      /\ \A k \in Beyond : k <= NextRead => listing[k] \in Elems(s)
      /\ Len(listing) \in Nat /\ PageSize \in Nat \ {0}
  BY <1>1, <1>2, NextPage, PagingFacts
<1> HIDE DEF s
<1>4. Paging!Read' = NextRead
  BY <1>1, <1>2 DEF Paging!Read, NextRead, PagingType
<1>5. PagingType'
  BY <1>1, <1>2, <1>3 DEF PagingType, Paging!IsLast
<1>6. Paging!ReadTables = seen /\ Paging!ReadTables' = seen \cup Elems(s)
  BY <1>1, <1>2 DEF Paging!ReadTables, Elems
<1>7. Beyond' = {k \in Beyond : k > NextRead}
  BY <1>1, <1>3, <1>4 DEF Beyond
<1>8. last' => \A k \in Beyond : k <= NextRead
  <2>1. CASE ~ paged
    BY <1>3, <2>1 DEF NextRead, Beyond
  <2>2. CASE paged
    <3>1. last' => page + 1 >= (Len(listing) + PageSize - 1) \div PageSize
      BY <1>1, <2>2 DEF Paging!IsLast, Paging!TotalPages
    <3>2. last' => (page + 1) * PageSize >= Len(listing)
      <4>1. page + 1 \in Nat /\ Len(listing) \in Nat /\ PageSize \in Nat \ {0}
        BY <1>2, <1>3 DEF PagingType
      <4> QED BY <3>1, <4>1, Pages
    <3> QED BY <1>3, <2>2, <3>2 DEF NextRead, Beyond
  <2> QED BY <2>1, <2>2
<1>9. PhaseInv'
  BY <1>1 DEF PhaseInv, Paging!IsLast
<1>10. NoLossInv'
  <2> SUFFICES ASSUME ~ pulled, NEW i \in 1..Len(initial),
                      initial[i] \notin removed \cup Unusable \cup seen \cup Elems(s)
               PROVE  ~ last' /\ \E k \in Beyond' : listing[k] = initial[i]
    BY <1>1, <1>6 DEF NoLossInv
  <2>1. PICK k \in Beyond : listing[k] = initial[i]
    BY <1>1, <1>6 DEF PagingInv, NoLossInv
  <2>2. k > NextRead /\ k \in Nat
    BY <1>3, <2>1 DEF Beyond
  <2> QED BY <1>3, <1>7, <1>8, <2>1, <2>2
<1>11. NoRepeatInv'
  <2> SUFFICES ASSUME ~ pushed, ~ again
               PROVE  /\ Distinct(s) /\ Elems(s) \cap seen = {}
                      /\ \A k \in Beyond' : listing[k] \notin seen \cup Elems(s)
    BY <1>1, <1>6 DEF NoRepeatInv
  <2>1. \A k \in Beyond : listing[k] \notin seen
    BY <1>6 DEF PagingInv, NoRepeatInv
  <2>2. \A i \in 1..Len(s) : Paging!Read + i \in Beyond
    BY <1>3 DEF Beyond
  <2>3. Distinct(s)
    BY <1>3 DEF PagingInv, Distinct
  <2>4. Elems(s) \cap seen = {}
    BY <1>3, <2>1, <2>2 DEF Elems
  <2>5. ASSUME NEW k \in Beyond, k > NextRead PROVE listing[k] \notin Elems(s)
    BY <1>3, <2>5 DEF PagingInv, Distinct, Beyond, Elems
  <2> QED BY <1>7, <2>1, <2>3, <2>4, <2>5
<1>12. UnchangedInv'
  <2>1. Elems(s) \subseteq Elems(listing)
    BY <1>3 DEF Elems
  <2> QED BY <1>1, <1>6, <2>1 DEF PagingInv, UnchangedInv
<1> QED BY <1>1, <1>5, <1>9, <1>10, <1>11, <1>12 DEF PagingInv, Distinct

\* The provider publishes a table somewhere.
LEMMA PagingPublish ==
  ASSUME PagingInv, NEW t \in Table, NEW i \in 1..Len(listing) + 1, Paging!Publish(t, i)
  PROVE  PagingInv'
<1>1. /\ ppc \notin Paging!Ended /\ changes' = changes + 1 /\ changes \in Nat
      /\ \A k \in 1..Len(listing) : listing[k] # t
      /\ listing' = Paging!InsertAt(listing, i, t)
      /\ pushed' = (pushed \/ i <= Paging!Read) /\ again' = (again \/ t \in Paging!ReadTables)
      /\ UNCHANGED <<removed, pulled, paged, page, tables, last, seen, ppc, initial>>
  BY DEF Paging!Publish, PagingInv, PagingType
<1>2. /\ listing' \in Seq(Table) /\ Len(listing') = Len(listing) + 1
      /\ \A k \in 1..Len(listing) + 1 : listing'[k] =
           IF k < i THEN listing[k] ELSE IF k = i THEN t ELSE listing[k - 1]
  BY <1>1, Inserted DEF PagingInv, PagingType
<1>3. /\ PagingType /\ Paging!Read \in Nat /\ Len(listing) \in Nat /\ i \in Nat
      /\ page * PageSize \in Nat /\ i <= Len(listing) + 1 /\ i >= 1
  BY PagingFacts DEF PagingInv
<1>4. PagingType'
  BY <1>1, <1>2 DEF PagingInv, PagingType
<1>5. Paging!ReadTables' = Paging!ReadTables
  BY <1>1 DEF Paging!ReadTables
<1>6. \/ Paging!Read' = Paging!Read
      \/ Paging!Read' = Len(listing') /\ Paging!Read = Len(listing)
  BY <1>1, <1>3 DEF Paging!Read, PagingType
<1>7. Distinct(listing')
  <2> DEFINE was(k) == IF k < i THEN k ELSE k - 1
  <2>1. ASSUME NEW k \in 1..Len(listing'), k # i
        PROVE  was(k) \in 1..Len(listing) /\ listing'[k] = listing[was(k)]
    <3>1. k \in Nat /\ k \in 1..Len(listing) + 1
      BY <1>2, <1>3
    <3>2. CASE k < i
      BY <1>2, <1>3, <3>1, <3>2
    <3>3. CASE k > i
      BY <1>2, <1>3, <3>1, <3>3
    <3> QED BY <1>3, <2>1, <3>1, <3>2, <3>3
  <2>2. listing'[i] = t /\ i \in 1..Len(listing')
    BY <1>2, <1>3
  <2>3. ASSUME NEW j \in 1..Len(listing'), NEW k \in 1..Len(listing'), j # i, k # i, was(j) = was(k)
        PROVE  j = k
    BY <1>2, <1>3, <2>3
  <2> HIDE DEF was
  <2>4. \A j, k \in 1..Len(listing) : listing[j] = listing[k] => j = k
    BY DEF PagingInv, Distinct
  <2> QED BY <1>1, <2>1, <2>2, <2>3, <2>4 DEF Distinct
<1>8. \A k \in Beyond : \E j \in Beyond' : listing'[j] = listing[k]
  <2> SUFFICES ASSUME NEW k \in Beyond PROVE \E j \in Beyond' : listing'[j] = listing[k]
    OBVIOUS
  <2>1. /\ k \in 1..Len(listing) /\ k \in Nat /\ k > Paging!Read /\ Paging!Read' = Paging!Read
    BY <1>3, <1>6 DEF Beyond
  <2> DEFINE j == IF k < i THEN k ELSE k + 1
  <2>2. j \in 1..Len(listing') /\ j > Paging!Read' /\ listing'[j] = listing[k]
    BY <1>2, <1>3, <2>1
  <2> QED BY <2>2 DEF Beyond
<1>9. ~ pushed' => \A j \in Beyond' : listing'[j] = t \/ \E k \in Beyond : listing'[j] = listing[k]
  <2> SUFFICES ASSUME i > Paging!Read, NEW j \in Beyond', listing'[j] # t
               PROVE  \E k \in Beyond : listing'[j] = listing[k]
    <3>1. ~ pushed' => ~ (i <= Paging!Read)
      BY <1>1
    <3>2. ~ pushed' => i > Paging!Read
      BY <1>3, <3>1
    <3> QED BY <3>2
  <2>1. /\ j \in 1..Len(listing) + 1 /\ j \in Nat /\ j > Paging!Read /\ j # i
        /\ Paging!Read' = Paging!Read
    BY <1>2, <1>3, <1>6 DEF Beyond
  <2> DEFINE k == IF j < i THEN j ELSE j - 1
  <2>2. k \in 1..Len(listing) /\ k > Paging!Read /\ listing'[j] = listing[k]
    BY <1>2, <1>3, <2>1
  <2> QED BY <2>2 DEF Beyond
<1>10. NoLossInv'
  BY <1>1, <1>5, <1>8 DEF PagingInv, NoLossInv
<1>11. NoRepeatInv'
  BY <1>1, <1>5, <1>9 DEF PagingInv, NoRepeatInv, Distinct, Elems
<1>12. PhaseInv' /\ UnchangedInv'
  BY <1>1 DEF PagingInv, PhaseInv, UnchangedInv
<1> QED BY <1>4, <1>7, <1>10, <1>11, <1>12 DEF PagingInv

\* The provider withdraws one.
LEMMA PagingWithdraw ==
  ASSUME PagingInv, NEW i \in 1..Len(listing), Paging!Withdraw(i)
  PROVE  PagingInv'
<1>1. /\ ppc \notin Paging!Ended /\ changes' = changes + 1 /\ changes \in Nat
      /\ listing' = Paging!RemoveAt(listing, i)
      /\ removed' = removed \cup {listing[i]} /\ pulled' = (pulled \/ i <= Paging!Read)
      /\ UNCHANGED <<pushed, again, paged, page, tables, last, seen, ppc, initial>>
  BY DEF Paging!Withdraw, PagingInv, PagingType
<1>2. /\ listing' \in Seq(Table) /\ Len(listing') = Len(listing) - 1
      /\ \A k \in 1..Len(listing) - 1 : listing'[k] = IF k < i THEN listing[k] ELSE listing[k + 1]
  BY <1>1, Removed DEF PagingInv, PagingType
<1>3. /\ PagingType /\ Paging!Read \in Nat /\ Len(listing) \in Nat /\ i \in Nat
      /\ page * PageSize \in Nat /\ i <= Len(listing) /\ i >= 1
  BY PagingFacts DEF PagingInv
<1>4. PagingType'
  BY <1>1, <1>2 DEF PagingInv, PagingType
<1>5. Paging!ReadTables' = Paging!ReadTables
  BY <1>1 DEF Paging!ReadTables
<1>6. \/ Paging!Read' = Paging!Read
      \/ Paging!Read' = Len(listing') /\ Paging!Read = Len(listing)
  BY <1>1, <1>3 DEF Paging!Read, PagingType
<1>7. Distinct(listing')
  BY <1>1, <1>2, <1>3 DEF PagingInv, Distinct
<1>8. ~ pulled' => \A k \in Beyond : k = i \/ \E j \in Beyond' : listing'[j] = listing[k]
  <2> SUFFICES ASSUME i > Paging!Read, NEW k \in Beyond, k # i
               PROVE  \E j \in Beyond' : listing'[j] = listing[k]
    <3>1. ~ pulled' => ~ (i <= Paging!Read)
      BY <1>1
    <3>2. ~ pulled' => i > Paging!Read
      BY <1>3, <3>1
    <3> QED BY <3>2
  <2>1. /\ k \in 1..Len(listing) /\ k \in Nat /\ k > Paging!Read /\ Paging!Read' = Paging!Read
    BY <1>3, <1>6 DEF Beyond
  <2> DEFINE j == IF k < i THEN k ELSE k - 1
  <2>2. j \in 1..Len(listing') /\ j > Paging!Read' /\ listing'[j] = listing[k]
    BY <1>2, <1>3, <2>1
  <2> QED BY <2>2 DEF Beyond
<1>9. \A j \in Beyond' : \E k \in Beyond : listing'[j] = listing[k]
  <2> SUFFICES ASSUME NEW j \in Beyond' PROVE \E k \in Beyond : listing'[j] = listing[k]
    OBVIOUS
  <2>1. /\ j \in 1..Len(listing) - 1 /\ j \in Nat /\ j > Paging!Read /\ Paging!Read' = Paging!Read
    BY <1>2, <1>3, <1>6 DEF Beyond
  <2> DEFINE k == IF j < i THEN j ELSE j + 1
  <2>2. k \in 1..Len(listing) /\ k > Paging!Read /\ listing'[j] = listing[k]
    BY <1>2, <1>3, <2>1
  <2> QED BY <2>2 DEF Beyond
<1>10. NoLossInv'
  BY <1>1, <1>5, <1>8 DEF PagingInv, NoLossInv
<1>11. NoRepeatInv'
  BY <1>1, <1>5, <1>9 DEF PagingInv, NoRepeatInv, Distinct, Elems
<1>12. PhaseInv' /\ UnchangedInv'
  BY <1>1 DEF PagingInv, PhaseInv, UnchangedInv
<1> QED BY <1>4, <1>7, <1>10, <1>11, <1>12 DEF PagingInv

\* A table of the page in hand is dropped or yielded.
LEMMA PagingTake ==
  ASSUME PagingInv, Paging!Drop \/ Paging!Yield
  PROVE  PagingInv'
<1>1. /\ ppc = "yield" /\ tables # <<>>
      /\ UNCHANGED <<listing, changes, removed, pulled, pushed, again, paged, page, last, initial>>
      /\ UNCHANGED <<Paging!Read, Beyond>>
  BY DEF Paging!Drop, Paging!Yield, Paging!provider, Paging!Read, Beyond
<1>2. /\ Tail(tables) \in Seq(Table) /\ Elems(tables) = Elems(Tail(tables)) \cup {Head(tables)}
      /\ Distinct(tables) => Distinct(Tail(tables)) /\ Head(tables) \notin Elems(Tail(tables))
  BY <1>1, ElemsTail DEF PagingInv, PagingType
<1>3. Paging!ReadTables = seen \cup Elems(tables) /\ Paging!ReadTables' = seen' \cup Elems(tables')
  BY DEF Paging!ReadTables, Elems
<1>4. CASE Paging!Drop
  <2>1. Head(tables) \in Unusable /\ tables' = Tail(tables) /\ seen' = seen /\ ppc' = ppc
    BY <1>4 DEF Paging!Drop
  <2>2. PagingType' /\ PhaseInv'
    BY <1>1, <1>2, <2>1 DEF PagingInv, PagingType, PhaseInv
  <2> DEFINE h == Head(tables)  rest == Elems(Tail(tables))
  <2>3. /\ Paging!ReadTables = seen \cup rest \cup {h}
        /\ Paging!ReadTables' = seen \cup rest /\ Elems(tables') = rest
    BY <1>2, <1>3, <2>1
  <2> HIDE DEF h, rest
  <2>4. h \in Unusable
    BY <2>1 DEF h
  <2>5. NoLossInv'
    BY <1>1, <2>1, <2>3, <2>4 DEF PagingInv, NoLossInv
  <2>6. NoRepeatInv'
    <3>1. Elems(tables) = rest \cup {h} /\ (Distinct(tables) => Distinct(tables'))
      BY <1>2, <2>1 DEF h, rest
    <3> QED BY <1>1, <2>1, <2>3, <3>1 DEF PagingInv, NoRepeatInv
  <2>7. UnchangedInv'
    BY <1>1, <2>1, <2>3 DEF PagingInv, UnchangedInv, Elems
  <2> QED BY <1>1, <2>2, <2>5, <2>6, <2>7 DEF PagingInv, Distinct
<1>5. CASE Paging!Yield /\ Head(tables) \in seen
  <2>1. ppc' = "duplicate" /\ UNCHANGED <<tables, seen>>
    BY <1>5 DEF Paging!Yield
  <2>2. pushed \/ again
    BY <1>2, <1>5 DEF PagingInv, NoRepeatInv
  <2>3. PagingType' /\ PhaseInv'
    BY <1>1, <2>1 DEF PagingInv, PagingType, PhaseInv, Paging!Ended
  <2>4. NoLossInv' /\ NoRepeatInv' /\ UnchangedInv'
    BY <1>1, <1>3, <2>1, <2>2 DEF PagingInv, NoLossInv, NoRepeatInv, UnchangedInv, Elems
  <2> QED BY <1>1, <2>3, <2>4 DEF PagingInv, Distinct
<1>6. CASE Paging!Yield /\ Head(tables) \notin seen
  <2>1. /\ tables' = Tail(tables) /\ seen' = seen \cup {Head(tables)} /\ ppc' = ppc
        /\ Head(tables) \notin Unusable
    BY <1>6 DEF Paging!Yield
  <2>2. PagingType' /\ PhaseInv'
    BY <1>1, <1>2, <2>1 DEF PagingInv, PagingType, PhaseInv
  <2>3. Paging!ReadTables' = Paging!ReadTables
    BY <1>2, <1>3, <2>1
  <2>4. NoLossInv' /\ NoRepeatInv' /\ UnchangedInv'
    BY <1>1, <1>2, <2>1, <2>3 DEF PagingInv, NoLossInv, NoRepeatInv, UnchangedInv, Elems
  <2> QED BY <1>1, <2>2, <2>4 DEF PagingInv, Distinct
<1> QED BY <1>4, <1>5, <1>6

\* A page is done, or cannot be read.
LEMMA PagingTurn ==
  ASSUME PagingInv, Paging!PageDone \/ Paging!FetchFails
  PROVE  PagingInv'
<1>1. /\ UNCHANGED <<listing, changes, removed, pulled, pushed, again, paged, tables, last, seen,
                     initial>>
      /\ UNCHANGED Paging!ReadTables
  BY DEF Paging!PageDone, Paging!FetchFails, Paging!provider, Paging!ReadTables
<1>2. CASE Paging!PageDone
  <2>1. /\ ppc = "yield" /\ tables = <<>> /\ ppc' = IF last THEN "complete" ELSE "fetch"
        /\ UNCHANGED <<page, Paging!Read, Beyond>>
    BY <1>1, <1>2 DEF Paging!PageDone, Paging!Read, Beyond
  <2>2. PagingType' /\ PhaseInv'
    BY <1>1, <2>1 DEF PagingInv, PagingType, PhaseInv, Paging!Ended
  <2>3. NoLossInv' /\ NoRepeatInv' /\ UnchangedInv'
    BY <1>1, <2>1 DEF PagingInv, NoLossInv, NoRepeatInv, UnchangedInv, Distinct, Elems
  <2> QED BY <1>1, <2>2, <2>3 DEF PagingInv, Distinct
<1>3. CASE Paging!FetchFails
  <2>1. ppc = "fetch" /\ page' = page + 1 /\ ppc' = "failed"
    BY <1>3 DEF Paging!FetchFails, Paging!FetchFailure
  <2>2. PagingType' /\ PhaseInv'
    BY <1>1, <2>1 DEF PagingInv, PagingType, PhaseInv, Paging!Ended
  <2>3. Paging!Read' = NextRead
    BY <1>1, <2>1 DEF Paging!Read, NextRead, PagingInv, PagingType
  <2>4. Beyond' \subseteq Beyond
    BY <1>1, <2>1, <2>3, NextPage, PagingFacts DEF Beyond, PagingInv
  <2>5. NoLossInv' /\ NoRepeatInv' /\ UnchangedInv'
    BY <1>1, <2>1, <2>4 DEF PagingInv, NoLossInv, NoRepeatInv, UnchangedInv, Distinct, Elems
  <2> QED BY <1>1, <2>2, <2>5 DEF PagingInv, Distinct
<1> QED BY <1>2, <1>3

LEMMA PagingStart == Paging!Init => PagingInv
<1> SUFFICES ASSUME Paging!Init PROVE PagingInv
  OBVIOUS
<1>1. /\ listing \in Seq(Table) /\ initial = listing /\ page = 0 /\ tables = <<>> /\ seen = {}
      /\ last = FALSE /\ ppc = "fetch" /\ removed = {} /\ changes = 0 /\ paged \in BOOLEAN
      /\ pulled = FALSE /\ pushed = FALSE /\ again = FALSE
  BY PartsAssumption DEF Paging!Init, Paging!PagingAssumption
<1>2. Distinct(listing)
  <2>1. Paging!IsInjective(listing) /\ DOMAIN listing = 1..Len(listing)
    BY <1>1, PartsAssumption DEF Paging!Init, Paging!PagingAssumption
  <2> QED BY <2>1 DEF Paging!IsInjective, Distinct
<1>3. Paging!ReadTables = {} /\ Beyond = 1..Len(listing) /\ Elems(tables) = {}
  <2>1. Len(<<>>) = 0 /\ 1..0 = {}
    OBVIOUS
  <2>2. Elems(tables) = {} /\ {tables[i] : i \in 1..Len(tables)} = {}
    BY <1>1, <2>1 DEF Elems
  <2>3. Paging!Read = 0
    BY <1>1 DEF Paging!Read
  <2>4. Beyond = 1..Len(listing)
    BY <1>1, <2>3 DEF Beyond
  <2> QED BY <1>1, <2>2, <2>4 DEF Paging!ReadTables
<1>4. PagingType
  <2>1. <<>> \in Seq(Table) /\ 0 \in Nat
    OBVIOUS
  <2>2. last \in BOOLEAN
    BY <1>1
  <2> QED BY <1>1, <2>1, <2>2 DEF PagingType
<1>5. PhaseInv /\ NoLossInv
  BY <1>1, <1>3 DEF PhaseInv, NoLossInv
<1>6. Distinct(tables)
  BY <1>1 DEF Distinct
<1>7. NoRepeatInv
  BY <1>1, <1>3, <1>6 DEF NoRepeatInv
<1>8. UnchangedInv
  BY <1>1, <1>3 DEF UnchangedInv
<1> QED BY <1>2, <1>4, <1>5, <1>7, <1>8 DEF PagingInv

LEMMA PagingStep == PagingInv /\ [Paging!Next]_(Paging!vars) => PagingInv'
<1> SUFFICES ASSUME PagingInv, [Paging!Next]_(Paging!vars) PROVE PagingInv'
  OBVIOUS
<1>1. CASE UNCHANGED Paging!vars
  <2>1. UNCHANGED <<listing, changes, removed, pulled, pushed, again, paged, page, tables, last,
                    seen, ppc, initial>>
    BY <1>1 DEF Paging!vars, Paging!provider
  <2>2. UNCHANGED <<Beyond, Paging!ReadTables>>
    BY <2>1 DEF Beyond, Paging!Read, Paging!ReadTables
  <2>3. PagingType' /\ PhaseInv' /\ Distinct(listing)'
    BY <2>1 DEF PagingInv, PagingType, PhaseInv, Distinct
  <2>4. NoLossInv'
    BY <2>1, <2>2 DEF PagingInv, NoLossInv
  <2>5. NoRepeatInv' /\ UnchangedInv'
    BY <2>1, <2>2 DEF PagingInv, NoRepeatInv, UnchangedInv, Distinct, Elems
  <2> QED BY <2>3, <2>4, <2>5 DEF PagingInv
<1>2. CASE Paging!Discover
  BY <1>2, PagingFetch, PagingTake, PagingTurn DEF Paging!Discover
<1>3. CASE Paging!Change
  BY <1>3, PagingPublish, PagingWithdraw DEF Paging!Change
<1> QED BY <1>1, <1>2, <1>3 DEF Paging!Next

\* A complete run over /tables misses a table only if one was withdrawn in front of
\* the page reached, dies of a duplicate only if one was published there or came
\* back, and is exact if the provider changes nothing: for any pages and changes.
THEOREM FaultsExplained == Paging!Spec => []FaultsAreExplained
<1>1. PagingInv => Paging!FaultsAreExplained
  <2> SUFFICES ASSUME PagingInv PROVE Paging!FaultsAreExplained
    OBVIOUS
  <2>1. ppc = "complete" => tables = <<>> /\ last /\ Paging!ReadTables = seen
    BY DEF PagingInv, PhaseInv, Paging!ReadTables
  <2>2. ppc = "complete" /\ ~ pulled =>
          \A i \in 1..Len(initial) : initial[i] \in seen \cup removed \cup Unusable
    BY <2>1 DEF PagingInv, NoLossInv
  <2>3. ppc = "duplicate" => pushed \/ again
    BY DEF PagingInv, NoRepeatInv
  <2>4. ppc = "complete" /\ changes = 0 => seen = {initial[i] : i \in 1..Len(initial)} \ Unusable
    BY <2>1, <2>2 DEF PagingInv, UnchangedInv, Elems
  <2> QED BY <2>2, <2>3, <2>4 DEF Paging!FaultsAreExplained
<1> QED BY <1>1, PagingStart, PagingStep, PTL DEF FaultsAreExplained, Paging!Spec

-----------------------------------------------------------------------------
(* Sets of natural numbers.                                                  *)

\* A set of natural numbers that is not empty has a least element.
LEMMA LeastOf ==
  ASSUME NEW S, S \subseteq Nat, S # {}
  PROVE  \E n \in S : \A m \in S : n <= m
<1> DEFINE R == OpToRel(<, Nat)
<1>1. PICK n \in S : \A m \in S : ~ (<<m, n>> \in R)
  <2> HIDE DEF R
  <2>1. IsWellFoundedOn(R, Nat)
    BY NatLessThanWellFounded DEF R
  <2> QED BY <2>1, WFMin
<1>2. ASSUME NEW m \in S PROVE n <= m
  <2>1. m \in Nat /\ n \in Nat
    OBVIOUS
  <2>2. ~ (m < n)
    BY <1>1, <2>1, Zenon DEF OpToRel
  <2> HIDE DEF R
  <2> QED BY <2>1, <2>2
<1> QED BY <1>2

-----------------------------------------------------------------------------
(* PXWeb v1's databases.                                                     *)
(* An occurrence that was listed is accounted for from the moment its        *)
(* database is; a candidate is what its database listed under its id.        *)

Accounted(d, o) ==
  \/ <<d, o.id>> \in broken
  \/ \E c \in ready \cup taken : c.db = d /\ c.id = o.id
  \/ \E p \in listed[d] : p.id = o.id /\ p.stamp = NoStamp /\ p.path <= o.path

IsOfDatabase(c) ==
  /\ c.db \in 1..Len(Databases) /\ c.db <= db
  /\ c.paths = {o.path : o \in Provider!Of(listed[c.db], c.id)} \ {0}
  /\ c.stamp \in Stamp
  /\ \E o \in listed[c.db] : o.id = c.id /\ o.stamp = c.stamp

ProviderType ==
  /\ dpc \in {"listing", "yielding", "complete", "failed"} /\ db \in Nat \ {0}
  /\ listed \in [1..Len(Databases) -> DatabaseListings \cup {{}}]

ProviderInv ==
  /\ ProviderType
  /\ dpc \in {"listing", "complete"} => ready = {} /\ \A c \in taken : c.db < db
  /\ dpc = "yielding" => db <= Len(Databases)
  /\ dpc # "failed" => \A d \in 1..Len(Databases) : \A o \in listed[d] : Accounted(d, o)
  /\ \A c \in ready \cup taken : IsOfDatabase(c)
  /\ \A c, e \in taken : c.id = e.id => c = e

\* _candidate_from_occurrences takes an occurrence that no other precedes.
LEMMA CanonicalIsFirst ==
  ASSUME NEW occs \in DatabaseListings, NEW id, Provider!Of(occs, id) # {}
  PROVE  LET o == Provider!Canonical(Provider!Of(occs, id)) IN
           /\ o \in occs /\ o.id = id /\ o.stamp \in Stamp \cup {NoStamp}
           /\ \A p \in occs : p.id = id => o.path <= p.path
<1> DEFINE T == Provider!Of(occs, id)  S == {o.path : o \in T}
<1>1. \A o \in occs : o.path \in Nat /\ o.stamp \in Stamp \cup {NoStamp}
  BY PartsAssumption DEF Provider!DiscoveryAssumption
<1>2. \A o \in T : o \in occs /\ o.id = id
  BY DEF Provider!Of
<1>3. S \subseteq Nat /\ S # {}
  BY <1>1, <1>2
<1>4. PICK n \in S : \A m \in S : n <= m
  BY <1>3, LeastOf
<1>5. \E o \in T : \A p \in T : o.path <= p.path
  BY <1>4
<1>6. Provider!Canonical(T) \in T /\ \A p \in T : Provider!Canonical(T).path <= p.path
  BY <1>5 DEF Provider!Canonical
<1>7. \A p \in occs : p.id = id => p \in T
  BY DEF Provider!Of
<1> HIDE DEF T
<1> QED BY <1>1, <1>2, <1>6, <1>7 DEF T

LEMMA ProviderListed == ASSUME ProviderInv, Provider!Listed PROVE ProviderInv'
<1>1. PICK occs \in DatabaseListings, bad \in SUBSET DatabaseId :
        /\ listed' = [listed EXCEPT ![db] = occs]
        /\ ready' = Provider!Candidates(db, occs, bad)
        /\ broken' = broken \cup ({db} \X bad)
  BY DEF Provider!Listed
<1>2. /\ dpc = "listing" /\ db <= Len(Databases) /\ dpc' = "yielding" /\ db' = db /\ taken' = taken
  BY DEF Provider!Listed
<1> DEFINE N == Len(Databases)  Known == {o.id : o \in occs} \ bad
<1>3. /\ N \in Nat /\ db \in Nat /\ ready = {} /\ \A c \in taken : c.db < db
      /\ listed \in [1..N -> DatabaseListings \cup {{}}]
  BY <1>2, PartsAssumption DEF ProviderInv, ProviderType, Provider!DiscoveryAssumption
<1>4. ProviderType'
  <2>1. listed' \in [1..N -> DatabaseListings \cup {{}}]
    BY <1>1, <1>3
  <2> QED BY <1>2, <2>1 DEF ProviderInv, ProviderType
<1>5. \A d \in 1..N : listed'[d] = IF d = db THEN occs ELSE listed[d]
  BY <1>1, <1>3
<1>6. ASSUME NEW id \in Known
      PROVE  LET f == Provider!Canonical(Provider!Of(occs, id)) IN
               /\ f \in occs /\ f.id = id /\ f.stamp \in Stamp \cup {NoStamp}
               /\ \A p \in occs : p.id = id => f.path <= p.path
  <2>1. Provider!Of(occs, id) # {}
    BY DEF Provider!Of
  <2> QED BY <2>1, CanonicalIsFirst
<1>7. db \in 1..N
  BY <1>2, <1>3 DEF ProviderInv, ProviderType
<1>8. ASSUME NEW o \in occs PROVE Accounted(db, o)'
  <2> DEFINE f == Provider!Canonical(Provider!Of(occs, o.id))
  <2>1. CASE o.id \in bad
    <3>1. <<db, o.id>> \in broken'
      BY <1>1, <2>1
    <3> QED BY <1>2, <3>1 DEF Accounted
  <2>2. CASE o.id \notin bad /\ f.stamp = NoStamp
    <3>1. f \in occs /\ f.id = o.id /\ f.path <= o.path
      BY <1>6, <2>2
    <3> QED BY <1>2, <1>5, <1>7, <2>2, <3>1 DEF Accounted
  <2>3. CASE o.id \notin bad /\ f.stamp # NoStamp
    <3> DEFINE c == Provider!Candidate(db, Provider!Of(occs, o.id))
    <3>1. c \in ready'
      BY <1>1, <2>3 DEF Provider!Candidates, Provider!HasStamp
    <3>2. c.db = db /\ c.id = o.id
      BY <1>6, <2>3 DEF Provider!Candidate
    <3> QED BY <1>2, <3>1, <3>2 DEF Accounted
  <2> QED BY <2>1, <2>2, <2>3
<1>9. ASSUME NEW d \in 1..N, d # db, NEW o \in listed'[d] PROVE Accounted(d, o)'
  <2>1. o \in listed[d] /\ listed'[d] = listed[d]
    BY <1>5, <1>9
  <2>2. Accounted(d, o)
    BY <1>2, <2>1 DEF ProviderInv
  <2> QED BY <1>1, <1>2, <1>3, <2>1, <2>2 DEF Accounted
<1>10. ASSUME NEW c \in taken PROVE IsOfDatabase(c)'
  <2>1. IsOfDatabase(c) /\ c.db < db
    BY <1>3 DEF ProviderInv
  <2>2. listed'[c.db] = listed[c.db]
    BY <1>3, <1>5, <2>1 DEF IsOfDatabase
  <2> QED BY <1>2, <2>1, <2>2 DEF IsOfDatabase
<1>11. ASSUME NEW c \in ready' PROVE IsOfDatabase(c)'
  <2>1. PICK id \in Known : /\ c = Provider!Candidate(db, Provider!Of(occs, id))
                            /\ Provider!HasStamp(Provider!Of(occs, id))
    BY <1>1 DEF Provider!Candidates
  <2> DEFINE f == Provider!Canonical(Provider!Of(occs, id))
  <2>2. /\ f \in occs /\ f.id = id /\ f.stamp \in Stamp
    BY <1>6, <2>1 DEF Provider!HasStamp
  <2>3. c.db = db /\ c.id = id /\ c.stamp = f.stamp
        /\ c.paths = {o.path : o \in Provider!Of(occs, id)} \ {0}
    BY <2>1, <2>2 DEF Provider!Candidate, Provider!AllPaths
  <2>4. db \in 1..N /\ listed'[db] = occs
    BY <1>5, <1>7
  <2> QED BY <1>2, <1>3, <2>2, <2>3, <2>4 DEF IsOfDatabase
<1> QED BY <1>2, <1>3, <1>4, <1>5, <1>8, <1>9, <1>10, <1>11 DEF ProviderInv

\* The next database: the one in hand has failed, or its candidates are taken.
LEMMA ProviderMoves ==
  ASSUME ProviderInv, Provider!ListFails \/ Provider!NextDatabase \/ Provider!Complete
  PROVE  ProviderInv'
<1>1. /\ UNCHANGED <<listed, ready, taken, broken>>
      /\ \/ db' = db + 1 /\ dpc' = "listing" /\ ready = {}
         \/ db' = db /\ dpc' = "complete" /\ dpc = "listing"
      /\ dpc # "failed"
  BY DEF Provider!ListFails, Provider!NextDatabase, Provider!Complete, ProviderInv
<1>2. ProviderType' /\ db' \in Nat /\ db \in Nat /\ db' >= db /\ Len(Databases) \in Nat
  BY <1>1, PartsAssumption DEF ProviderInv, ProviderType, Provider!DiscoveryAssumption
<1>3. ASSUME NEW c \in ready' \cup taken' PROVE IsOfDatabase(c)'
  <2>1. IsOfDatabase(c)
    BY <1>1 DEF ProviderInv
  <2>2. c.db \in Int /\ c.db <= db'
    BY <1>2, <2>1 DEF IsOfDatabase
  <2> QED BY <1>1, <2>1, <2>2 DEF IsOfDatabase
<1>4. \A c \in taken : c.db \in Int /\ c.db <= db
  BY DEF ProviderInv, IsOfDatabase
<1>5. ready' = {} /\ \A c \in taken' : c.db < db'
  BY <1>1, <1>2, <1>4 DEF ProviderInv
<1>6. \A d \in 1..Len(Databases) : \A o \in listed'[d] : Accounted(d, o)'
  BY <1>1 DEF ProviderInv, Accounted
<1> QED BY <1>1, <1>2, <1>3, <1>5, <1>6 DEF ProviderInv

\* The runner takes a candidate, or dies of a code it has seen.
LEMMA ProviderYield == ASSUME ProviderInv, Provider!Yield PROVE ProviderInv'
<1>1. PICK c \in ready :
        /\ ready' = ready \ {c}
        /\ \/ Provider!Taken(c) /\ dpc' = "failed" /\ taken' = taken
           \/ ~ Provider!Taken(c) /\ dpc' = dpc /\ taken' = taken \cup {c}
  BY DEF Provider!Yield
<1>2. dpc = "yielding" /\ UNCHANGED <<db, listed, broken>>
  BY DEF Provider!Yield
<1>3. ProviderType' /\ (dpc' = "yielding" => db' <= Len(Databases)) /\ dpc' \notin {"listing", "complete"}
  BY <1>1, <1>2 DEF ProviderInv, ProviderType
<1>4. ready' \cup taken' \subseteq ready \cup taken
  BY <1>1
<1>5. \A e \in ready' \cup taken' : IsOfDatabase(e)'
  BY <1>2, <1>4 DEF ProviderInv, IsOfDatabase
<1>6. dpc' # "failed" => \A d \in 1..Len(Databases) : \A o \in listed'[d] : Accounted(d, o)'
  <2>1. dpc' # "failed" => ready' \cup taken' = ready \cup taken
    BY <1>1
  <2> QED BY <1>2, <2>1 DEF ProviderInv, Accounted
<1>7. \A e, f \in taken' : e.id = f.id => e = f
  BY <1>1 DEF ProviderInv, Provider!Taken
<1> QED BY <1>3, <1>5, <1>6, <1>7 DEF ProviderInv

LEMMA ProviderStart == Provider!Init => ProviderInv
  BY PartsAssumption
     DEF Provider!Init, ProviderInv, ProviderType, Provider!DiscoveryAssumption

LEMMA ProviderStep == ProviderInv /\ [Provider!Next]_(Provider!vars) => ProviderInv'
<1>1. ASSUME ProviderInv, UNCHANGED Provider!vars PROVE ProviderInv'
  BY <1>1 DEF Provider!vars, ProviderInv, ProviderType, Accounted, IsOfDatabase
<1> QED BY <1>1, ProviderListed, ProviderMoves, ProviderYield DEF Provider!Next

LEMMA ProviderInvariant == Provider!Spec => []ProviderInv
<1> QED BY ProviderStart, ProviderStep, PTL DEF Provider!Spec

\* A run that counts as complete has accepted every table of every database that it
\* could list, but those whose processing raised or whose first occurrence has no
\* stamp: whatever the databases list, share and fail at.
THEOREM CompleteRunHasAll == Provider!Spec => []CompleteHasAll
<1>1. ProviderInv => Provider!CompleteHasAll
  BY DEF ProviderInv, Provider!CompleteHasAll, Accounted
<1> QED BY <1>1, ProviderInvariant, PTL DEF CompleteHasAll

\* A code in seen stands for one table of one database, with all its paths there.
THEOREM CodesAreTables == Provider!Spec => []CodeIsOneTable
<1>1. ProviderInv => Provider!CodeIsOneTable
  BY DEF ProviderInv, Provider!CodeIsOneTable, IsOfDatabase
<1> QED BY <1>1, ProviderInvariant, PTL DEF CodeIsOneTable

-----------------------------------------------------------------------------
(* PXWeb v1's two lists of tables.                                           *)
(* What the web tree gave is what Tables makes of the answers in hand, and   *)
(* an execution that met trouble can only crawl.                             *)

WebListInv ==
  /\ trouble => lpc \in {"crawl", "returned", "failed"} /\ how # "web"
  /\ how # "none" => lpc = "returned"
  /\ how = "web" => result = Listing!Tables

LEMMA WebListStep == WebListInv /\ [Listing!Next]_(Listing!vars) => WebListInv'
<1> SUFFICES ASSUME WebListInv, [Listing!Next]_(Listing!vars) PROVE WebListInv'
  OBVIOUS
<1>1. CASE Listing!Build
  <2>1. result' = Listing!Tables /\ lpc' = "returned" /\ how' = "web" /\ UNCHANGED <<flat, web, metadata, trouble>>
    BY <1>1 DEF Listing!Build, Listing!tree
  <2>2. Listing!Tables' = Listing!Tables
    BY <2>1 DEF Listing!Tables, Listing!FirstOccurrences, Listing!MetadataFor, Listing!FirstOfId,
                Listing!OfId, Listing!OfIdAt
  <2>3. ~ trouble
    BY <1>1 DEF Listing!Build, WebListInv
  <2> QED BY <2>1, <2>2, <2>3 DEF WebListInv
<1>2. CASE UNCHANGED Listing!vars
  <2>1. UNCHANGED <<lpc, flat, web, short, metadata, result, how, trouble>>
    BY <1>2 DEF Listing!vars, Listing!tree
  <2>2. Listing!Tables' = Listing!Tables
    BY <2>1 DEF Listing!Tables, Listing!FirstOccurrences, Listing!MetadataFor, Listing!FirstOfId,
                Listing!OfId, Listing!OfIdAt
  <2> QED BY <2>1, <2>2 DEF WebListInv
<1>3. CASE Listing!Crawled
  BY <1>3 DEF Listing!Crawled, WebListInv
<1>4. CASE \/ Listing!Searched \/ Listing!FormFound \/ Listing!TreeRead \/ Listing!BranchRead
           \/ Listing!BranchIgnored \/ Listing!BranchesRead \/ Listing!LabelsRead
  <2>1. lpc \notin {"crawl", "returned", "failed"} /\ how' = how /\ trouble' = trouble
    BY <1>4 DEF Listing!Searched, Listing!FormFound, Listing!TreeRead, Listing!BranchRead,
                Listing!BranchIgnored, Listing!BranchesRead, Listing!LabelsRead
  <2> QED BY <2>1 DEF WebListInv
<1>5. CASE Listing!RequestFails \/ Listing!BuildFails \/ Listing!CrawlFails
  <2>1. lpc # "returned" /\ lpc' \in {"crawl", "failed"} /\ how' = how
    BY <1>5 DEF Listing!RequestFails, Listing!BuildFails, Listing!CrawlFails, Listing!FallBack
  <2> QED BY <2>1 DEF WebListInv
<1> QED BY <1>1, <1>2, <1>3, <1>4, <1>5 DEF Listing!Next

\* Of the occurrences of a table at a path, one is the first in the tree.
LEMMA FirstOccurrence ==
  ASSUME NEW i \in 1..Len(web)
  PROVE  \E j \in Listing!FirstOccurrences :
           web[j].path = web[i].path /\ TableFold[web[j].id] = TableFold[web[i].id]
<1> DEFINE S == {j \in 1..Len(web) : web[j].path = web[i].path
                                       /\ TableFold[web[j].id] = TableFold[web[i].id]}
<1>1. S \subseteq Nat /\ S # {}
  OBVIOUS
<1>2. PICK n \in S : \A m \in S : n <= m
  BY <1>1, LeastOf
<1>3. \A j \in 1..Len(web) : j < n => j \notin S
  <2> SUFFICES ASSUME NEW j \in 1..Len(web), j < n, j \in S PROVE FALSE
    OBVIOUS
  <2>1. n <= j /\ n \in Int /\ j \in Int
    BY <1>2
  <2> HIDE DEF S
  <2> QED BY <2>1
<1>4. n \in Listing!FirstOccurrences
  BY <1>3 DEF Listing!FirstOccurrences
<1> QED BY <1>4

\* What _metadata_for_web_table finds, and where.
LEMMA MetadataFound ==
  ASSUME NEW w
  PROVE  LET m == Listing!MetadataFor(w)
             known == TableFold[w.id] \in Listing!Keys(Listing!Elems(flat)) IN
           /\ m # Listing!None <=> known \/ <<w.path, TableFold[w.id]>> \in metadata
           /\ (\E f \in Listing!Elems(flat) : TableFold[f.id] = TableFold[w.id] /\ f.path = w.path) =>
                m = [src |-> "flat", path |-> w.path]
           /\ m.src = "branch" => ~ known
<1> DEFINE known == TableFold[w.id] \in Listing!Keys(Listing!Elems(flat))
<1>1. known <=> Listing!OfId(w.id) # {}
  BY DEF Listing!Keys, Listing!Elems, Listing!OfId
<1>2. (\E f \in Listing!Elems(flat) : TableFold[f.id] = TableFold[w.id] /\ f.path = w.path)
        <=> Listing!OfIdAt(w) # {}
  BY DEF Listing!Elems, Listing!OfId, Listing!OfIdAt
<1>3. Listing!OfIdAt(w) \subseteq Listing!OfId(w.id)
  BY DEF Listing!OfIdAt
<1>4. ASSUME NEW x, NEW y
      PROVE  /\ [src |-> "flat", path |-> x] # Listing!None /\ [src |-> "branch", path |-> y] # Listing!None
             /\ [src |-> "flat", path |-> x].src = "flat" /\ Listing!None.src = "none"
             /\ [src |-> "branch", path |-> x].src = "branch"
  <2>1. Listing!None.src = "none"
    BY DEF Listing!None
  <2> QED BY <2>1
<1> HIDE DEF known
<1>5. CASE Listing!OfIdAt(w) # {}
  <2>1. Listing!MetadataFor(w) = [src |-> "flat", path |-> w.path]
    BY <1>5 DEF Listing!MetadataFor
  <2> QED BY <1>1, <1>2, <1>3, <1>4, <1>5, <2>1 DEF known
<1>6. CASE Listing!OfIdAt(w) = {} /\ Listing!OfId(w.id) # {}
  <2>1. \E x : Listing!MetadataFor(w) = [src |-> "flat", path |-> x]
    BY <1>6 DEF Listing!MetadataFor, Listing!FirstOfId
  <2> QED BY <1>1, <1>2, <1>4, <1>6, <2>1 DEF known
<1>7. CASE Listing!OfIdAt(w) = {} /\ Listing!OfId(w.id) = {}
  <2>1. Listing!MetadataFor(w) = IF <<w.path, TableFold[w.id]>> \in metadata
                                 THEN [src |-> "branch", path |-> w.path] ELSE Listing!None
    BY <1>7 DEF Listing!MetadataFor, Listing!FirstOfId
  <2> QED BY <1>1, <1>2, <1>4, <1>7, <2>1 DEF known
<1> QED BY <1>5, <1>6, <1>7

LEMMA TablesAreSound == WebListInv => Listing!WebListIsSound
<1> SUFFICES ASSUME WebListInv, how = "web" PROVE Listing!WebListIsSound
  BY DEF Listing!WebListIsSound
<1>1. ~ trouble /\ result = Listing!Tables
  BY DEF WebListInv
<1> DEFINE Known(w) == \/ TableFold[w.id] \in Listing!Keys(Listing!Elems(flat))
                       \/ <<w.path, TableFold[w.id]>> \in metadata
           Expected == Listing!Occurrences({w \in Listing!Elems(web) : Known(w)})
<1>2. ASSUME NEW t \in result
      PROVE  \E i \in Listing!FirstOccurrences :
               /\ t.id = web[i].id /\ t.path = web[i].path /\ t.meta = Listing!MetadataFor(web[i])
               /\ t = [id |-> web[i].id, path |-> web[i].path, meta |-> Listing!MetadataFor(web[i])]
               /\ Listing!MetadataFor(web[i]) # Listing!None
  BY <1>1 DEF Listing!Tables
<1>3. ASSUME NEW t \in result PROVE <<t.path, TableFold[t.id]>> \in Expected
  <2>1. PICK i \in Listing!FirstOccurrences :
          t.id = web[i].id /\ t.path = web[i].path /\ Listing!MetadataFor(web[i]) # Listing!None
    BY <1>2
  <2>2. Known(web[i])
    BY <2>1, MetadataFound
  <2>3. web[i] \in Listing!Elems(web)
    BY DEF Listing!FirstOccurrences, Listing!Elems
  <2> QED BY <2>1, <2>2, <2>3 DEF Listing!Occurrences
<1>4. ASSUME NEW w \in Listing!Elems(web), Known(w)
      PROVE  \E t \in result : t.path = w.path /\ TableFold[t.id] = TableFold[w.id]
  <2>1. PICK i \in 1..Len(web) : w = web[i]
    BY DEF Listing!Elems
  <2>2. PICK j \in Listing!FirstOccurrences :
          web[j].path = w.path /\ TableFold[web[j].id] = TableFold[w.id]
    BY <2>1, FirstOccurrence
  <2>3. Known(web[j])
    BY <1>4, <2>2
  <2>4. Listing!MetadataFor(web[j]) # Listing!None
    BY <2>3, MetadataFound
  <2>5. [id |-> web[j].id, path |-> web[j].path, meta |-> Listing!MetadataFor(web[j])] \in result
    BY <1>1, <2>4 DEF Listing!Tables
  <2> QED BY <2>2, <2>5
<1>5. Listing!Occurrences(result) = Expected
  BY <1>3, <1>4 DEF Listing!Occurrences
<1>6. ASSUME NEW t \in result, NEW u \in result, u.path = t.path, TableFold[u.id] = TableFold[t.id]
      PROVE  u = t
  <2>1. PICK i \in Listing!FirstOccurrences :
          /\ t.id = web[i].id /\ t.path = web[i].path
          /\ t = [id |-> web[i].id, path |-> web[i].path, meta |-> Listing!MetadataFor(web[i])]
    BY <1>2
  <2>2. PICK j \in Listing!FirstOccurrences :
          /\ u.id = web[j].id /\ u.path = web[j].path
          /\ u = [id |-> web[j].id, path |-> web[j].path, meta |-> Listing!MetadataFor(web[j])]
    BY <1>2
  <2>3. i \in 1..Len(web) /\ j \in 1..Len(web) /\ ~ (i < j) /\ ~ (j < i)
    BY <1>6, <2>1, <2>2 DEF Listing!FirstOccurrences
  <2>4. i = j
    BY <2>3
  <2> QED BY <2>1, <2>2, <2>4
<1>7. ASSUME NEW t \in result
      PROVE  /\ (\E f \in Listing!Elems(flat) : TableFold[f.id] = TableFold[t.id] /\ f.path = t.path) =>
                   t.meta = [src |-> "flat", path |-> t.path]
             /\ t.meta.src = "branch" => TableFold[t.id] \notin Listing!Keys(Listing!Elems(flat))
  <2>1. PICK i \in Listing!FirstOccurrences :
          t.id = web[i].id /\ t.path = web[i].path /\ t.meta = Listing!MetadataFor(web[i])
    BY <1>2
  <2> DEFINE w == web[i]
  <2>2. /\ (\E f \in Listing!Elems(flat) : TableFold[f.id] = TableFold[w.id] /\ f.path = w.path) =>
              Listing!MetadataFor(w) = [src |-> "flat", path |-> w.path]
        /\ Listing!MetadataFor(w).src = "branch" =>
              TableFold[w.id] \notin Listing!Keys(Listing!Elems(flat))
    BY MetadataFound
  <2> HIDE DEF w
  <2>3. t.id = w.id /\ t.path = w.path /\ t.meta = Listing!MetadataFor(w)
    BY <2>1 DEF w
  <2> QED BY <2>2, <2>3
<1> QED BY <1>1, <1>5, <1>6, <1>7 DEF Listing!WebListIsSound

\* A list built from the web tree holds exactly the occurrences whose table the API
\* knows, each once and with the nearest metadata, and only if nothing went wrong:
\* for any answers, ids that fold together, and failures.
THEOREM WebListSound == Listing!Spec => []WebListIsSound
<1>1. Listing!Init => WebListInv
  BY DEF Listing!Init, WebListInv
<1> QED BY <1>1, WebListStep, TablesAreSound, PTL DEF WebListIsSound, Listing!Spec

-----------------------------------------------------------------------------
(* The four machines beside one another.                                     *)

LEMMA EachMachine == MCSpec => Spec /\ Listing!Spec /\ Provider!Spec /\ Paging!Spec
<1>1. MCInit => Init /\ Listing!Init /\ Provider!Init /\ Paging!Init
  BY DEF MCInit
<1> DEFINE step == [MCNext]_everything
<1>2. step => [Listing!Next]_(Listing!vars)
  BY DEF MCNext, Reader, Changing, InCrawl, InListing, InProvider, InPaging, everything, ofListing,
         Listing!vars, Listing!tree
<1>3. step => [Provider!Next]_(Provider!vars)
  BY DEF MCNext, Reader, Changing, InCrawl, InListing, InProvider, InPaging, everything, ofProvider,
         Provider!vars
<1>4. step => [Paging!Next]_(Paging!vars)
  BY DEF MCNext, Reader, Changing, InCrawl, InListing, InProvider, InPaging, everything, ofPaging,
         Paging!vars, Paging!provider, Paging!Next
<1>5. step => [Next]_vars
  BY DEF MCNext, Reader, Changing, InCrawl, InListing, InProvider, InPaging, everything
<1> QED
  BY <1>1, <1>2, <1>3, <1>4, <1>5, PTL DEF MCSpec, Spec, Listing!Spec, Provider!Spec, Paging!Spec

\* So the four machines side by side keep what each of them promises.
THEOREM DiscoverySafe ==
  MCSpec => [](/\ ListingIsExact /\ CapIsExact /\ WebListIsSound /\ CompleteHasAll
               /\ CodeIsOneTable /\ FaultsAreExplained)
<1> QED
  BY EachMachine, Exactness, CapExactness, WebListSound, CompleteRunHasAll, CodesAreTables,
     FaultsExplained, PTL
====
