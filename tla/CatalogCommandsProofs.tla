---- MODULE CatalogCommandsProofs ----
(* Proofs about CatalogCommands: what the commands promise about the catalog *)
(* for any file, any number of attempts and any number of foreign edits.     *)
EXTENDS CatalogCommands, FiniteSetTheorems, TLAPS

Records == 1..Len(file)

TypeInv ==
  /\ command \in {"request", "cancel", "import"}
  /\ file \in Seq([code : Code, doc : Doc])
  /\ command # "import" => file = <<>>
  /\ store \in [Code -> Doc \cup {NoDoc}] /\ initial \in [Code -> Doc \cup {NoDoc}]
  /\ pc \in {"start", "sent", "done", "raised"}
  /\ at \in Nat /\ attempt \in Nat /\ jobs \in Nat /\ edits \in Nat

\* Every command sends requests of its own kind, about the record it has reached;
\* no POST of a job has a second attempt.
Current ==
  /\ command = "request" => req = Request("POST_job", 0) /\ attempt = 1
  /\ command = "cancel"  => req = Request("POST_cancel", 0)
  /\ command = "import"  => req.method \in {"GET", "PUT"} /\ req.record = at /\ at \in Records
Sent(m) ==
  /\ command = "request" => m = Message(Request("POST_job", 0), 1)
  /\ command = "cancel"  => m.req.method = "POST_cancel"
  /\ command = "import"  => /\ m.req.method \in {"GET", "PUT"} /\ m.req.record \in Records
                            /\ m.req.record <= at
                            /\ m.req.method = "PUT" /\ m.req.record = at => req.method = "PUT"
RequestInv ==
  /\ pc = "start" => wire = {} /\ at = 0
  /\ pc # "sent" => reply = Nothing
  /\ pc = "sent" => Current
  /\ \A m \in wire : Sent(m)
  /\ reply.status = "404" => pc = "sent" /\ req.method = "GET" /\ command = "import"

\* A PUT is about a code that had no configuration at first.
AbsentAtFirst(i) == initial[CodeOf(i)] = NoDoc
SafeInv ==
  /\ \A c \in Code : store[c] = NoDoc => initial[c] = NoDoc
  /\ reply.status = "404" => AbsentAtFirst(at)
  /\ pc = "sent" /\ req.method = "PUT" => AbsentAtFirst(at)
  /\ \A m \in wire : m.req.method = "PUT" => AbsentAtFirst(m.req.record)
  /\ ExistingIsSafe

JobInv ==
  /\ jobs <= 1
  /\ command = "request" => jobs = 0 \/ wire = {}
  /\ command # "request" \/ pc = "start" => jobs = 0

\* A file with an invalid record never gets past the start.
FileInv == pc \in {"sent", "done"} \/ wire # {} => AllAreValid

\* Without another writer the records before the one reached are in the catalog,
\* and a PUT finds nothing, or what it writes.
AloneInv ==
  edits = 0 =>
    /\ overwritten = {}
    /\ \A i \in Records : i < at => store[CodeOf(i)] # NoDoc
    /\ reply.status = "404" => store[CodeOf(at)] = NoDoc
    /\ reply.status = "ok" /\ command = "import" => store[CodeOf(at)] # NoDoc
    /\ pc = "sent" /\ req.method = "PUT" => store[CodeOf(at)] \in {NoDoc, file[at].doc}
    /\ \A m \in wire : m.req.method = "PUT" =>
         store[CodeOf(m.req.record)] \in {NoDoc, file[m.req.record].doc}
    /\ ~ AllAreValid => store = initial

\* What the client has seen is so: the job is cancelled or queued, and the records
\* it is past are each in one list, the right one if nobody else writes.
Over(i)     == i < at \/ pc = "done"
InOne(i)    == \E l \in Lists : \A k \in Lists : i \in result[k] <=> k = l
InNone(i)   == \A l \in Lists : i \notin result[l]
Right(i)    == /\ store[CodeOf(i)] # NoDoc
               /\ i \in result["differences"] <=> store[CodeOf(i)] # file[i].doc
AppliedInv ==
  /\ result \in [Lists -> SUBSET Nat]
  /\ pc = "done" \/ reply.status = "ok" =>
       (command = "cancel" => cancelled) /\ (command = "request" => jobs = 1)
  /\ \A i \in Records : IF Over(i) THEN InOne(i) ELSE InNone(i)
  /\ edits = 0 => \A i \in Records : Over(i) => Right(i)
  /\ edits = 0 /\ reply.status = "ok" /\ command = "import" /\ req.method = "GET" =>
       reply.doc = store[CodeOf(at)]

IInv == TypeInv /\ RequestInv /\ SafeInv /\ JobInv /\ FileInv /\ AloneInv

-----------------------------------------------------------------------------
LEMMA InitInv == Init => IInv
<1> SUFFICES ASSUME Init PROVE IInv
  OBVIOUS
<1>1. /\ reply.status = "none" /\ wire = {} /\ pc = "start" /\ at = 0 /\ jobs = 0
      /\ edits = 0 /\ overwritten = {} /\ store = initial
  BY DEF Init, Nothing
<1>2. TypeInv
  <2>1. file \in Seq([code : Code, doc : Doc]) /\ (command # "import" => file = <<>>)
    <3>1. CASE command = "import"
      BY <3>1, CommandAssumption DEF Init
    <3>2. CASE command # "import"
      <4>1. file = <<>>
        BY <3>2 DEF Init
      <4> QED BY <3>2, <4>1
    <3> QED BY <3>1, <3>2
  <2>2. store \in [Code -> Doc \cup {NoDoc}]
    <3>1. store \in [Code -> (Doc \ Invalid) \cup {NoDoc}]
      BY DEF Init
    <3> QED BY <3>1
  <2> QED BY <1>1, <2>1, <2>2 DEF Init, TypeInv
<1>3. RequestInv /\ SafeInv /\ JobInv /\ FileInv
  BY <1>1, <1>2 DEF Init, RequestInv, SafeInv, JobInv, FileInv, ExistingIsSafe, Nothing
<1>4. AloneInv
  BY <1>1, <1>2 DEF AloneInv, Records, TypeInv
<1> QED BY <1>2, <1>3, <1>4 DEF IInv

\* Every record of a file is about a code.
LEMMA CodesOfRecords ==
  ASSUME TypeInv, NEW i \in Records
  PROVE  CodeOf(i) \in Code /\ file[i].doc \in Doc /\ file[i].doc # NoDoc
<1>1. file[i] \in [code : Code, doc : Doc]
  <2> DEFINE R == [code : Code, doc : Doc]
  <2>1. file \in Seq(R) /\ i \in 1..Len(file)
    BY DEF TypeInv, Records
  <2> HIDE DEF R
  <2>2. file[i] \in R
    BY <2>1
  <2> QED BY <2>2 DEF R
<1> QED BY <1>1, CommandAssumption DEF CodeOf

-----------------------------------------------------------------------------
(* The client.                                                               *)

\* The import asks for the next record, or writes the one it did not find.
LEMMA AskStep ==
  ASSUME IInv, command = "import", AllAreValid, NEW i \in Records, NEW method \in {"GET", "PUT"},
         Ask(Request(method, i)), at' = i,
         IF method = "PUT" THEN i = at /\ reply.status = "404"
         ELSE i = at + 1 /\ (at # 0 => reply.status = "ok"),
         UNCHANGED <<command, file, catalog, initial>>
  PROVE  IInv'
<1>1. /\ req' = [method |-> method, record |-> i] /\ attempt' = 1 /\ reply' = [status |-> "none"]
      /\ wire' = wire \cup {Message(Request(method, i), 1)} /\ pc' = "sent"
      /\ UNCHANGED <<command, file, initial, store, jobs, cancelled, edits, overwritten>>
  BY DEF Ask, Request, catalog, Nothing
<1>2. at \in Nat /\ i \in Nat /\ Records' = Records /\ at <= i
  BY <1>1 DEF IInv, TypeInv, Records
<1>3. TypeInv'
  BY <1>1, <1>2 DEF IInv, TypeInv
<1>4. RequestInv'
  <2>1. ASSUME NEW m \in wire' PROVE Sent(m)'
    <3>1. CASE m \in wire
      <4>1. Sent(m)
        BY <3>1 DEF IInv, RequestInv
      <4> QED BY <1>1, <1>2, <4>1 DEF Sent, Records
    <3>2. CASE m \notin wire
      BY <1>1, <1>2, <3>2 DEF Sent, Message, Request
    <3> QED BY <3>1, <3>2
  <2> QED BY <1>1, <1>2, <2>1 DEF RequestInv, Current
<1>5. SafeInv'
  <2>1. method = "PUT" => AbsentAtFirst(i)
    BY DEF IInv, SafeInv
  <2>2. \A m \in wire' : m.req.method = "PUT" => AbsentAtFirst(m.req.record)
    BY <1>1, <2>1 DEF IInv, SafeInv, Message, Request
  <2> QED BY <1>1, <2>1, <2>2 DEF IInv, SafeInv, AbsentAtFirst, ExistingIsSafe, CodeOf
<1>6. JobInv' /\ FileInv'
  BY <1>1 DEF IInv, JobInv, FileInv, AllAreValid, CodeOf
<1>7. AloneInv'
  <2> SUFFICES ASSUME edits = 0
               PROVE  /\ \A n \in Records : n < i => store[CodeOf(n)] # NoDoc
                      /\ method = "PUT" => store[CodeOf(i)] \in {NoDoc, file[i].doc}
                      /\ \A m \in wire' : m.req.method = "PUT" =>
                           store[CodeOf(m.req.record)] \in {NoDoc, file[m.req.record].doc}
    BY <1>1, <1>2 DEF IInv, AloneInv, CodeOf, AllAreValid
  <2>1. method = "PUT" => store[CodeOf(i)] = NoDoc
    BY DEF IInv, AloneInv
  <2>2. ASSUME NEW n \in Records, n < i PROVE store[CodeOf(n)] # NoDoc
    BY <1>2, <2>2 DEF IInv, AloneInv, Records
  <2>3. \A m \in wire' : m.req.method = "PUT" =>
           store[CodeOf(m.req.record)] \in {NoDoc, file[m.req.record].doc}
    BY <1>1, <2>1 DEF IInv, AloneInv, Message, Request
  <2> QED BY <2>1, <2>2, <2>3
<1> QED BY <1>3, <1>4, <1>5, <1>6, <1>7 DEF IInv

\* The command ends, or its request is repeated; nothing else of it changes.
LEMMA EndStep ==
  ASSUME IInv, pc \in {"start", "sent"}, pc' \in {"done", "raised"}, reply' = Nothing,
         pc' = "done" => AllAreValid,
         UNCHANGED <<command, file, at, req, attempt, wire, catalog, initial>>
  PROVE  IInv'
<1>1. reply'.status = "none"
  BY DEF Nothing
<1>2. UNCHANGED <<store, jobs, cancelled, edits, overwritten, Records>>
  BY DEF catalog, Records
<1>3. TypeInv' /\ JobInv' /\ FileInv'
  BY <1>2 DEF IInv, TypeInv, JobInv, FileInv, AllAreValid
<1>4. RequestInv'
  BY <1>1, <1>2 DEF IInv, RequestInv, Sent
<1>5. SafeInv'
  BY <1>1, <1>2 DEF IInv, SafeInv, AbsentAtFirst, ExistingIsSafe, CodeOf
<1>6. AloneInv'
  BY <1>1, <1>2 DEF IInv, AloneInv, CodeOf, AllAreValid
<1> QED BY <1>3, <1>4, <1>5, <1>6 DEF IInv

LEMMA RetryStep ==
  ASSUME IInv, pc = "sent", Retry, UNCHANGED <<command, file, catalog, initial>>
  PROVE  IInv'
<1>1. Current /\ AllAreValid /\ command \in {"request", "cancel", "import"}
  BY DEF IInv, RequestInv, FileInv, TypeInv
<1>2. CASE Raise
  <2>1. pc' = "raised" /\ reply' = Nothing /\ UNCHANGED <<at, req, attempt, wire>>
    BY <1>2 DEF Raise
  <2> QED BY <2>1, EndStep
<1>3. CASE ~ Raise
  <2>1. /\ attempt # Tries(req.method) /\ attempt' = attempt + 1 /\ reply' = [status |-> "none"]
        /\ wire' = wire \cup {Message(req, attempt + 1)}
        /\ UNCHANGED <<pc, at, req, command, file, initial, store, jobs, cancelled, edits, overwritten>>
    BY <1>3 DEF Retry, catalog, Nothing
  <2>2. command # "request"
    BY <1>1, <2>1 DEF Current, Request, Tries
  <2>3. TypeInv' /\ Records' = Records
    BY <2>1 DEF IInv, TypeInv, Records
  <2>4. RequestInv'
    <3>1. ASSUME NEW m \in wire' PROVE Sent(m)'
      <4>1. CASE m \in wire
        <5>1. Sent(m)
          BY <4>1 DEF IInv, RequestInv
        <5> QED BY <2>1, <2>3, <5>1 DEF Sent
      <4>2. CASE m \notin wire
        <5>1. m.req = req /\ at \in Nat
          BY <2>1, <4>2 DEF Message, IInv, TypeInv
        <5> QED BY <1>1, <2>1, <2>2, <2>3, <5>1 DEF Sent, Current, Request
      <4> QED BY <4>1, <4>2
    <3> QED BY <1>1, <2>1, <2>2, <2>3, <3>1 DEF IInv, RequestInv, Current
  <2>5. SafeInv'
    <3>1. \A m \in wire' : m.req.method = "PUT" => AbsentAtFirst(m.req.record)
      <4>1. req.method = "PUT" => AbsentAtFirst(req.record)
        BY <1>1 DEF Current, Request, IInv, SafeInv
      <4> QED BY <2>1, <4>1 DEF IInv, SafeInv, Message
    <3> QED BY <2>1, <3>1 DEF IInv, SafeInv, AbsentAtFirst, ExistingIsSafe, CodeOf
  <2>6. JobInv' /\ FileInv'
    BY <1>1, <2>1, <2>2 DEF IInv, JobInv, FileInv, AllAreValid
  <2>7. AloneInv'
    <3>1. req.method = "PUT" => req.record = at
      BY <1>1 DEF Current, Request
    <3> QED BY <2>1, <2>3, <3>1 DEF IInv, AloneInv, CodeOf, AllAreValid, Message
  <2> QED BY <2>3, <2>4, <2>5, <2>6, <2>7 DEF IInv
<1> QED BY <1>2, <1>3

\* The next record, or the end.
LEMMA ProceedStep ==
  ASSUME IInv, command = "import", AllAreValid, Proceed(at + 1),
         \/ pc = "start" /\ at = 0
         \/ pc = "sent" /\ reply.status = "ok",
         UNCHANGED <<command, file, catalog, initial>>
  PROVE  IInv'
<1>1. at \in Nat /\ Len(file) \in Nat
  BY DEF IInv, TypeInv
<1>2. CASE at + 1 <= Len(file)
  <2>1. at + 1 \in Records
    BY <1>1, <1>2 DEF Records
  <2>2. at' = at + 1 /\ Ask(Request("GET", at + 1))
    BY <1>2 DEF Proceed
  <2> QED BY <2>1, <2>2, AskStep
<1>3. CASE ~ (at + 1 <= Len(file))
  BY <1>3, EndStep DEF Proceed
<1> QED BY <1>2, <1>3

LEMMA StartStep == ASSUME IInv, Start PROVE IInv'
<1>1. /\ pc = "start" /\ wire = {} /\ at = 0 /\ jobs = 0 /\ reply.status # "404"
      /\ UNCHANGED <<command, file, result, catalog, initial>>
      /\ command \in {"request", "cancel", "import"}
  BY DEF Start, IInv, RequestInv, JobInv, Nothing, TypeInv
<1>2. CASE command \in {"request", "cancel"}
  <2> DEFINE method == IF command = "request" THEN "POST_job" ELSE "POST_cancel"
  <2>1. Ask(Request(method, 0)) /\ UNCHANGED at
    BY <1>2 DEF Start
  <2>2. /\ req' = Request(method, 0) /\ attempt' = 1 /\ reply' = [status |-> "none"]
        /\ wire' = {Message(Request(method, 0), 1)} /\ pc' = "sent" /\ at' = at
        /\ UNCHANGED <<command, file, initial, store, jobs, cancelled, edits, overwritten>>
    BY <1>1, <2>1 DEF Ask, catalog, Nothing
  <2>3. AllAreValid /\ Records' = Records
    BY <1>2, <2>2 DEF AllAreValid, IInv, TypeInv, Records
  <2>4. TypeInv' /\ JobInv' /\ FileInv'
    BY <1>1, <2>2, <2>3 DEF IInv, TypeInv, JobInv, FileInv, AllAreValid
  <2>5. RequestInv'
    BY <1>2, <2>2 DEF RequestInv, Current, Sent, Message, Request
  <2>6. SafeInv'
    BY <1>2, <2>2 DEF IInv, SafeInv, AbsentAtFirst, ExistingIsSafe, CodeOf, Message, Request
  <2>7. AloneInv'
    BY <1>1, <1>2, <2>2, <2>3 DEF IInv, AloneInv, CodeOf, AllAreValid, Message, Request
  <2> QED BY <2>4, <2>5, <2>6, <2>7 DEF IInv
<1>3. CASE command = "import" /\ AllAreValid
  <2>1. Proceed(at + 1)
    BY <1>1, <1>3 DEF Start
  <2> QED BY <1>1, <1>3, <2>1, ProceedStep
<1>4. CASE command = "import" /\ ~ AllAreValid
  <2>1. pc' = "raised" /\ UNCHANGED <<at, req, attempt, reply, wire>>
    BY <1>4 DEF Start
  <2>2. reply = Nothing
    BY <1>1 DEF IInv, RequestInv
  <2> QED BY <1>1, <2>1, <2>2, EndStep
<1> QED BY <1>1, <1>2, <1>3, <1>4

LEMMA ClientStep == ASSUME IInv, Client PROVE IInv'
<1>1. CASE Start
  BY <1>1, StartStep
<1>2. CASE TimeOut \/ Busy
  BY <1>2, RetryStep DEF TimeOut, Busy
<1>3. CASE Refused
  BY <1>3, EndStep DEF Refused, Raise
<1>4. CASE Absent
  <2>1. command = "import" /\ at \in Records /\ AllAreValid /\ pc = "sent" /\ reply.status = "404"
    BY <1>4 DEF Absent, IInv, RequestInv, Current, FileInv
  <2>2. Ask(Request("PUT", at)) /\ at' = at /\ UNCHANGED <<command, file, catalog, initial>>
    BY <1>4 DEF Absent
  <2> QED BY <2>1, <2>2, AskStep
<1>5. CASE Present \/ Written
  <2>1. pc = "sent" /\ reply.status = "ok" /\ req.method \in {"GET", "PUT"}
    BY <1>5 DEF Present, Written
  <2>2. Proceed(at + 1) /\ UNCHANGED <<command, file, catalog, initial>>
    BY <1>5 DEF Present, Written
  <2>3. command = "import" /\ AllAreValid
    BY <2>1 DEF IInv, TypeInv, RequestInv, Current, Request, FileInv
  <2> QED BY <2>1, <2>2, <2>3, ProceedStep
<1>6. CASE Accepted
  <2>1. pc = "sent" /\ AllAreValid
    BY <1>6 DEF Accepted, IInv, FileInv
  <2> QED BY <1>6, <2>1, EndStep DEF Accepted
<1> QED BY <1>1, <1>2, <1>3, <1>4, <1>5, <1>6 DEF Client

-----------------------------------------------------------------------------
(* The network, the catalog and the other writer.                            *)

\* A request is lost, or refused without an effect.
LEMMA LoseStep ==
  ASSUME IInv, NEW m \in wire, Lose(m) \/ Refuse(m)
  PROVE  IInv'
<1>1. /\ wire' = wire \ {m}
      /\ UNCHANGED <<command, file, pc, at, req, attempt, initial, store, jobs, cancelled, edits,
                     overwritten>>
  BY DEF Lose, Refuse, client, catalog
<1>2. \/ reply' = reply
      \/ pc = "sent" /\ reply'.status \in {"busy", "refused"}
  BY DEF Lose, Refuse, Hears, client
<1>3. Records' = Records /\ TypeInv' /\ JobInv' /\ FileInv'
  BY <1>1 DEF IInv, Records, TypeInv, JobInv, FileInv, AllAreValid
<1>4. RequestInv'
  BY <1>1, <1>2, <1>3 DEF IInv, RequestInv, Current, Sent
<1>5. SafeInv'
  BY <1>1, <1>2 DEF IInv, SafeInv, AbsentAtFirst, ExistingIsSafe, CodeOf
<1>6. AloneInv'
  BY <1>1, <1>2, <1>3 DEF IInv, AloneInv, CodeOf, AllAreValid
<1> QED BY <1>3, <1>4, <1>5, <1>6 DEF IInv

\* Another writer never leaves a code without a configuration.
LEMMA EditStep ==
  ASSUME IInv, NEW c \in Code, NEW d \in Doc \ Invalid, Edit(c, d)
  PROVE  IInv'
<1>1. /\ edits' = edits + 1 /\ store' = [store EXCEPT ![c] = d] /\ d # NoDoc /\ d \in Doc
      /\ edits \in Nat
      /\ UNCHANGED <<command, file, pc, at, req, attempt, reply, wire, initial, jobs, cancelled,
                     overwritten>>
  BY CommandAssumption DEF Edit, client, IInv, TypeInv
<1>2. TypeInv' /\ JobInv' /\ FileInv' /\ Records' = Records
  BY <1>1 DEF IInv, TypeInv, JobInv, FileInv, AllAreValid, Records
<1>3. RequestInv'
  BY <1>1, <1>2 DEF IInv, RequestInv, Current, Sent
<1>4. SafeInv'
  <2>1. \A e \in Code : store'[e] = NoDoc => initial[e] = NoDoc
    BY <1>1 DEF IInv, SafeInv, TypeInv
  <2> QED BY <1>1, <2>1 DEF IInv, SafeInv, AbsentAtFirst, ExistingIsSafe, CodeOf
<1>5. AloneInv'
  BY <1>1 DEF AloneInv
<1> QED BY <1>2, <1>3, <1>4, <1>5 DEF IInv

\* The catalog takes a PUT, the current one or one that the client gave up.
LEMMA PutServed ==
  ASSUME IInv, NEW m \in wire, Serve(m), m.req.method = "PUT"
  PROVE  IInv'
<1> DEFINE i == m.req.record  c == CodeOf(i)
<1>1. /\ command = "import" /\ i \in Records /\ i <= at /\ (i = at => req.method = "PUT")
      /\ AbsentAtFirst(i) /\ AllAreValid
  BY DEF IInv, TypeInv, RequestInv, Sent, SafeInv, FileInv, Message, Request
<1>2. c \in Code /\ file[i].doc \in Doc /\ file[i].doc # NoDoc
  BY <1>1, CodesOfRecords DEF IInv
<1>3. /\ wire' = wire \ {m} /\ store' = [store EXCEPT ![c] = file[i].doc]
      /\ overwritten' = overwritten \cup {e \in {c} : store[e] \notin {NoDoc, file[i].doc}}
      /\ UNCHANGED <<command, file, pc, at, req, attempt, initial, jobs, cancelled, edits>>
  BY DEF Serve, Apply
<1>4. \/ reply' = reply
      \/ pc = "sent" /\ m = Message(req, attempt) /\ reply'.status \in {"ok", "busy", "garbled"}
  BY DEF Serve, Hears, Answers
<1>5. TypeInv' /\ JobInv' /\ FileInv' /\ Records' = Records
  BY <1>1, <1>2, <1>3 DEF IInv, TypeInv, JobInv, FileInv, AllAreValid, Records
<1>6. RequestInv'
  BY <1>3, <1>4, <1>5 DEF IInv, RequestInv, Current, Sent
<1>7. SafeInv'
  <2>1. \A e \in Code : store'[e] = NoDoc => initial[e] = NoDoc
    BY <1>2, <1>3 DEF IInv, SafeInv, TypeInv
  <2>2. ExistingIsSafe'
    BY <1>1, <1>3 DEF IInv, SafeInv, ExistingIsSafe, AbsentAtFirst
  <2> QED BY <1>3, <1>4, <2>1, <2>2 DEF IInv, SafeInv, AbsentAtFirst, CodeOf
<1>8. AloneInv'
  <2> SUFFICES ASSUME edits = 0
               PROVE  AloneInv'
    BY <1>3 DEF AloneInv
  <2>1. /\ overwritten = {} /\ store[c] \in {NoDoc, file[i].doc} /\ (i < at => store[c] # NoDoc)
        /\ at \in Nat /\ i \in Nat
    BY <1>1 DEF IInv, AloneInv, TypeInv, Records
  <2>2. overwritten' = {}
    BY <1>3, <2>1
  <2>3. store'[c] = file[i].doc /\ \A e \in Code : e # c => store'[e] = store[e]
    BY <1>2, <1>3 DEF IInv, TypeInv
  <2>4. \A n \in Records : n < at => store'[CodeOf(n)] # NoDoc
    BY <1>2, <2>3, CodesOfRecords DEF IInv, AloneInv
  <2>5. reply'.status = "404" => store'[CodeOf(at)] = NoDoc
    <3>1. ASSUME reply.status = "404" PROVE store'[CodeOf(at)] = NoDoc
      <4>1. i < at
        BY <1>1, <2>1, <3>1 DEF IInv, RequestInv
      <4>2. store' = store
        BY <1>3, <2>1, <4>1 DEF IInv, TypeInv
      <4> QED BY <3>1, <4>2 DEF IInv, AloneInv
    <3> QED BY <1>4, <3>1
  <2>6. reply'.status = "ok" => store'[CodeOf(at)] # NoDoc
    <3>1. CASE reply' = reply
      <4>1. reply.status = "ok" => at \in Records
        BY <1>1 DEF IInv, RequestInv, Current, Nothing
      <4> QED BY <1>1, <1>2, <2>3, <3>1, <4>1, CodesOfRecords DEF IInv, AloneInv
    <3>2. CASE reply' # reply
      <4>1. i = at
        BY <1>1, <1>4, <3>2 DEF IInv, RequestInv, Current, Message
      <4> QED BY <1>2, <2>3, <4>1
    <3> QED BY <3>1, <3>2
  <2>7. ASSUME NEW n \in Records, n <= at, store[CodeOf(n)] \in {NoDoc, file[n].doc}
        PROVE  store'[CodeOf(n)] \in {NoDoc, file[n].doc}
    <3>1. CASE CodeOf(n) # c
      BY <2>3, <2>7, <3>1, CodesOfRecords DEF IInv
    <3>2. CASE CodeOf(n) = c
      <4>1. n < at => store[c] # NoDoc
        BY <2>7, <3>2 DEF IInv, AloneInv
      <4>2. n \in Nat
        BY DEF Records
      <4> QED BY <1>1, <2>1, <2>3, <2>7, <3>2, <4>1, <4>2
    <3> QED BY <3>1, <3>2
  <2>8. pc = "sent" /\ req.method = "PUT" => store'[CodeOf(at)] \in {NoDoc, file[at].doc}
    <3>1. pc = "sent" => at \in Records
      BY <1>1 DEF IInv, RequestInv, Current
    <3> QED BY <2>1, <2>7, <3>1 DEF IInv, AloneInv
  <2>9. \A o \in wire : o.req.method = "PUT" =>
          store'[CodeOf(o.req.record)] \in {NoDoc, file[o.req.record].doc}
    <3>1. \A o \in wire : o.req.record \in Records /\ o.req.record <= at
      BY <1>1 DEF IInv, RequestInv, Sent
    <3> QED BY <2>7, <3>1 DEF IInv, AloneInv
  <2> QED BY <1>1, <1>3, <1>5, <2>2, <2>4, <2>5, <2>6, <2>8, <2>9 DEF AloneInv, CodeOf, AllAreValid
<1> QED BY <1>5, <1>6, <1>7, <1>8 DEF IInv

\* The catalog takes a GET or a POST.
LEMMA OtherServed ==
  ASSUME IInv, NEW m \in wire, Serve(m), m.req.method # "PUT"
  PROVE  IInv'
<1>1. /\ Sent(m) /\ AllAreValid /\ pc # "start" /\ command \in {"request", "cancel", "import"}
      /\ m.req.method \in {"GET", "POST_job", "POST_cancel"}
      /\ m.req.method = "POST_job" => command = "request" /\ m = Message(Request("POST_job", 0), 1)
      /\ m.req.method = "GET" => command = "import" /\ m.req.record \in Records
  BY DEF IInv, RequestInv, FileInv, TypeInv, Sent, Message, Request
<1>2. /\ wire' = wire \ {m} /\ UNCHANGED <<command, file, pc, at, req, attempt, initial, edits>>
      /\ UNCHANGED <<store, overwritten>>
      /\ jobs' = IF m.req.method = "POST_job" THEN jobs + 1 ELSE jobs
  BY <1>1 DEF Serve, Apply
<1>3. TypeInv' /\ FileInv' /\ Records' = Records
  BY <1>1, <1>2 DEF IInv, TypeInv, FileInv, AllAreValid, Records
<1>4. JobInv'
  <2>1. command = "request" => wire' = {}
    BY <1>2 DEF IInv, RequestInv, Sent
  <2>2. jobs \in Nat /\ (command # "request" => jobs' = jobs) /\ (command = "request" => jobs = 0)
    BY <1>1, <1>2 DEF IInv, TypeInv, JobInv
  <2> QED BY <1>1, <1>2, <2>1, <2>2 DEF IInv, JobInv
<1>5. \/ reply' = reply
      \/ /\ pc = "sent" /\ m = Message(req, attempt)
         /\ \E a \in Answers(m.req) : reply' = a
  BY DEF Serve, Hears
<1>6. reply' # reply =>
        /\ pc = "sent" /\ m.req = req
        /\ reply'.status = "404" => /\ req.method = "GET" /\ store[CodeOf(req.record)] = NoDoc
        /\ reply'.status = "ok" /\ req.method = "GET" => store[CodeOf(req.record)] # NoDoc
  BY <1>1, <1>5 DEF Answers, Message
<1>7. RequestInv'
  BY <1>1, <1>2, <1>3, <1>6 DEF IInv, RequestInv, Current, Sent, Request
<1>8. reply' # reply /\ command = "import" =>
        at \in Records /\ req.record = at /\ CodeOf(at) \in Code /\ req.method = "GET"
  <2>1. pc = "sent" /\ command = "import" => at \in Records /\ req.record = at
    BY DEF IInv, RequestInv, Current
  <2> QED BY <1>1, <1>6, <2>1, CodesOfRecords DEF IInv, Sent
<1>9. reply'.status = "404" =>
        AbsentAtFirst(at) /\ (edits = 0 => store[CodeOf(at)] = NoDoc)
  <2>1. CASE reply' = reply
    BY <2>1 DEF IInv, SafeInv, AloneInv
  <2>2. CASE reply' # reply
    <3>1. reply'.status = "404" => command = "import"
      BY <1>1, <1>6, <2>2
    <3> QED BY <1>6, <1>8, <2>2, <3>1 DEF IInv, SafeInv, AbsentAtFirst
  <2> QED BY <2>1, <2>2
<1>10. SafeInv'
  BY <1>2, <1>9 DEF IInv, SafeInv, AbsentAtFirst, ExistingIsSafe, CodeOf
<1>11. AloneInv'
  <2>1. reply'.status = "ok" /\ command = "import" /\ edits = 0 => store[CodeOf(at)] # NoDoc
    BY <1>6, <1>8 DEF IInv, AloneInv
  <2> QED BY <1>2, <1>3, <1>9, <2>1 DEF IInv, AloneInv, CodeOf, AllAreValid
<1> QED BY <1>3, <1>4, <1>7, <1>10, <1>11 DEF IInv

LEMMA StepInv == IInv /\ [Next]_vars => IInv'
<1> SUFFICES ASSUME IInv, [Next]_vars PROVE IInv'
  OBVIOUS
<1>1. CASE Client
  BY <1>1, ClientStep
<1>2. ASSUME NEW m \in wire, Serve(m) \/ Refuse(m) \/ Lose(m) PROVE IInv'
  BY <1>2, PutServed, OtherServed, LoseStep
<1>3. ASSUME NEW c \in Code, NEW d \in Doc \ Invalid, Edit(c, d) PROVE IInv'
  BY <1>3, EditStep
<1>4. CASE UNCHANGED vars
  BY <1>4 DEF IInv, TypeInv, RequestInv, Current, Sent, SafeInv, AbsentAtFirst, ExistingIsSafe,
              CodeOf, JobInv, FileInv, AllAreValid, AloneInv, Records, vars, client, catalog
<1> QED BY <1>1, <1>2, <1>3, <1>4 DEF Next

-----------------------------------------------------------------------------
(* What is done is applied.                                                  *)

LEMMA OneList == ASSUME NEW i, InOne(i) PROVE Cardinality({l \in Lists : i \in result[l]}) = 1
<1>1. PICK l \in Lists : \A k \in Lists : i \in result[k] <=> k = l
  BY DEF InOne
<1>2. {k \in Lists : i \in result[k]} = {l}
  BY <1>1
<1> QED BY <1>2, FS_Singleton

\* Only an import has records.
LEMMA OtherFilesEmpty == ASSUME IInv, command # "import" PROVE Records = {}
  BY DEF IInv, TypeInv, Records

\* The client waits on, gives up, or goes on to the PUT.
LEMMA SilentStep ==
  ASSUME IInv, AppliedInv, pc # "done", pc' # "done", reply' = Nothing,
         at' = at \/ (at = 0 /\ at' = 1), UNCHANGED <<command, file, result, catalog>>
  PROVE  AppliedInv'
<1>1. /\ reply'.status = "none" /\ Records' = Records
      /\ UNCHANGED <<store, jobs, cancelled, edits, result>>
  BY DEF Nothing, Records, catalog
<1>2. \A i \in Records : i \in Nat /\ i # 0
  BY DEF Records, IInv, TypeInv
<1>3. \A i \in Records : Over(i)' = Over(i)
  BY <1>2 DEF Over, IInv, TypeInv
<1> QED BY <1>1, <1>3 DEF AppliedInv, InOne, InNone, Right, CodeOf

\* The end of a command without records.
LEMMA BareEnd ==
  ASSUME IInv, AppliedInv, Records = {}, reply' = Nothing, pc' = "done" \/ pc' = "raised",
         pc' = "done" =>
           (command = "cancel" => cancelled) /\ (command = "request" => jobs = 1),
         UNCHANGED <<command, file, result, catalog>>
  PROVE  AppliedInv'
  BY DEF Nothing, Records, catalog, AppliedInv

\* A record goes to a list, and the import goes on.
LEMMA AdvanceStep ==
  ASSUME IInv, AppliedInv, pc = "sent", command = "import", reply.status = "ok", NEW l \in Lists,
         result' = [result EXCEPT ![l] = @ \cup {at}], Proceed(at + 1),
         edits = 0 => (l = "differences" <=> store[CodeOf(at)] # file[at].doc),
         UNCHANGED <<command, file, catalog>>
  PROVE  AppliedInv'
<1>1. at \in Records /\ at \in Nat /\ Len(file) \in Nat
  BY DEF IInv, TypeInv, RequestInv, Current
<1>2. /\ reply'.status = "none" /\ Records' = Records
      /\ UNCHANGED <<store, jobs, cancelled, edits>>
      /\ \/ at' = at + 1 /\ pc' = "sent"
         \/ at = Len(file) /\ pc' = "done" /\ at' = at
  BY <1>1 DEF Proceed, Ask, Nothing, Records, catalog
<1>3. \A i \in Records : i \in Nat /\ i <= Len(file)
  BY <1>1 DEF Records
<1>4. \A i \in Records : Over(i)' <=> Over(i) \/ i = at
  BY <1>1, <1>2, <1>3 DEF Over
<1>5. ~ Over(at)
  BY <1>1 DEF Over
<1>6. result' \in [Lists -> SUBSET Nat]
  BY <1>1 DEF AppliedInv
<1>7. /\ \A k \in Lists, i \in Records : i # at => (i \in result'[k] <=> i \in result[k])
      /\ \A k \in Lists : at \in result'[k] <=> k = l
  BY <1>1, <1>5 DEF AppliedInv, InNone
<1>8. \A i \in Records : IF Over(i)' THEN InOne(i)' ELSE InNone(i)'
  BY <1>4, <1>7 DEF AppliedInv, InOne, InNone
<1>9. edits = 0 => \A i \in Records : Over(i)' => Right(i)'
  <2>1. "differences" \in Lists
    BY DEF Lists
  <2>2. edits = 0 => store[CodeOf(at)] # NoDoc
    BY DEF IInv, AloneInv
  <2> QED BY <1>2, <1>4, <1>7, <2>1, <2>2 DEF AppliedInv, Right, CodeOf
<1> QED BY <1>2, <1>6, <1>8, <1>9 DEF AppliedInv

LEMMA AppliedClient == ASSUME IInv, AppliedInv, Client PROVE AppliedInv'
<1>1. UNCHANGED <<command, file, catalog>> /\ at \in Nat /\ Len(file) \in Nat
  BY DEF Client, Start, TimeOut, Busy, Refused, Absent, Present, Written, Accepted, IInv, TypeInv
<1>2. CASE Start
  <2>1. at = 0 /\ pc = "start" /\ reply = Nothing /\ result' = result
    BY <1>2 DEF Start, IInv, RequestInv
  <2>2. CASE command = "import" /\ AllAreValid
    <3>1. Proceed(1)
      BY <1>2, <2>2 DEF Start
    <3>2. CASE 1 <= Len(file)
      <4>1. at' = 1 /\ pc' = "sent" /\ reply' = Nothing
        BY <3>1, <3>2 DEF Proceed, Ask
      <4> QED BY <1>1, <2>1, <4>1, SilentStep
    <3>3. CASE ~ (1 <= Len(file))
      <4>1. Records = {} /\ pc' = "done" /\ reply' = Nothing
        BY <1>1, <3>1, <3>3 DEF Proceed, Records
      <4> QED BY <1>1, <2>1, <2>2, <4>1, BareEnd
    <3> QED BY <3>2, <3>3
  <2>3. CASE ~ (command = "import" /\ AllAreValid)
    <3>1. pc' # "done" /\ reply' = Nothing /\ at' = at
      BY <1>2, <2>1, <2>3 DEF Start, Ask
    <3> QED BY <1>1, <2>1, <3>1, SilentStep
  <2> QED BY <2>2, <2>3
<1>3. CASE TimeOut \/ Busy \/ Refused \/ Absent
  <2>1. pc = "sent" /\ pc' # "done" /\ reply' = Nothing /\ at' = at /\ result' = result
    BY <1>3 DEF TimeOut, Busy, Refused, Absent, Retry, Raise, Ask
  <2> QED BY <1>1, <2>1, SilentStep
<1>4. CASE Present \/ Written
  <2>1. /\ pc = "sent" /\ reply.status = "ok" /\ req.method \in {"GET", "PUT"} /\ Proceed(at + 1)
    BY <1>4 DEF Present, Written
  <2>2. command = "import"
    BY <2>1 DEF IInv, TypeInv, RequestInv, Current, Request
  <2>3. CASE Present
    <3>1. req.method = "GET" /\ result' = [result EXCEPT ![Compared(reply.doc, at)] = @ \cup {at}]
      BY <2>3 DEF Present
    <3>2. /\ Compared(reply.doc, at) \in Lists
          /\ edits = 0 => (Compared(reply.doc, at) = "differences" <=> store[CodeOf(at)] # file[at].doc)
      BY <2>1, <2>2, <3>1 DEF AppliedInv, Compared, Lists
    <3> QED BY <1>1, <2>1, <2>2, <3>1, <3>2, AdvanceStep
  <2>4. CASE Written
    <3>1. req.method = "PUT" /\ result' = [result EXCEPT !["imported"] = @ \cup {at}]
      BY <2>4 DEF Written
    <3>2. edits = 0 => store[CodeOf(at)] = file[at].doc
      BY <2>1, <2>2, <3>1 DEF IInv, AloneInv
    <3>3. "imported" \in Lists
      BY DEF Lists
    <3> QED BY <1>1, <2>1, <2>2, <3>1, <3>2, <3>3, AdvanceStep
  <2> QED BY <1>4, <2>3, <2>4
<1>5. CASE Accepted
  <2>1. /\ pc' = "done" /\ reply' = Nothing /\ result' = result
        /\ (command = "cancel" => cancelled) /\ (command = "request" => jobs = 1)
    BY <1>5 DEF Accepted, AppliedInv
  <2>2. command # "import"
    BY <1>5 DEF Accepted, IInv, RequestInv, Current
  <2> QED BY <1>1, <2>1, <2>2, OtherFilesEmpty, BareEnd
<1> QED BY <1>2, <1>3, <1>4, <1>5 DEF Client

\* Alone, a PUT that is served late changes no record that the import is past.
LEMMA SettledStays ==
  ASSUME IInv, AppliedInv, NEW m \in wire, Serve(m), edits = 0, NEW c \in Code, store[c] # NoDoc
  PROVE  store'[c] = store[c]
<1>1. CASE m.req.method = "PUT"
  <2> DEFINE j == m.req.record
  <2>1. command = "import" /\ j \in Records
    BY <1>1 DEF IInv, TypeInv, RequestInv, Sent, Message, Request
  <2>2. CodeOf(j) \in Code /\ store[CodeOf(j)] \in {NoDoc, file[j].doc}
    BY <1>1, <2>1, CodesOfRecords DEF IInv, AloneInv
  <2>3. store' = [store EXCEPT ![CodeOf(j)] = file[j].doc]
    BY <1>1 DEF Serve, Apply
  <2> QED BY <2>2, <2>3 DEF IInv, TypeInv
<1>2. CASE m.req.method # "PUT"
  <2>1. m.req.method \in {"GET", "POST_job", "POST_cancel"}
    BY <1>2 DEF IInv, TypeInv, RequestInv, Sent, Message, Request
  <2> QED BY <1>2, <2>1 DEF Serve, Apply
<1> QED BY <1>1, <1>2

LEMMA AppliedServe == ASSUME IInv, AppliedInv, NEW m \in wire, Serve(m) PROVE AppliedInv'
<1>1. UNCHANGED <<command, file, pc, at, req, attempt, result, edits, Records>>
  BY DEF Serve, Records
<1>2. \/ reply' = reply
      \/ pc = "sent" /\ m.req = req /\ \E a \in Answers(m.req) : reply' = a
  BY DEF Serve, Hears, Message
<1>3. Sent(m) /\ command \in {"request", "cancel", "import"}
  BY DEF IInv, TypeInv, RequestInv
<1>4. \A i \in Records : CodeOf(i) \in Code /\ CodeOf(i)' = CodeOf(i) /\ Over(i)' = Over(i)
  BY <1>1, CodesOfRecords DEF IInv, CodeOf, Over
<1>5. command = "cancel" => cancelled'
  BY <1>3 DEF Sent, Serve, Apply
<1>6. command = "request" => jobs' = 1
  <2>1. command = "request" => jobs = 0 /\ m.req.method = "POST_job"
    BY <1>3 DEF Sent, IInv, JobInv, Message, Request
  <2>2. command = "request" => jobs' = jobs + 1
    BY <2>1 DEF Serve, Apply
  <2> QED BY <2>1, <2>2
<1>7. \A i \in Records : IF Over(i)' THEN InOne(i)' ELSE InNone(i)'
  BY <1>1, <1>4 DEF AppliedInv, InOne, InNone
<1>8. edits = 0 => \A i \in Records : Over(i)' => Right(i)'
  BY <1>1, <1>4, SettledStays DEF AppliedInv, Right
<1>9. edits = 0 /\ reply'.status = "ok" /\ command = "import" /\ req.method = "GET" =>
        reply'.doc = store'[CodeOf(at)]
  <2> SUFFICES ASSUME edits = 0, reply'.status = "ok", command = "import", req.method = "GET"
               PROVE  reply'.doc = store'[CodeOf(at)]
    OBVIOUS
  <2>1. pc = "sent"
    BY <1>2 DEF IInv, RequestInv, Nothing
  <2>2. req.record = at /\ at \in Records
    BY <2>1 DEF IInv, RequestInv, Current
  <2>3. CASE reply' = reply
    <3>1. store[CodeOf(at)] # NoDoc /\ reply.doc = store[CodeOf(at)]
      BY <2>3 DEF IInv, AloneInv, AppliedInv
    <3> QED BY <1>4, <2>2, <2>3, <3>1, SettledStays
  <2>4. CASE reply' # reply
    <3>1. m.req = req /\ \E a \in Answers(req) : reply' = a
      BY <1>2, <2>4
    <3>2. reply'.doc = store[CodeOf(at)]
      BY <2>2, <3>1 DEF Answers
    <3>3. store' = store
      BY <3>1 DEF Serve, Apply
    <3> QED BY <3>2, <3>3
  <2> QED BY <2>3, <2>4
<1> QED
  <2>1. CodeOf(at)' = CodeOf(at)
    BY <1>1 DEF CodeOf
  <2> QED BY <1>1, <1>5, <1>6, <1>7, <1>8, <1>9, <2>1 DEF AppliedInv

LEMMA AppliedStep == IInv /\ AppliedInv /\ [Next]_vars => AppliedInv'
<1> SUFFICES ASSUME IInv, AppliedInv, [Next]_vars PROVE AppliedInv'
  OBVIOUS
<1>1. ASSUME NEW m \in wire, Lose(m) \/ Refuse(m) PROVE AppliedInv'
  <2>1. /\ UNCHANGED <<command, file, pc, at, req, result, catalog, Records>>
        /\ reply' = reply \/ reply'.status \in {"busy", "refused"}
    BY <1>1 DEF Lose, Refuse, Hears, client, Records
  <2> QED BY <2>1 DEF AppliedInv, Over, InOne, InNone, Right, CodeOf, catalog
<1>2. ASSUME NEW c \in Code, NEW d \in Doc \ Invalid, Edit(c, d) PROVE AppliedInv'
  <2>1. edits' # 0 /\ UNCHANGED <<client, jobs, cancelled, Records>>
    BY <1>2 DEF Edit, IInv, TypeInv, client, Records
  <2> QED BY <2>1 DEF AppliedInv, Over, InOne, InNone, client
<1>3. CASE UNCHANGED vars
  BY <1>3 DEF AppliedInv, Over, InOne, InNone, Right, CodeOf, Records, vars, client, catalog
<1> QED BY <1>1, <1>2, <1>3, AppliedClient, AppliedServe DEF Next

-----------------------------------------------------------------------------
\* Every reachable state of a command satisfies the strengthened invariant.
THEOREM CommandInvariant == Spec => []IInv
  BY InitInv, StepInv, PTL DEF Spec

\* A provider configured when the import began is never overwritten by it.
THEOREM ExistingSafe == Spec => []ExistingIsSafe
<1>1. IInv => ExistingIsSafe
  BY DEF IInv, SafeInv
<1> QED BY <1>1, CommandInvariant, PTL

\* Alone, an import overwrites nothing, its own late and repeated PUTs included.
THEOREM AloneSafe == Spec => []AloneOverwritesNothing
<1>1. IInv => AloneOverwritesNothing
  BY DEF IInv, AloneInv, AloneOverwritesNothing
<1> QED BY <1>1, CommandInvariant, PTL

\* A request command queues at most one job.
THEOREM OneJob == Spec => []JobOnce
<1>1. IInv => JobOnce
  BY DEF IInv, JobInv, JobOnce
<1> QED BY <1>1, CommandInvariant, PTL

\* A file with an invalid record writes nothing.
THEOREM InvalidWritesNothing == Spec => []InvalidFileWritesNothing
<1>1. IInv => InvalidFileWritesNothing
  BY DEF IInv, AloneInv, AllAreValid, InvalidFileWritesNothing
<1> QED BY <1>1, CommandInvariant, PTL

\* A command that ends well has had its effect: the job is cancelled, one job is
\* queued, and every record of an import is in one list, the right one if nobody
\* else writes, although answers were lost and PUTs were repeated or came late.
THEOREM DoneIsApplied == Spec => []DoneMeansApplied
<1>1. Init => AppliedInv
  <2> SUFFICES ASSUME Init PROVE AppliedInv
    OBVIOUS
  <2>1. /\ reply.status = "none" /\ pc = "start" /\ at = 0
        /\ result = [l \in Lists |-> {}] /\ \A i \in Records : i \in Nat /\ i # 0
    BY InitInv DEF Init, Nothing, Records, IInv, TypeInv
  <2> QED BY <2>1 DEF AppliedInv, Over, InNone
<1>2. IInv /\ AppliedInv => DoneMeansApplied
  <2>1. IInv /\ AppliedInv /\ pc = "done" => \A i \in Records : Over(i) /\ InOne(i)
    BY DEF AppliedInv, Over
  <2> QED BY <2>1, OneList DEF AppliedInv, DoneMeansApplied, Records, Over, Right
<1> QED BY <1>1, <1>2, CommandInvariant, AppliedStep, PTL DEF Spec
====
