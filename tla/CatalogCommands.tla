---- MODULE CatalogCommands ----
(* cli.dispatch over CatalogClient.request: the commands that change the     *)
(* catalog (request, cancel, import-providers), each HTTP request tried up   *)
(* to three times or once, while answers are lost, requests arrive late and  *)
(* another writer edits providers.  The catalog is external: a GET of a      *)
(* provider answers 404 if there is none, a PUT creates or replaces it, a    *)
(* POST of a harvest queues one more job.                                    *)
EXTENDS Integers, Sequences, FiniteSets

CONSTANTS
  Code, Doc,   \* provider codes and the configurations they may have
  Files,       \* sequences of [code, doc]: the files to import
  Invalid,     \* configurations that break the provider contract
  NoDoc,
  Attempts,    \* 3
  MaxEdits     \* bound on the other writer, for TLC only

ASSUME CommandAssumption ==
  /\ Invalid \subseteq Doc /\ NoDoc \notin Doc
  /\ Files \subseteq Seq([code : Code, doc : Doc])
  /\ Attempts \in Nat \ {0} /\ MaxEdits \in Nat

VARIABLES
  command, file,
  pc, at,            \* at: the record the import has reached
  req, attempt,      \* the request under way and its attempt
  reply,             \* its answer, while it is on the wire
  wire,              \* requests the catalog has not served, late ones included
  result,            \* imported, unchanged, differences: records by position
  store, jobs, cancelled,          \* the catalog
  initial,           \* history: the store before the command
  edits, overwritten \* history: the other writer's edits; codes whose
                     \* configuration a PUT of the import replaced by another

client  == <<command, file, pc, at, req, attempt, reply, result>>
catalog == <<store, jobs, cancelled, edits, overwritten>>
vars    == <<client, wire, catalog, initial>>

Lists   == {"imported", "unchanged", "differences"}
Nothing == [status |-> "none"]
Request(method, i) == [method |-> method, record |-> i]
CodeOf(i) == file[i].code
EveryPostTries(method) == Attempts
Tries(method)          == IF method = "POST_job" THEN 1 ELSE Attempts

Init ==
  /\ command \in {"request", "cancel", "import"}
  /\ file \in IF command = "import" THEN Files ELSE {<<>>}
  /\ pc = "start" /\ at = 0 /\ req = Request("none", 0) /\ attempt = 0
  /\ reply = Nothing /\ wire = {}
  /\ result = [l \in Lists |-> {}]
  /\ store \in [Code -> (Doc \ Invalid) \cup {NoDoc}]
  /\ jobs = 0 /\ cancelled = FALSE
  /\ initial = store /\ edits = 0 /\ overwritten = {}

Message(r, n) == [req |-> r, attempt |-> n]
Ask(r) ==
  /\ req' = r /\ attempt' = 1 /\ reply' = Nothing
  /\ wire' = wire \cup {Message(r, 1)}
  /\ pc' = "sent"

\* The next record, or the end of the command.
Proceed(i) ==
  IF i <= Len(file) THEN at' = i /\ Ask(Request("GET", i))
  ELSE pc' = "done" /\ reply' = Nothing /\ UNCHANGED <<at, req, attempt, wire>>

\* Every record is validated before the first request.
AllAreValid  == \A i \in 1..Len(file) : file[i].doc \notin Invalid

Start ==
  /\ pc = "start"
  /\ CASE command = "request" -> Ask(Request("POST_job", 0)) /\ UNCHANGED at
       [] command = "cancel"  -> Ask(Request("POST_cancel", 0)) /\ UNCHANGED at
       [] command = "import" /\ AllAreValid -> Proceed(1)
       [] OTHER -> pc' = "raised" /\ UNCHANGED <<at, req, attempt, reply, wire>>
  /\ UNCHANGED <<command, file, result, catalog, initial>>

-----------------------------------------------------------------------------
(* The catalog                                                               *)

Apply(r) ==
  CASE r.method = "PUT" ->
         /\ store' = [store EXCEPT ![CodeOf(r.record)] = file[r.record].doc]
         /\ overwritten' = overwritten \cup
              {c \in {CodeOf(r.record)} : store[c] \notin {NoDoc, file[r.record].doc}}
         /\ UNCHANGED <<jobs, cancelled>>
    [] r.method = "POST_job"    -> jobs' = jobs + 1 /\ UNCHANGED <<store, cancelled, overwritten>>
    [] r.method = "POST_cancel" -> cancelled' = TRUE /\ UNCHANGED <<store, jobs, overwritten>>
    [] r.method = "GET"         -> UNCHANGED <<store, jobs, cancelled, overwritten>>

Answers(r) ==
  IF r.method # "GET" THEN {[status |-> s] : s \in {"ok", "busy", "garbled"}}
  ELSE IF store[CodeOf(r.record)] = NoDoc THEN {[status |-> "404"]}
  ELSE {[status |-> "ok", doc |-> store[CodeOf(r.record)]]}

\* An answer may be lost behind a proxy's error, or be no JSON, after the effect.
\* Only the attempt the client waits for gets its answer.
Hears(m, a) ==
  IF pc = "sent" /\ m = Message(req, attempt) THEN reply' = a ELSE UNCHANGED reply

Serve(m) ==
  /\ m \in wire /\ wire' = wire \ {m}
  /\ Apply(m.req)
  /\ \E a \in Answers(m.req) : Hears(m, a)
  /\ UNCHANGED <<command, file, pc, at, req, attempt, result, edits, initial>>

\* 5xx or 429 from the catalog or a proxy before it, and any other refusal.
Refuse(m) ==
  /\ m \in wire /\ wire' = wire \ {m}
  /\ \E s \in {"busy", "refused"} : Hears(m, [status |-> s])
  /\ UNCHANGED <<command, file, pc, at, req, attempt, result, catalog, initial>>

Lose(m) ==
  /\ m \in wire /\ wire' = wire \ {m}
  /\ UNCHANGED <<client, catalog, initial>>

Edit(c, d) ==
  /\ edits < MaxEdits /\ edits' = edits + 1
  /\ store' = [store EXCEPT ![c] = d]
  /\ UNCHANGED <<client, wire, jobs, cancelled, overwritten, initial>>

-----------------------------------------------------------------------------
(* CatalogClient.request                                                     *)

Raise == pc' = "raised" /\ reply' = Nothing /\ UNCHANGED <<at, req, attempt, wire, result>>
Retry ==
  IF attempt = Tries(req.method) THEN Raise
  ELSE /\ attempt' = attempt + 1 /\ reply' = Nothing
       /\ wire' = wire \cup {Message(req, attempt + 1)}
       /\ UNCHANGED <<pc, at, req, result>>

\* The session's timeout passes, or the connection breaks, answered or not.
TimeOut ==
  /\ pc = "sent" /\ Retry
  /\ UNCHANGED <<command, file, catalog, initial>>

Busy ==
  /\ pc = "sent" /\ reply.status = "busy" /\ Retry
  /\ UNCHANGED <<command, file, catalog, initial>>

\* Any other error status, and a body that cannot be decoded, is not retried.
Refused ==
  /\ pc = "sent" /\ reply.status \in {"refused", "garbled"} /\ Raise
  /\ UNCHANGED <<command, file, catalog, initial>>

\* A GET that finds nothing is followed by the PUT.
AbsentOnError ==
  /\ pc = "sent" /\ reply.status \in {"404", "busy"} /\ req.method = "GET"
  /\ Ask(Request("PUT", at)) /\ UNCHANGED at
  /\ UNCHANGED <<command, file, result, catalog, initial>>
Absent ==
  /\ pc = "sent" /\ reply.status = "404"
  /\ Ask(Request("PUT", at)) /\ UNCHANGED at
  /\ UNCHANGED <<command, file, result, catalog, initial>>

NeverDiffers(doc, i) == "unchanged"
Compared(doc, i)     == IF doc = file[i].doc THEN "unchanged" ELSE "differences"
Present ==
  /\ pc = "sent" /\ req.method = "GET" /\ reply.status = "ok"
  /\ result' = [result EXCEPT ![Compared(reply.doc, at)] = @ \cup {at}]
  /\ Proceed(at + 1)
  /\ UNCHANGED <<command, file, catalog, initial>>

Written ==
  /\ pc = "sent" /\ req.method = "PUT" /\ reply.status = "ok"
  /\ result' = [result EXCEPT !["imported"] = @ \cup {at}]
  /\ Proceed(at + 1)
  /\ UNCHANGED <<command, file, catalog, initial>>

Accepted ==
  /\ pc = "sent" /\ req.method \in {"POST_job", "POST_cancel"} /\ reply.status = "ok"
  /\ pc' = "done" /\ reply' = Nothing
  /\ UNCHANGED <<command, file, at, req, attempt, wire, result, catalog, initial>>

Client == Start \/ TimeOut \/ Busy \/ Refused \/ Absent \/ Present \/ Written \/ Accepted
Next ==
  \/ Client
  \/ \E m \in wire : Serve(m) \/ Refuse(m) \/ Lose(m)
  \/ \E c \in Code, d \in Doc \ Invalid : Edit(c, d)

Spec == Init /\ [][Next]_vars

-----------------------------------------------------------------------------
\* A provider that had a configuration when the import began keeps one the import
\* did not write, whatever is lost, repeated, late or edited meanwhile.
ExistingIsSafe == \A c \in overwritten : initial[c] = NoDoc

\* Without another writer the import overwrites nothing: its own repeated, late and
\* duplicate records included.
AloneOverwritesNothing == edits = 0 => overwritten = {}

\* The README's promise: the import never overwrites existing configuration.
NeverOverwrites == overwritten = {}

\* A command that ends well has had its effect: each record is in one list and the
\* list is right, the job is cancelled, one job is queued.
DoneMeansApplied ==
  pc = "done" =>
    /\ command = "cancel" => cancelled
    /\ command = "request" => jobs = 1
    /\ \A i \in 1..Len(file) : Cardinality({l \in Lists : i \in result[l]}) = 1
    /\ edits = 0 => \A i \in 1..Len(file) :
         i \in result["differences"] <=> store[CodeOf(i)] # file[i].doc

\* A request command queues one job at most: its POST is not repeated.
JobOnce == jobs <= 1

\* A file with one invalid record changes nothing.
InvalidFileWritesNothing ==
  edits = 0 /\ (\E i \in 1..Len(file) : file[i].doc \in Invalid) => store = initial
====
