---- MODULE Resolution ----
(* What becomes of one dataset's requests: RequestManager.request and        *)
(* get_json turn answers into a payload, None or an exception, the adapter   *)
(* turns None into an exception of its own, and the runner retries some of   *)
(* them.  The waits in between are RequestManager's and Runner's, Kolada's   *)
(* cached catalogues KoladaClient's: here are its probes.                    *)
EXTENDS Integers, Sequences, FiniteSets

CONSTANTS
  Plans,        \* adapter -> its requests in order: "get" is get_json, "post" the sample
  Tries,        \* 3: attempts of _make_request
  Rounds        \* len(retry_delays) + 1

ResolutionAssumption ==
  /\ Tries \in Nat \ {0} /\ Rounds \in Nat \ {0}
  /\ \A a \in DOMAIN Plans : Plans[a] \in Seq({"get", "post"}) /\ Plans[a] # <<>>

\* usable: the adapter builds documents from it; unusable: it cannot; nojson: a body
\* that is no JSON; cut: the body breaks off; then the statuses but 429; broken: none.
Answer == {"usable", "unusable", "nojson", "cut", "client", "server", "broken"}

VARIABLES
  adapter, pc,
  round,        \* the runner's attempt
  step,         \* position in the plan
  try,          \* _make_request's attempt
  log,          \* history: the answers of this round
  payloads      \* history: the round each payload in hand is from

vars == <<adapter, pc, round, step, try, log, payloads>>
plan == Plans[adapter]

Init ==
  /\ adapter \in DOMAIN Plans /\ pc = "sent"
  /\ round = 1 /\ step = 1 /\ try = 1 /\ log = <<>> /\ payloads = <<>>

\* get_json makes None of everything that is no JSON object or list, and every
\* adapter a ValueError of None.  The sample's request keeps the status: without an
\* answer, or with a server's error, it raises ExternalAPIError.
Transient(method, answer) == method = "post" /\ answer \in {"server", "broken", "cut"}

NeverAgain(r) == pc' = "failed"
TryAgain(r)   == pc' = IF r < Rounds THEN "backoff" ELSE "failed"

Usable ==
  /\ pc = "sent"
  /\ log' = Append(log, "usable") /\ payloads' = Append(payloads, round)
  /\ IF step = Len(plan) THEN pc' = "saved" /\ UNCHANGED <<step, try>>
     ELSE step' = step + 1 /\ try' = 1 /\ UNCHANGED pc
  /\ UNCHANGED <<adapter, round>>

Unusable(answer) ==
  /\ pc = "sent"
  /\ log' = Append(log, answer)
  /\ IF Transient(plan[step], answer) THEN TryAgain(round) ELSE pc' = "failed"
  /\ UNCHANGED <<adapter, round, step, try, payloads>>

\* 429, whatever its Retry-After: RequestManager waits and tries again.
TooMany ==
  /\ pc = "sent"
  /\ log' = Append(log, "429")
  /\ IF try < Tries THEN try' = try + 1 /\ UNCHANGED pc
     ELSE TryAgain(round) /\ UNCHANGED try
  /\ UNCHANGED <<adapter, round, step, payloads>>

\* resolve_dataset starts from the beginning.
ResumeUncounted ==
  /\ pc = "backoff" /\ pc' = "sent"
  /\ step' = 1 /\ try' = 1 /\ log' = <<>> /\ payloads' = <<>>
  /\ UNCHANGED <<adapter, round>>
ResumeWhereItFailed ==
  /\ pc = "backoff" /\ pc' = "sent"
  /\ round' = round + 1 /\ try' = 1 /\ log' = <<>>
  /\ UNCHANGED <<adapter, step, payloads>>
Resume ==
  /\ pc = "backoff" /\ pc' = "sent"
  /\ round' = round + 1 /\ step' = 1 /\ try' = 1 /\ log' = <<>> /\ payloads' = <<>>
  /\ UNCHANGED adapter

Next ==
  \/ Usable \/ TooMany \/ Resume
  \/ \E answer \in Answer \ {"usable"} : Unusable(answer)
Spec == Init /\ [][Next]_vars

-----------------------------------------------------------------------------
Limited(s) == {i \in 1..Len(s) : s[i] = "429"}

\* A saved dataset is made of the payloads of one round, one for each request of the
\* adapter, and of no answer but these and 429s.
SavedFromOneRound ==
  pc = "saved" =>
    /\ payloads = [i \in 1..Len(plan) |-> round]
    /\ Len(log) = Len(plan) + Cardinality(Limited(log))

\* Rate limiting alone fails a dataset only in the last round and after three 429s
\* running; in an earlier round a dataset fails only for what the provider answered
\* to a GET, or for what it said of the sample itself.
EarlyFailureIsFinal ==
  pc = "failed" =>
    IF log[Len(log)] = "429"
    THEN round = Rounds /\ \A k \in 0..(Tries - 1) : log[Len(log) - k] = "429"
    ELSE round = Rounds \/ plan[step] = "get" \/ log[Len(log)] \in {"unusable", "nojson", "client"}
====
