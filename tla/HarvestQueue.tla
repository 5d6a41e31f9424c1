---- MODULE HarvestQueue ----
(* What the catalog and its workers promise together, whatever the leases,   *)
(* heartbeats and lost messages behind it: one job executes at a time, a job *)
(* is settled only when nobody executes it, and a checkpoint stands only for *)
(* an execution that listed and fetched everything.  HarvestWorker           *)
(* implements this specification.                                            *)
CONSTANTS Worker, Job, NoJob

VARIABLES status,       \* of each job, as the catalog shows it
          executing,    \* the job each worker is executing
          result,       \* how the execution of each job ended
          checkpoints   \* the jobs that established a checkpoint

vars == <<status, executing, result, checkpoints>>

Terminal == {"succeeded", "failed", "cancelled"}
Ended    == {"raised", "partial", "complete"}

TypeOK ==
  /\ status \in [Job -> {"queued", "running"} \cup Terminal]
  /\ executing \in [Worker -> Job \cup {NoJob}]
  /\ result \in [Job -> {"none"} \cup Ended]
  /\ checkpoints \subseteq Job

Init ==
  /\ status = [j \in Job |-> "queued"]
  /\ executing = [w \in Worker |-> NoJob]
  /\ result = [j \in Job |-> "none"]
  /\ checkpoints = {}

Executed(j) == \E w \in Worker : executing[w] = j

\* The queue hands out one job at a time.
Claim(j) ==
  /\ status[j] = "queued"
  /\ \A i \in Job : status[i] # "running"
  /\ status' = [status EXCEPT ![j] = "running"]
  /\ UNCHANGED <<executing, result, checkpoints>>

Execute(w, j) ==
  /\ status[j] = "running"
  /\ \A v \in Worker : executing[v] = NoJob
  /\ executing' = [executing EXCEPT ![w] = j]
  /\ UNCHANGED <<status, result, checkpoints>>

Finish(w, r) ==
  /\ executing[w] # NoJob
  /\ result[executing[w]] = "none"
  /\ result' = [result EXCEPT ![executing[w]] = r]
  /\ UNCHANGED <<status, executing, checkpoints>>

Stop(w) ==
  /\ executing[w] # NoJob
  /\ executing' = [executing EXCEPT ![w] = NoJob]
  /\ UNCHANGED <<status, result, checkpoints>>

Settle(j, s) ==
  /\ status[j] = "running"
  /\ ~ Executed(j)
  /\ s = "succeeded" => result[j] \in {"partial", "complete"}
  /\ status' = [status EXCEPT ![j] = s]
  /\ \/ UNCHANGED checkpoints
     \/ /\ s = "succeeded" /\ result[j] = "complete"
        /\ checkpoints' = checkpoints \cup {j}
  /\ UNCHANGED <<executing, result>>

Withdraw(j) ==
  /\ status[j] = "queued"
  /\ status' = [status EXCEPT ![j] = "cancelled"]
  /\ UNCHANGED <<executing, result, checkpoints>>

Next ==
  \/ \E j \in Job : Claim(j) \/ Withdraw(j) \/ \E s \in Terminal : Settle(j, s)
  \/ \E w \in Worker :
       \/ \E j \in Job : Execute(w, j)
       \/ \E r \in Ended : Finish(w, r)
       \/ Stop(w)

Spec == Init /\ [][Next]_vars
====
