---- MODULE RequestManager ----
(* RequestManager._make_request and RateLimiter for one host: every request  *)
(* waits out the host's cooldown, takes a permit, spaces its start from the  *)
(* last one under the limiter's lock, and is sent; a 429 cools the host down *)
(* and slows it, and the request tries again.  Hosts share nothing.          *)
(*                                                                           *)
(* A definition right above the one it varies is a mutant: what the code     *)
(* could wrongly do.  No action uses it.                                     *)
EXTENDS Integers, FiniteSets

CONSTANTS
  Request,
  BaseInterval,    \* base_interval: the input's rate_limit
  Increase,        \* retry_429_interval_increase_seconds
  MaxConcurrency,
  Cooldowns,       \* values _compute_cooldown_seconds can return
  Attempts,        \* 3
  Horizon          \* bound on the clock, for TLC only

ASSUME ManagerAssumption ==
  /\ BaseInterval \in Nat /\ Increase \in Nat /\ Horizon \in Nat
  /\ MaxConcurrency \in Nat \ {0} /\ Attempts \in Nat \ {0}
  /\ Cooldowns \subseteq Nat
  /\ IsFiniteSet(Request)

VARIABLES
  now,
  cooldownUntil, slowdown,   \* of the host
  lastStart,                 \* limiter.last_request_time
  permits,                   \* free permits of limiter.semaphore
  pc,
  attempt, interval,         \* the locals attempt and interval_override
  until,                     \* when the sleep of the request ends
  longest,                   \* history: the latest end any cooldown had
  stale                      \* history: a 429 came after the request's check

host  == <<cooldownUntil, slowdown, longest>>
vars == <<now, host, lastStart, permits, pc, attempt, interval, until, stale>>

Ended   == {"answered", "failed", "raised", "cancelled"}
Waiting == {"cooling", "queued", "locking", "spacing"}
Holders == {r \in Request : pc[r] \in {"locking", "spacing", "sent"}}

TypeOK ==
  /\ now \in Int /\ lastStart \in Int
  /\ cooldownUntil \in Int /\ longest \in Int /\ slowdown \in Nat
  /\ permits \in Int
  /\ pc \in [Request -> {"idle", "sent"} \cup Waiting \cup Ended]
  /\ attempt \in [Request -> Nat]
  /\ interval \in [Request -> Int] /\ until \in [Request -> Int]
  /\ stale \in [Request -> BOOLEAN]

\* A new limiter lets the first request start at once.
Init ==
  /\ now = 0 /\ cooldownUntil = 0 /\ longest = 0 /\ slowdown = 0
  /\ lastStart = - BaseInterval
  /\ permits = MaxConcurrency
  /\ pc = [r \in Request |-> "idle"]
  /\ attempt = [r \in Request |-> 0]
  /\ interval = [r \in Request |-> 0]
  /\ until = [r \in Request |-> 0]
  /\ stale = [r \in Request |-> FALSE]

\* _wait_for_host_cooldown: the end is read once, before the sleep.
Begin(r) ==
  /\ pc[r] = "idle"
  /\ pc' = [pc EXCEPT ![r] = "cooling"]
  /\ until' = [until EXCEPT ![r] = cooldownUntil]
  /\ attempt' = [attempt EXCEPT ![r] = 1]
  /\ UNCHANGED <<now, host, lastStart, permits, interval, stale>>

\* _effective_interval, read before the waits that follow.
Cooled(r) ==
  /\ pc[r] = "cooling" /\ now >= until[r]
  /\ pc' = [pc EXCEPT ![r] = "queued"]
  /\ interval' = [interval EXCEPT ![r] = BaseInterval + slowdown]
  /\ UNCHANGED <<now, host, lastStart, permits, attempt, until, stale>>

Acquire(r) ==
  /\ pc[r] = "queued" /\ permits > 0
  /\ permits' = permits - 1
  /\ pc' = [pc EXCEPT ![r] = "locking"]
  /\ UNCHANGED <<now, host, lastStart, attempt, interval, until, stale>>

\* Under the limiter's lock: sleep until the interval has passed.
LimiterUnlocked == TRUE
LimiterFree == \A s \in Request : pc[s] # "spacing"

Lock(r) ==
  /\ pc[r] = "locking" /\ LimiterFree
  /\ pc' = [pc EXCEPT ![r] = "spacing"]
  /\ until' = [until EXCEPT ![r] = lastStart + interval[r]]
  /\ UNCHANGED <<now, host, lastStart, permits, attempt, interval, stale>>

\* The lock is released and the request is sent without another await.
Send(r) ==
  /\ pc[r] = "spacing" /\ now >= until[r]
  /\ pc' = [pc EXCEPT ![r] = "sent"]
  /\ lastStart' = now
  /\ UNCHANGED <<now, host, permits, attempt, interval, until, stale>>

Return(r, how) ==
  /\ pc' = [pc EXCEPT ![r] = how]
  /\ permits' = permits + 1

\* Any other status is the caller's; any exception becomes None.
Answer(r) ==
  /\ pc[r] = "sent"
  /\ Return(r, "answered") \/ Return(r, "failed")
  /\ UNCHANGED <<now, host, lastStart, attempt, interval, until, stale>>

Later(a, b) == IF a > b THEN a ELSE b
NewestCooldown(end) == end
ExtendedCooldown(end) == Later(cooldownUntil, end)

\* The permit is back before the 429 is recorded; the next attempt checks the
\* cooldown right away.
TooMany(r) ==
  /\ pc[r] = "sent"
  /\ \E c \in Cooldowns :
       /\ cooldownUntil' = ExtendedCooldown(now + c)
       /\ longest' = Later(longest, now + c)
  /\ slowdown' = slowdown + Increase
  /\ IF attempt[r] < Attempts
     THEN /\ Return(r, "cooling")
          /\ attempt' = [attempt EXCEPT ![r] = @ + 1]
          /\ until' = [until EXCEPT ![r] = cooldownUntil']
     ELSE Return(r, "raised") /\ UNCHANGED <<attempt, until>>
  /\ stale' = [s \in Request |-> s # r /\ (stale[s] \/ pc[s] \in Waiting)]
  /\ UNCHANGED <<now, lastStart, interval>>

\* The caller is cancelled at any await; throttle gives the permit back.
PermitKept(r) == permits
PermitAfter(r) == IF r \in Holders THEN permits + 1 ELSE permits

CancelRequest(r) ==
  /\ pc[r] \in Waiting \cup {"sent"}
  /\ pc' = [pc EXCEPT ![r] = "cancelled"]
  /\ permits' = PermitAfter(r)
  /\ UNCHANGED <<now, host, lastStart, attempt, interval, until, stale>>

Tick ==
  /\ now < Horizon
  /\ now' = now + 1
  /\ UNCHANGED <<host, lastStart, permits, pc, attempt, interval, until, stale>>

Next ==
  \/ Tick
  \/ \E r \in Request :
       \/ Begin(r) \/ Cooled(r) \/ Acquire(r) \/ Lock(r) \/ Send(r)
       \/ Answer(r) \/ TooMany(r) \/ CancelRequest(r)

Spec == Init /\ [][Next]_vars

-----------------------------------------------------------------------------
Starts(r) == pc[r] # "sent" /\ pc'[r] = "sent"

\* Two requests to a host start at least BaseInterval apart, concurrent ones and
\* retries included ("minimum seconds between request starts, including
\* concurrent requests").
MinSpacing == [][\A r \in Request : Starts(r) => now >= lastStart + BaseInterval]_vars

\* No request starts before the end of the longest cooldown announced, except one
\* that had already checked the cooldown when the 429 that set it was recorded.
CooldownHonoured == [][\A r \in Request : Starts(r) => stale[r] \/ now >= longest]_vars

\* Permits are conserved through answers, 429s and cancellations.
PermitsConserved ==
  permits >= 0 /\ permits + Cardinality(Holders) = MaxConcurrency

\* One request at a time waits in the limiter's lock, and its sleep covers the
\* interval; a request that is not stale waits out, or has waited out, the longest
\* cooldown: the inductive invariant behind MinSpacing and CooldownHonoured.
SpacingInv ==
  /\ TypeOK
  /\ \A r \in Request : pc[r] \in {"queued", "locking", "spacing"} =>
       interval[r] >= BaseInterval
  /\ \A r \in Request : pc[r] = "spacing" => until[r] >= lastStart + BaseInterval
  /\ \A r, s \in Request : pc[r] = "spacing" /\ pc[s] = "spacing" => r = s
  /\ cooldownUntil = longest
  /\ \A r \in Request : ~ stale[r] =>
       /\ pc[r] = "cooling" => until[r] >= longest
       /\ pc[r] \in {"queued", "locking", "spacing"} => now >= longest
====
