---- MODULE RequestManagerProofs ----
(* Proofs about RequestManager for every number of requests, interval,       *)
(* concurrency, cooldown and number of attempts, without a bound on time.    *)
EXTENDS RequestManager, TLAPS, FiniteSetTheorems

LEMMA SpacingInit == Init => SpacingInv
  BY ManagerAssumption DEF Init, SpacingInv, TypeOK, Waiting, Ended

LEMMA SpacingNext == SpacingInv /\ [Next]_vars => SpacingInv'
<1> SUFFICES ASSUME SpacingInv, [Next]_vars PROVE SpacingInv'
  OBVIOUS
<1> USE ManagerAssumption DEF SpacingInv, TypeOK, Waiting, Ended, host
<1>1. CASE Tick
  BY <1>1 DEF Tick
<1>2. ASSUME NEW r \in Request, Begin(r) PROVE SpacingInv'
  BY <1>2 DEF Begin
<1>3. ASSUME NEW r \in Request, Cooled(r) PROVE SpacingInv'
  BY <1>3 DEF Cooled
<1>4. ASSUME NEW r \in Request, Acquire(r) PROVE SpacingInv'
  BY <1>4 DEF Acquire
<1>5. ASSUME NEW r \in Request, Lock(r) PROVE SpacingInv'
  BY <1>5 DEF Lock, LimiterFree
<1>6. ASSUME NEW r \in Request, Send(r) PROVE SpacingInv'
  BY <1>6 DEF Send
<1>7. ASSUME NEW r \in Request, Answer(r) PROVE SpacingInv'
  BY <1>7 DEF Answer, Return
<1>8. ASSUME NEW r \in Request, TooMany(r) PROVE SpacingInv'
  <2>1. PICK c \in Cooldowns :
          /\ cooldownUntil' = ExtendedCooldown(now + c)
          /\ longest' = Later(longest, now + c)
    BY <1>8 DEF TooMany
  <2>2. /\ cooldownUntil' \in Int /\ longest' \in Int
        /\ cooldownUntil' = longest' /\ longest' >= longest
    BY <2>1 DEF ExtendedCooldown, Later
  <2>3. stale' \in [Request -> BOOLEAN]
    BY <1>8 DEF TooMany
  <2>4. /\ permits' \in Int /\ slowdown' \in Nat
        /\ attempt' \in [Request -> Nat] /\ until' \in [Request -> Int]
        /\ pc' \in [Request -> {"idle", "sent"} \cup Waiting \cup Ended]
        /\ UNCHANGED <<now, lastStart, interval>>
    BY <1>8, <2>2 DEF TooMany, Return
  <2>5. TypeOK'
    BY <2>2, <2>3, <2>4
  <2>6. \A s \in Request \ {r} : pc'[s] = pc[s] /\ until'[s] = until[s]
    BY <1>8 DEF TooMany, Return
  <2>7. \/ pc'[r] = "cooling" /\ until'[r] = longest'
        \/ pc'[r] = "raised"
    BY <1>8, <2>2 DEF TooMany, Return
  <2>8. \A s \in Request \ {r} : ~ stale'[s] => pc[s] \notin Waiting
    BY <1>8 DEF TooMany
  <2> QED BY <2>2, <2>4, <2>5, <2>6, <2>7, <2>8
<1>9. ASSUME NEW r \in Request, CancelRequest(r) PROVE SpacingInv'
  BY <1>9 DEF CancelRequest, PermitAfter
<1>10. CASE UNCHANGED vars
  BY <1>10 DEF vars
<1> QED
  BY <1>1, <1>2, <1>3, <1>4, <1>5, <1>6, <1>7, <1>8, <1>9, <1>10 DEF Next

THEOREM SpacingInvariant == Spec => []SpacingInv
  BY SpacingInit, SpacingNext, PTL DEF Spec

\* Only Send starts a request.
LEMMA OnlySendStarts ==
  ASSUME TypeOK, [Next]_vars, NEW r \in Request, Starts(r)
  PROVE  Send(r)
<1> USE DEF TypeOK, Starts
<1>1. pc # pc'
  OBVIOUS
<1>2. PICK s \in Request :
        \/ Begin(s) \/ Cooled(s) \/ Acquire(s) \/ Lock(s) \/ Send(s)
        \/ Answer(s) \/ TooMany(s) \/ CancelRequest(s)
  BY <1>1 DEF Next, vars, Tick
<1>3. Send(s)
  BY <1>2 DEF Begin, Cooled, Acquire, Lock, Answer, TooMany, CancelRequest, Return
<1> QED BY <1>3 DEF Send

\* Requests to a host start at least BaseInterval apart.
THEOREM Spacing == Spec => MinSpacing
<1>1. SpacingInv /\ [Next]_vars =>
        [\A r \in Request : Starts(r) => now >= lastStart + BaseInterval]_vars
  <2> SUFFICES ASSUME SpacingInv, [Next]_vars, NEW r \in Request, Starts(r)
               PROVE  now >= lastStart + BaseInterval
    OBVIOUS
  <2>1. Send(r)
    BY OnlySendStarts DEF SpacingInv
  <2> QED BY <2>1, ManagerAssumption DEF Send, SpacingInv, TypeOK
<1> QED BY <1>1, SpacingInvariant, PTL DEF Spec, MinSpacing

\* Only a request that had already looked starts during a cooldown.
THEOREM Cooldown == Spec => CooldownHonoured
<1>1. SpacingInv /\ [Next]_vars =>
        [\A r \in Request : Starts(r) => stale[r] \/ now >= longest]_vars
  <2> SUFFICES ASSUME SpacingInv, [Next]_vars, NEW r \in Request, Starts(r)
               PROVE  stale[r] \/ now >= longest
    OBVIOUS
  <2>1. Send(r)
    BY OnlySendStarts DEF SpacingInv
  <2> QED BY <2>1 DEF Send, SpacingInv, TypeOK
<1> QED BY <1>1, SpacingInvariant, PTL DEF Spec, CooldownHonoured

-----------------------------------------------------------------------------
(* Permits.                                                                  *)

\* Leaving or entering the throttle changes the number of holders by one.
LEMMA HoldersFinite == IsFiniteSet(Holders) /\ Cardinality(Holders) \in Nat
<1>1. Holders \in SUBSET Request
  BY DEF Holders
<1> QED BY <1>1, ManagerAssumption, FS_Subset, FS_CardinalityType

LEMMA HolderLeaves ==
  ASSUME NEW r \in Holders, Holders' = Holders \ {r}, permits \in Int,
         PermitsConserved, permits' = permits + 1
  PROVE  PermitsConserved'
<1>1. Cardinality(Holders \ {r}) = Cardinality(Holders) - 1
  BY HoldersFinite, FS_RemoveElement
<1> QED BY <1>1, HoldersFinite, ManagerAssumption DEF PermitsConserved

LEMMA HolderEnters ==
  ASSUME NEW r \in Request \ Holders, Holders' = Holders \cup {r}, permits \in Int,
         PermitsConserved, permits > 0, permits' = permits - 1
  PROVE  PermitsConserved'
<1>1. Cardinality(Holders \cup {r}) = Cardinality(Holders) + 1
  BY HoldersFinite, FS_AddElement
<1> QED BY <1>1, HoldersFinite, ManagerAssumption DEF PermitsConserved

LEMMA PermitsNext == TypeOK /\ PermitsConserved /\ [Next]_vars => PermitsConserved'
<1> SUFFICES ASSUME TypeOK, PermitsConserved, [Next]_vars PROVE PermitsConserved'
  OBVIOUS
<1>0. ASSUME Holders' = Holders, permits' = permits PROVE PermitsConserved'
  BY <1>0 DEF PermitsConserved
<1> USE DEF TypeOK
<1>1. CASE Tick
  BY <1>0, <1>1 DEF Tick, Holders
<1>2. ASSUME NEW r \in Request, Begin(r) PROVE PermitsConserved'
  BY <1>0, <1>2 DEF Begin, Holders
<1>3. ASSUME NEW r \in Request, Cooled(r) PROVE PermitsConserved'
  BY <1>0, <1>3 DEF Cooled, Holders
<1>4. ASSUME NEW r \in Request, Acquire(r) PROVE PermitsConserved'
  <2>1. r \notin Holders /\ Holders' = Holders \cup {r}
    BY <1>4 DEF Acquire, Holders
  <2> QED BY <1>4, <2>1, HolderEnters DEF Acquire
<1>5. ASSUME NEW r \in Request, Lock(r) PROVE PermitsConserved'
  BY <1>0, <1>5 DEF Lock, Holders
<1>6. ASSUME NEW r \in Request, Send(r) PROVE PermitsConserved'
  BY <1>0, <1>6 DEF Send, Holders
<1>7. ASSUME NEW r \in Request, NEW how \in {"answered", "failed", "raised", "cooling"},
             pc[r] = "sent", Return(r, how)
      PROVE  PermitsConserved'
  <2>1. r \in Holders /\ Holders' = Holders \ {r}
    BY <1>7 DEF Return, Holders
  <2> QED BY <1>7, <2>1, HolderLeaves DEF Return
<1>8. ASSUME NEW r \in Request, Answer(r) PROVE PermitsConserved'
  BY <1>7, <1>8 DEF Answer
<1>9. ASSUME NEW r \in Request, TooMany(r) PROVE PermitsConserved'
  BY <1>7, <1>9 DEF TooMany
<1>10. ASSUME NEW r \in Request, CancelRequest(r) PROVE PermitsConserved'
  <2>1. CASE r \in Holders
    <3>1. Holders' = Holders \ {r}
      BY <1>10 DEF CancelRequest, Holders
    <3> QED BY <1>10, <2>1, <3>1, HolderLeaves DEF CancelRequest, PermitAfter
  <2>2. CASE r \notin Holders
    <3>1. Holders' = Holders
      BY <1>10, <2>2 DEF CancelRequest, Holders
    <3> QED BY <1>0, <1>10, <2>2, <3>1 DEF CancelRequest, PermitAfter
  <2> QED BY <2>1, <2>2
<1>11. CASE UNCHANGED vars
  BY <1>0, <1>11 DEF vars, Holders
<1> QED
  BY <1>1, <1>2, <1>3, <1>4, <1>5, <1>6, <1>8, <1>9, <1>10, <1>11 DEF Next

\* No answer, failure, 429 or cancellation loses or duplicates a permit.
THEOREM Permits == Spec => []PermitsConserved
<1>1. Init => PermitsConserved
  <2> SUFFICES ASSUME Init PROVE PermitsConserved
    OBVIOUS
  <2>1. Holders = {}
    BY DEF Init, Holders
  <2> QED BY <2>1, FS_EmptySet, ManagerAssumption DEF Init, PermitsConserved
<1>2. SpacingInv => TypeOK
  BY DEF SpacingInv
<1> QED BY <1>1, <1>2, PermitsNext, SpacingInvariant, PTL DEF Spec
====
