--------------------------- MODULE HelloRedisProofs ---------------------------
(***************************************************************************)
(* Proofs about HelloRedis, for every number of requests, pods, slots,     *)
(* repeated commands and restarts.                                         *)
(***************************************************************************)
EXTENDS HelloRedis, FiniteSetTheorems, TLAPS

\* alloc grants at most AllocLimit slots.
WithinLimit == \A p \in Pods : allocated[p] <= AllocLimit

CountsDistinct ==
  \A q, r \in Requests : q # r /\ count[q] = count[r] => count[q] = 0

IInv == TypeOK /\ SlotsCounted /\ WithinLimit /\ CountsAreHits /\ CountsDistinct

\* The steps that take, give back or drop slots; all others leave the pools alone.
SlotStep ==
  \/ \E r \in Requests : Alloc(r) \/ Release(r)
  \/ \E p \in Pods : Restart(p)

OtherStep ==
  \/ \E r \in Requests : \/ Send(r) \/ GiveUp(r) \/ AllocFails(r) \/ Incr(r)
                         \/ IncrRepeated(r) \/ IncrFails(r) \/ Respond(r)
  \/ \E p \in Pods : Probe(p)
  \/ UNCHANGED vars

LEMMA StepKinds == [Next]_vars => SlotStep \/ OtherStep
BY DEF Next, Handle, SlotStep, OtherStep

LEMMA HoldersFinite ==
  ASSUME NEW p \in Pods
  PROVE  IsFiniteSet(Holders(p))
BY BoundsAssumption, FS_Subset DEF Holders

LEMMA InitIInv == Init => IInv
<1> SUFFICES ASSUME Init PROVE IInv
  OBVIOUS
<1>1. TypeOK /\ WithinLimit /\ CountsAreHits /\ CountsDistinct
  BY PoolAssumption
  DEF Init, TypeOK, PCs, WithinLimit, CountsAreHits, CountsDistinct
<1>2. SlotsCounted
  <2> SUFFICES ASSUME NEW p \in Pods PROVE allocated[p] = Cardinality(Holders(p))
    BY DEF SlotsCounted
  <2>1. Holders(p) = {}
    BY DEF Init, Holders, HasSlot
  <2>2. QED
    BY <2>1, FS_EmptySet DEF Init
<1>3. QED
  BY <1>1, <1>2 DEF IInv

\* What the actions assign has the type of the variables.
LEMMA TypeStep ==
  ASSUME IInv, Next, allocated' \in [Pods -> Nat]
  PROVE  TypeOK'
<1> USE DEF IInv, TypeOK, PCs
<1>1. ASSUME NEW r \in Requests, Send(r) PROVE TypeOK'
  BY <1>1 DEF Send
<1>2. ASSUME NEW r \in Requests, Alloc(r) PROVE TypeOK'
  BY <1>2 DEF Alloc
<1>3. ASSUME NEW r \in Requests, AllocFails(r) PROVE TypeOK'
  BY <1>3 DEF AllocFails
<1>4. ASSUME NEW r \in Requests, Incr(r) PROVE TypeOK'
  BY <1>4 DEF Incr
<1>5. ASSUME NEW r \in Requests, IncrRepeated(r) PROVE TypeOK'
  BY <1>5 DEF IncrRepeated
<1>6. ASSUME NEW r \in Requests, IncrFails(r) PROVE TypeOK'
  BY <1>6 DEF IncrFails
<1>7. ASSUME NEW r \in Requests, Release(r) PROVE TypeOK'
  BY <1>7 DEF Release
<1>8. ASSUME NEW r \in Requests, Respond(r) PROVE TypeOK'
  <2>1. client' \in [Requests -> {"none", "waiting", "count", "redisError",
                                  "noResources", "gaveUp"}]
    BY <1>8 DEF Respond
  <2>2. QED
    BY <1>8, <2>1 DEF Respond
<1>9. ASSUME NEW r \in Requests, GiveUp(r) PROVE TypeOK'
  BY <1>9 DEF GiveUp
<1>10. ASSUME NEW p \in Pods, Probe(p) PROVE TypeOK'
  BY <1>10 DEF Probe
<1>11. ASSUME NEW p \in Pods, Restart(p) PROVE TypeOK'
  BY <1>11 DEF Restart
<1>12. QED
  BY <1>1, <1>2, <1>3, <1>4, <1>5, <1>6, <1>7, <1>8, <1>9, <1>10, <1>11 DEF Next, Handle

\* A slot that is taken or given back is counted in the pool of its own pod.
LEMMA PoolStep ==
  ASSUME IInv, [Next]_vars
  PROVE  SlotsCounted' /\ WithinLimit' /\ allocated' \in [Pods -> Nat]
<1>0. /\ allocated \in [Pods -> Nat] /\ pod \in [Requests -> Pods]
      /\ pc \in [Requests -> PCs]
      /\ \A p \in Pods : allocated[p] = Cardinality(Holders(p)) /\ allocated[p] <= AllocLimit
  BY DEF IInv, TypeOK, SlotsCounted, WithinLimit
<1> SUFFICES \A q \in Pods : /\ allocated'[q] = Cardinality(Holders(q)')
                             /\ allocated'[q] <= AllocLimit /\ allocated'[q] \in Nat
                             /\ allocated' \in [Pods -> Int]
  BY <1>0, BoundsAssumption, Zenon DEF SlotsCounted, WithinLimit
<1> TAKE q \in Pods
<1>1. ASSUME NEW r \in Requests, Alloc(r)
      PROVE  /\ allocated'[q] = Cardinality(Holders(q)')
             /\ allocated'[q] <= AllocLimit /\ allocated'[q] \in Nat
             /\ allocated' \in [Pods -> Int]
  <2>1. CASE pod[r] = q
    <3>1. Holders(q)' = Holders(q) \cup {r} /\ r \notin Holders(q)
      BY <1>0, <1>1, <2>1 DEF Alloc, Holders, HasSlot, PCs
    <3>2. Cardinality(Holders(q)') = Cardinality(Holders(q)) + 1
      BY <3>1, HoldersFinite, FS_AddElement
    <3>3. QED
      BY <1>0, <1>1, <2>1, <3>2, PoolAssumption DEF Alloc
  <2>2. CASE pod[r] # q
    <3>1. Holders(q)' = Holders(q)
      BY <1>0, <1>1, <2>2 DEF Alloc, Holders, HasSlot, PCs
    <3>2. QED
      BY <1>0, <1>1, <2>2, <3>1 DEF Alloc
  <2>3. QED
    BY <2>1, <2>2
<1>2. ASSUME NEW r \in Requests, Release(r)
      PROVE  /\ allocated'[q] = Cardinality(Holders(q)')
             /\ allocated'[q] <= AllocLimit /\ allocated'[q] \in Nat
             /\ allocated' \in [Pods -> Int]
  <2>1. CASE pod[r] = q
    <3>1. Holders(q)' = Holders(q) \ {r} /\ r \in Holders(q)
      BY <1>0, <1>2, <2>1 DEF Release, Holders, HasSlot, PCs
    <3>2. Cardinality(Holders(q)') = Cardinality(Holders(q)) - 1
      BY <3>1, HoldersFinite, FS_RemoveElement
    <3>3. Cardinality(Holders(q)') \in Nat
      BY <3>1, HoldersFinite, FS_RemoveElement, FS_CardinalityType
    <3>4. QED
      BY <1>0, <1>2, <2>1, <3>2, <3>3, PoolAssumption DEF Release
  <2>2. CASE pod[r] # q
    <3>1. Holders(q)' = Holders(q)
      BY <1>0, <1>2, <2>2 DEF Release, Holders, HasSlot, PCs
    <3>2. QED
      BY <1>0, <1>2, <2>2, <3>1 DEF Release
  <2>3. QED
    BY <2>1, <2>2
<1>3. ASSUME NEW p \in Pods, Restart(p)
      PROVE  /\ allocated'[q] = Cardinality(Holders(q)')
             /\ allocated'[q] <= AllocLimit /\ allocated'[q] \in Nat
             /\ allocated' \in [Pods -> Int]
  <2>1. CASE p = q
    <3>1. Holders(q)' = {}
      BY <1>0, <1>3, <2>1 DEF Restart, Killed, Holders, HasSlot, PCs
    <3>2. QED
      BY <1>0, <1>3, <2>1, <3>1, FS_EmptySet, PoolAssumption DEF Restart
  <2>2. CASE p # q
    <3>1. Holders(q)' = Holders(q)
      BY <1>0, <1>3, <2>2 DEF Restart, Killed, Holders, HasSlot, PCs
    <3>2. QED
      BY <1>0, <1>3, <2>2, <3>1 DEF Restart
  <2>3. QED
    BY <2>1, <2>2
<1>4. CASE OtherStep
  <2>1. allocated' = allocated /\ Holders(q)' = Holders(q)
    BY <1>0, <1>4 DEF OtherStep, Send, GiveUp, AllocFails, Incr, IncrRepeated,
                      IncrFails, Respond, Probe, vars, Holders, HasSlot, PCs
  <2>2. QED
    BY <1>0, <2>1
<1>5. QED
  BY <1>1, <1>2, <1>3, <1>4, StepKinds DEF SlotStep

\* INCR hands out a value larger than every count and every floor before it.
LEMMA CountStep ==
  ASSUME IInv, [Next]_vars
  PROVE  CountsAreHits' /\ CountsDistinct'
<1>0. /\ pc \in [Requests -> PCs] /\ client \in [Requests -> {"none", "waiting", "count",
                                       "redisError", "noResources", "gaveUp"}]
      /\ hits \in Nat /\ count \in [Requests -> Nat]
      /\ CountsAreHits /\ CountsDistinct
  BY DEF IInv, TypeOK
<1> USE DEF PCs
<1>1. ASSUME NEW r \in Requests, Send(r) PROVE CountsAreHits' /\ CountsDistinct'
  <2>1. PICK n \in Counts \cup {0} : floor' = [floor EXCEPT ![r] = n]
    BY <1>1 DEF Send
  <2>2. n \in 0..hits
    BY <1>0, <2>1 DEF Counts, CountsAreHits
  <2>3. QED
    BY <1>0, <1>1, <2>1, <2>2 DEF Send, CountsAreHits, CountsDistinct
<1>2. ASSUME NEW r \in Requests, Incr(r) PROVE CountsAreHits' /\ CountsDistinct'
  <2>1. \A q \in Requests : count[q] < hits + 1
    BY <1>0 DEF CountsAreHits
  <2>2. CountsDistinct'
    BY <1>0, <1>2, <2>1 DEF Incr, CountsDistinct
  <2>3. CountsAreHits'
    BY <1>0, <1>2 DEF Incr, CountsAreHits
  <2>4. QED
    BY <2>2, <2>3
<1>3. ASSUME NEW r \in Requests, Respond(r) PROVE CountsAreHits' /\ CountsDistinct'
  BY <1>0, <1>3 DEF Respond, CountsAreHits, CountsDistinct
<1>4. ASSUME NEW r \in Requests,
             Alloc(r) \/ AllocFails(r) \/ IncrFails(r) \/ Release(r)
      PROVE  CountsAreHits' /\ CountsDistinct'
  BY <1>0, <1>4 DEF Alloc, AllocFails, IncrFails, Release, CountsAreHits, CountsDistinct
<1>5. ASSUME NEW r \in Requests, IncrRepeated(r) PROVE CountsAreHits' /\ CountsDistinct'
  BY <1>0, <1>5 DEF IncrRepeated, CountsAreHits, CountsDistinct
<1>6. ASSUME NEW r \in Requests, GiveUp(r) PROVE CountsAreHits' /\ CountsDistinct'
  BY <1>0, <1>6 DEF GiveUp, CountsAreHits, CountsDistinct
<1>7. ASSUME NEW p \in Pods, Restart(p) PROVE CountsAreHits' /\ CountsDistinct'
  BY <1>0, <1>7 DEF Restart, Killed, CountsAreHits, CountsDistinct
<1>8. CASE UNCHANGED vars \/ \E p \in Pods : Probe(p)
  BY <1>0, <1>8 DEF vars, Probe, CountsAreHits, CountsDistinct
<1>9. QED
  BY <1>1, <1>2, <1>3, <1>4, <1>5, <1>6, <1>7, <1>8 DEF Next, Handle

LEMMA StepIInv == IInv /\ [Next]_vars => IInv'
<1> SUFFICES ASSUME IInv, [Next]_vars PROVE IInv'
  OBVIOUS
<1>1. SlotsCounted' /\ WithinLimit' /\ allocated' \in [Pods -> Nat]
  BY PoolStep
<1>2. CountsAreHits' /\ CountsDistinct'
  BY CountStep
<1>3. TypeOK'
  <2>1. CASE Next
    BY <2>1, <1>1, TypeStep
  <2>2. CASE UNCHANGED vars
    BY <2>2 DEF vars, IInv, TypeOK
  <2>3. QED
    BY <2>1, <2>2
<1>4. QED
  BY <1>1, <1>2, <1>3 DEF IInv

THEOREM Invariance == Spec => []IInv
<1>1. QED
  BY InitIInv, StepIInv, PTL DEF Spec

-----------------------------------------------------------------------------
\* The counter of a pool equals the number of its slot holders, on every path
\* through hello and across restarts, for any number of requests and pods; and
\* healthz never answers 503, however large the pool, as long as alloc stops
\* below its size.
THEOREM PoolIsAccounted == Spec => []PoolAccounting
<1>1. IInv => SlotsCounted
  BY DEF IInv
<1>2. IInv => HealthzAlwaysOk
  BY PoolAssumption DEF IInv, TypeOK, WithinLimit, HealthzAlwaysOk
<1>3. IInv => PoolAccounting
  BY <1>1, <1>2 DEF PoolAccounting
<1>4. QED
  BY <1>3, Invariance, PTL

\* Counts increase over all pods, and no two requests get the same one.
THEOREM CountsKeepIncreasing == Spec => []CountsIncrease
<1>1. IInv => CountsIncrease
  BY DEF IInv, CountsAreHits, CountsDistinct, CountsIncrease
<1>2. QED
  BY <1>1, Invariance, PTL
=============================================================================
