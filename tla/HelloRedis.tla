------------------------------ MODULE HelloRedis ------------------------------
(***************************************************************************)
(* The web server of quickstarts/hello-app-redis (main.go): every request  *)
(* runs in a goroutine of its own, takes a slot of the pod's resource      *)
(* pool, increments the counter `hits` of a Redis cluster shared by all    *)
(* pods, and gives the slot back.  A readiness probe reads the same pool.  *)
(*                                                                         *)
(* alloc, release and hasResources hold the pool's mutex from their first  *)
(* to their last statement, so each is one action.  net/http sends a small *)
(* response when the handler has returned, that is, after the deferred     *)
(* release.  The client is the curl of generate_load.sh, which gives up    *)
(* after five seconds; the handler does not notice.                        *)
(***************************************************************************)
EXTENDS Integers, FiniteSets

CONSTANTS Requests,          \* the requests that clients may ever send
          Pods,              \* the replicas of the Deployment
          ResourcePoolSize,  \* 50
          AllocLimit,        \* resourcePoolSize*0.9, 45
          MaxRetries,        \* bound: replies of Redis that are lost
          MaxRestarts        \* bound: restarts of pods

ASSUME PoolAssumption ==
  /\ ResourcePoolSize \in Nat /\ AllocLimit \in Nat
  /\ AllocLimit < ResourcePoolSize

ASSUME BoundsAssumption ==
  /\ MaxRetries \in Nat /\ MaxRestarts \in Nat
  /\ IsFiniteSet(Requests) /\ Pods # {}

VARIABLES
  pc,         \* pc[r]: where the handler of r is
  pod,        \* pod[r]: the pod that r was sent to
  allocated,  \* allocated[p]: the counter of the pool of pod p
  ready,      \* ready[p]: what the last readiness probe of p found
  hits,       \* the Redis key `hits`
  count,      \* count[r]: what INCR answered to the handler of r, or 0
  retries,    \* how often an INCR was repeated
  client,     \* client[r]: what the sender of r knows
  floor,      \* history: the largest count received before r was sent
  restarts

vars == <<pc, pod, allocated, ready, hits, count, retries, client, floor, restarts>>

PCs == {"idle", "accepted", "incr", "written", "failed", "flush", "flushError",
        "refused", "returned", "killed"}

\* The handler of r has a slot of its pod's pool.
HasSlot(r) == pc[r] \in {"incr", "written", "failed"}

Holders(p) == {r \in Requests : pod[r] = p /\ HasSlot(r)}

Init ==
  /\ pc = [r \in Requests |-> "idle"]
  /\ pod \in [Requests -> Pods]
  /\ allocated = [p \in Pods |-> 0]
  /\ ready = [p \in Pods |-> FALSE]
  /\ hits = 0
  /\ count = [r \in Requests |-> 0]
  /\ retries = 0
  /\ client = [r \in Requests |-> "none"]
  /\ floor = [r \in Requests |-> 0]
  /\ restarts = 0

Counts == {count[r] : r \in {q \in Requests : client[q] = "count"}}

\* hello is called in a pod that the Service routes to.
Send(r) ==
  /\ pc[r] = "idle" /\ ready[pod[r]]
  /\ pc' = [pc EXCEPT ![r] = "accepted"]
  /\ client' = [client EXCEPT ![r] = "waiting"]
  /\ \E n \in Counts \cup {0} :
        (\A c \in Counts : c <= n) /\ floor' = [floor EXCEPT ![r] = n]
  /\ UNCHANGED <<pod, allocated, ready, hits, count, retries, restarts>>

\* Mistake: alloc stops one slot later.
Alloc_oneMore(r) ==
  /\ pc[r] = "accepted" /\ allocated[pod[r]] <= AllocLimit
  /\ allocated' = [allocated EXCEPT ![pod[r]] = @ + 1]
  /\ pc' = [pc EXCEPT ![r] = "incr"]
  /\ UNCHANGED <<pod, ready, hits, count, retries, client, floor, restarts>>

Alloc(r) ==
  /\ pc[r] = "accepted" /\ allocated[pod[r]] < AllocLimit
  /\ allocated' = [allocated EXCEPT ![pod[r]] = @ + 1]
  /\ pc' = [pc EXCEPT ![r] = "incr"]
  /\ UNCHANGED <<pod, ready, hits, count, retries, client, floor, restarts>>

\* 503, without a slot and without a release.
AllocFails(r) ==
  /\ pc[r] = "accepted" /\ ~(allocated[pod[r]] < AllocLimit)
  /\ pc' = [pc EXCEPT ![r] = "refused"]
  /\ UNCHANGED <<pod, allocated, ready, hits, count, retries, client, floor, restarts>>

\* INCR is one command; its reply is the new value.
Incr(r) ==
  /\ pc[r] = "incr"
  /\ hits' = hits + 1 /\ count' = [count EXCEPT ![r] = hits + 1]
  /\ pc' = [pc EXCEPT ![r] = "written"]
  /\ UNCHANGED <<pod, allocated, ready, retries, client, floor, restarts>>

\* The command is executed but its reply is lost: the client library sends it
\* again.
IncrRepeated(r) ==
  /\ pc[r] = "incr" /\ retries < MaxRetries
  /\ retries' = retries + 1 /\ hits' = hits + 1
  /\ UNCHANGED <<pc, pod, allocated, ready, count, client, floor, restarts>>

\* Mutant: the error path returns early, with the slot.
IncrFails_keepsSlot(r) ==
  /\ pc[r] = "incr"
  /\ pc' = [pc EXCEPT ![r] = "flushError"]
  /\ UNCHANGED <<pod, allocated, ready, hits, count, retries, client, floor, restarts>>

\* err # nil: "500 - ..." is written into a response with status 200.
IncrFails(r) ==
  /\ pc[r] = "incr"
  /\ pc' = [pc EXCEPT ![r] = "failed"]
  /\ UNCHANGED <<pod, allocated, ready, hits, count, retries, client, floor, restarts>>

\* The deferred release.
Release(r) ==
  /\ pc[r] \in {"written", "failed"}
  /\ allocated' = [allocated EXCEPT ![pod[r]] = @ - 1]
  /\ pc' = [pc EXCEPT ![r] = IF pc[r] = "written" THEN "flush" ELSE "flushError"]
  /\ UNCHANGED <<pod, ready, hits, count, retries, client, floor, restarts>>

\* The handler has returned; the response goes out if anyone still waits.
Respond(r) ==
  /\ pc[r] \in {"flush", "flushError", "refused"}
  /\ client' = [client EXCEPT ![r] =
        IF @ # "waiting" THEN @
        ELSE CASE pc[r] = "flush"      -> "count"
               [] pc[r] = "flushError" -> "redisError"
               [] pc[r] = "refused"    -> "noResources"]
  /\ pc' = [pc EXCEPT ![r] = "returned"]
  /\ UNCHANGED <<pod, allocated, ready, hits, count, retries, floor, restarts>>

\* curl -m 5
GiveUp(r) ==
  /\ client[r] = "waiting"
  /\ client' = [client EXCEPT ![r] = "gaveUp"]
  /\ UNCHANGED <<pc, pod, allocated, ready, hits, count, retries, floor, restarts>>

\* healthz answers 503 when hasResources is false; failureThreshold is 1.
Probe(p) ==
  /\ ready' = [ready EXCEPT ![p] = allocated[p] < ResourcePoolSize]
  /\ UNCHANGED <<pc, pod, allocated, hits, count, retries, client, floor, restarts>>

Killed(p) == {r \in Requests : pod[r] = p /\ pc[r] \notin {"idle", "returned", "killed"}}

\* Mutant: the counter is a variable of the pod.
Restart_losesHits(p) ==
  /\ restarts < MaxRestarts /\ restarts' = restarts + 1
  /\ pc' = [r \in Requests |-> IF r \in Killed(p) THEN "killed" ELSE pc[r]]
  /\ client' = [r \in Requests |-> IF r \in Killed(p) /\ client[r] = "waiting"
                                   THEN "gaveUp" ELSE client[r]]
  /\ allocated' = [allocated EXCEPT ![p] = 0] /\ ready' = [ready EXCEPT ![p] = FALSE]
  /\ hits' = 0
  /\ UNCHANGED <<pod, count, retries, floor>>

\* The container of pod p ends and a new one is started: its handlers and its
\* pool are gone, Redis is not concerned.
Restart(p) ==
  /\ restarts < MaxRestarts /\ restarts' = restarts + 1
  /\ pc' = [r \in Requests |-> IF r \in Killed(p) THEN "killed" ELSE pc[r]]
  /\ client' = [r \in Requests |-> IF r \in Killed(p) /\ client[r] = "waiting"
                                   THEN "gaveUp" ELSE client[r]]
  /\ allocated' = [allocated EXCEPT ![p] = 0] /\ ready' = [ready EXCEPT ![p] = FALSE]
  /\ UNCHANGED <<pod, hits, count, retries, floor>>

Handle(r) ==
  \/ Alloc(r) \/ AllocFails(r) \/ Incr(r) \/ IncrRepeated(r) \/ IncrFails(r)
  \/ Release(r) \/ Respond(r)

Next ==
  \/ \E r \in Requests : Send(r) \/ Handle(r) \/ GiveUp(r)
  \/ \E p \in Pods : Probe(p) \/ Restart(p)

Spec == Init /\ [][Next]_vars

\* A goroutine keeps running, and go-redis bounds each attempt and the number
\* of attempts: INCR ends with a reply or an error.  Nobody has to send.
FairSpec == Spec /\ \A r \in Requests : WF_vars(Handle(r))

-----------------------------------------------------------------------------
\* Type invariant: counters stay natural, also across restarts.
TypeOK ==
  /\ pc \in [Requests -> PCs] /\ pod \in [Requests -> Pods]
  /\ allocated \in [Pods -> Nat] /\ ready \in [Pods -> BOOLEAN]
  /\ hits \in Nat /\ count \in [Requests -> Nat]
  /\ client \in [Requests -> {"none", "waiting", "count", "redisError", "noResources", "gaveUp"}]

SlotsCounted == \A p \in Pods : allocated[p] = Cardinality(Holders(p))

HealthzAlwaysOk == \A p \in Pods : allocated[p] < ResourcePoolSize

\* The counter of a pool is the number of its handlers that have a slot: every
\* path of hello gives back exactly the slot it took, also when the client has
\* gone or the pod was restarted in between.  And as alloc refuses at 45 and
\* hasResources asks for less than 50, healthz never answers 503, however many
\* requests arrive at once: the probe never takes a pod out of the Service.
PoolAccounting == SlotsCounted /\ HealthzAlwaysOk

\* "The number should keep increasing": a request that is sent after a count was
\* received gets a larger one, from whichever pod, and no two requests get the
\* same one; lost replies, errors and restarts notwithstanding.
CountsIncrease ==
  /\ \A r \in Requests : client[r] = "count" => floor[r] < count[r]
  /\ \A q, r \in Requests : q # r /\ count[q] = count[r] => count[q] = 0

\* Why CountsIncrease holds: counts are past values of `hits`.
CountsAreHits ==
  \A r \in Requests :
     /\ floor[r] \in 0..hits /\ count[r] \in 0..hits
     /\ (pc[r] \in {"idle", "accepted", "incr"} => count[r] = 0 /\ client[r] # "count")
     /\ (pc[r] \in {"written", "flush"} \/ client[r] = "count" => floor[r] < count[r])

\* With finitely many requests, all slots are given back in the end.
SlotsComeBack == <>[](\A p \in Pods : allocated[p] = 0)
=============================================================================
