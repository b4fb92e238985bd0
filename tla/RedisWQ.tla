------------------------------- MODULE RedisWQ -------------------------------
(***************************************************************************)
(* The work queue of batch/aiml-workloads (src/rediswq.py), used by the    *)
(* loop of worker.py: `while not q.empty(): item = q.lease(...); work;     *)
(* q.complete(item)`.                                                      *)
(*                                                                         *)
(* Redis executes one command at a time, so each command a session sends   *)
(* is one action, and the commands of different sessions interleave.       *)
(* empty() is two commands (LLEN, LLEN), lease() two (BRPOPLPUSH, SETEX)   *)
(* and complete() two (LREM, DEL).  A session may die between any two.     *)
(* The work between lease() and complete() is a single state, "work", in   *)
(* this module; module BatchWorker says what happens in it.                *)
(***************************************************************************)
EXTENDS Integers, Sequences, FiniteSets

CONSTANTS Items,      \* the file names that may be queued
          Sessions,   \* the worker processes that may ever run, one uuid each
          Batches,    \* Batches[k]: the files the k-th run of queue-jobs.sh pushes
          None        \* no item, no lease

Elements(q) == {q[k] : k \in 1..Len(q)}

Unique(q) == \A j, k \in 1..Len(q) : q[j] = q[k] => j = k

\* A batch is the expansion of datasets/training/*.pkl: no name occurs twice.
ASSUME BatchesAssumption ==
  /\ Batches \in Seq(Seq(Items))
  /\ \A k \in 1..Len(Batches) : Unique(Batches[k])

ASSUME NoneAssumption == None \notin Items /\ None \notin Sessions

\* "The items in the work queue are assumed to have unique values."
UniqueItems ==
  \A j, k \in 1..Len(Batches) :
     j # k => Elements(Batches[j]) \cap Elements(Batches[k]) = {}

VARIABLES
  main,        \* the Redis list `datasets`
  processing,  \* the Redis list `datasets:processing`
  lease,       \* lease[i]: the session named by the lease key of i, or None
  pc,          \* pc[s]: the command session s sends next
  hand,        \* hand[s]: the item that s got from lease(), or None
  queued,      \* how many batches have been pushed
  removed,     \* history: the items taken out of `processing` by complete()
  seen         \* history: seen[s]: what was queued when s last read LLEN main

vars == <<main, processing, lease, pc, hand, queued, removed, seen>>

PCs == {"down", "llenMain", "llenProcessing", "pop", "setex", "work", "lrem",
        "del", "exited", "failed", "dead"}

\* The session's process runs.
Live(s) == pc[s] \notin {"down", "exited", "failed", "dead"}

\* Session s has the item of its last lease() and has not removed it yet.
Holds(s, i) == hand[s] = i /\ pc[s] \in {"setex", "work", "lrem"}

QueuedItems == UNION {Elements(Batches[k]) : k \in 1..queued}

TypeOK ==
  /\ main \in Seq(Items)
  /\ processing \subseteq Items
  /\ lease \in [Items -> Sessions \cup {None}]
  /\ pc \in [Sessions -> PCs]
  /\ hand \in [Sessions -> Items \cup {None}]
  /\ queued \in 0..Len(Batches)
  /\ removed \subseteq Items
  /\ seen \in [Sessions -> SUBSET Items]

Init ==
  /\ main = <<>>
  /\ processing = {}
  /\ lease = [i \in Items |-> None]
  /\ pc = [s \in Sessions |-> "down"]
  /\ hand = [s \in Sessions |-> None]
  /\ queued = 0
  /\ removed = {}
  /\ seen = [s \in Sessions |-> {}]

Goto(s, label) == pc' = [pc EXCEPT ![s] = label]

------------------------------------------------------------------------------
\* queue-jobs.sh: one RPUSH with every file name of the training directory.
Populate ==
  /\ queued < Len(Batches)
  /\ queued' = queued + 1
  /\ main' = main \o Batches[queued + 1]
  /\ UNCHANGED <<processing, lease, pc, hand, removed, seen>>

\* The Job starts a worker process: a RedisWQ with a session id of its own.
Start(s) ==
  /\ pc[s] = "down"
  /\ Goto(s, "llenMain")
  /\ UNCHANGED <<main, processing, lease, hand, queued, removed, seen>>

\* Mistake: empty() looks at the main list only.
LLenMain_alone(s) ==
  /\ pc[s] = "llenMain"
  /\ Goto(s, IF main = <<>> THEN "exited" ELSE "pop")
  /\ seen' = [seen EXCEPT ![s] = QueuedItems]
  /\ UNCHANGED <<main, processing, lease, hand, queued, removed>>

\* Mistake: a list of one element counts as empty.
LLenMain_offByOne(s) ==
  /\ pc[s] = "llenMain"
  /\ Goto(s, IF Len(main) <= 1 THEN "llenProcessing" ELSE "pop")
  /\ seen' = [seen EXCEPT ![s] = QueuedItems]
  /\ UNCHANGED <<main, processing, lease, hand, queued, removed>>

\* empty(), first operand: `_main_qsize() == 0`; `and` stops if it is false.
LLenMain(s) ==
  /\ pc[s] = "llenMain"
  /\ Goto(s, IF main = <<>> THEN "llenProcessing" ELSE "pop")
  /\ seen' = [seen EXCEPT ![s] = QueuedItems]
  /\ UNCHANGED <<main, processing, lease, hand, queued, removed>>

\* empty(), second operand: `_processing_qsize() == 0`; the loop ends on True.
LLenProcessing(s) ==
  /\ pc[s] = "llenProcessing"
  /\ Goto(s, IF processing = {} THEN "exited" ELSE "pop")
  /\ UNCHANGED <<main, processing, lease, hand, queued, removed, seen>>

\* Mistake: BRPOP, which does not keep the item in processing.
Pop_brpop(s) ==
  /\ pc[s] = "pop"
  /\ main # <<>>
  /\ hand' = [hand EXCEPT ![s] = main[Len(main)]]
  /\ main' = SubSeq(main, 1, Len(main) - 1)
  /\ Goto(s, "setex")
  /\ UNCHANGED <<processing, lease, queued, removed, seen>>

\* Mistake: the item is read with LINDEX and left in main.
Pop_lindex(s) ==
  /\ pc[s] = "pop"
  /\ main # <<>>
  /\ processing' = processing \cup {main[Len(main)]}
  /\ hand' = [hand EXCEPT ![s] = main[Len(main)]]
  /\ Goto(s, "setex")
  /\ UNCHANGED <<main, lease, queued, removed, seen>>

\* lease(): BRPOPLPUSH moves the rightmost element of main to processing.  The
\* list `processing` is only ever measured against 0 and LREMed with count 0
\* (every copy), so its set of elements stands for it.
Pop(s) ==
  /\ pc[s] = "pop"
  /\ main # <<>>
  /\ LET item == main[Len(main)]
     IN  /\ processing' = processing \cup {item}
         /\ hand' = [hand EXCEPT ![s] = item]
  /\ main' = SubSeq(main, 1, Len(main) - 1)
  /\ Goto(s, "setex")
  /\ UNCHANGED <<lease, queued, removed, seen>>

\* lease(): the blocking pop times out on an empty main; lease() returns None
\* and the worker prints "Waiting for work" and tests empty() again.
PopTimeout(s) ==
  /\ pc[s] = "pop"
  /\ main = <<>>
  /\ Goto(s, "llenMain")
  /\ UNCHANGED <<main, processing, lease, hand, queued, removed, seen>>

\* lease(): SETEX of the lease key of the item, with this session as value.
SetLease(s) ==
  /\ pc[s] = "setex"
  /\ lease' = [lease EXCEPT ![hand[s]] = s]
  /\ Goto(s, "work")
  /\ UNCHANGED <<main, processing, hand, queued, removed, seen>>

\* worker.py: the item has been worked on, complete(item) is called.
Work(s) ==
  /\ pc[s] = "work"
  /\ Goto(s, "lrem")
  /\ UNCHANGED <<main, processing, lease, hand, queued, removed, seen>>

\* Mistake: complete() deletes the whole list.
LRem_wholeList(s) ==
  /\ pc[s] = "lrem"
  /\ processing' = {}
  /\ removed' = removed \cup {hand[s]}
  /\ Goto(s, "del")
  /\ UNCHANGED <<main, lease, hand, queued, seen>>

\* Mistake: LREM of a value that is not in the list, such as the decoded name.
LRem_otherValue(s) ==
  /\ pc[s] = "lrem"
  /\ removed' = removed \cup {hand[s]}
  /\ Goto(s, "del")
  /\ UNCHANGED <<main, processing, lease, hand, queued, seen>>

\* complete(): LREM with count 0 takes every copy of the item out of processing.
LRem(s) ==
  /\ pc[s] = "lrem"
  /\ processing' = processing \ {hand[s]}
  /\ removed' = removed \cup {hand[s]}
  /\ Goto(s, "del")
  /\ UNCHANGED <<main, lease, hand, queued, seen>>

\* complete(): DEL of the item's lease key, whoever set it; the loop goes on.
Del(s) ==
  /\ pc[s] = "del"
  /\ lease' = [lease EXCEPT ![hand[s]] = None]
  /\ hand' = [hand EXCEPT ![s] = None]
  /\ Goto(s, "llenMain")
  /\ UNCHANGED <<main, processing, queued, removed, seen>>

\* Mistake: a GC that puts an item back as soon as its lease has expired, though
\* its session may still be working on it.
Expire_requeues(i) ==
  /\ lease[i] # None
  /\ lease' = [lease EXCEPT ![i] = None]
  /\ processing' = processing \ {i}
  /\ main' = IF i \in processing THEN <<i>> \o main ELSE main
  /\ UNCHANGED <<pc, hand, queued, removed, seen>>

\* Redis drops a lease key lease_secs after it was set, whatever its session
\* does meanwhile; training may take longer than the 20 s of the worker.
Expire(i) ==
  /\ lease[i] # None
  /\ lease' = [lease EXCEPT ![i] = None]
  /\ UNCHANGED <<main, processing, pc, hand, queued, removed, seen>>

\* The process is gone.  What it had in memory is lost, what it wrote to Redis
\* stays as it is.
Gone(s, label) ==
  /\ hand' = [hand EXCEPT ![s] = None]
  /\ Goto(s, label)
  /\ UNCHANGED <<main, processing, lease, queued, removed, seen>>

\* The process is killed, for instance because its spot node is reclaimed.
Die(s) == Live(s) /\ Gone(s, "dead")

\* The work on the item raises, and no caller catches.
Raise(s) == pc[s] = "work" /\ Gone(s, "failed")

------------------------------------------------------------------------------
\* What session s does by itself while its process runs.
Step(s) ==
  \/ LLenMain(s) \/ LLenProcessing(s)
  \/ Pop(s) \/ PopTimeout(s) \/ SetLease(s)
  \/ Work(s)
  \/ LRem(s) \/ Del(s)

Next ==
  \/ Populate
  \/ \E i \in Items : Expire(i)
  \/ \E s \in Sessions : Start(s) \/ Step(s) \/ Die(s) \/ Raise(s)

Spec == Init /\ [][Next]_vars

(***************************************************************************)
(* A process that runs keeps running, the Job keeps creating workers until *)
(* one has succeeded, and the batches have been pushed by hand.  Dying is  *)
(* never forced.                                                           *)
(***************************************************************************)
Fairness ==
  /\ \A s \in Sessions : WF_vars(Step(s)) /\ WF_vars(Start(s))
  /\ WF_vars(Populate)
  /\ \A i \in Items : WF_vars(Expire(i))

FairSpec == Spec /\ Fairness

------------------------------------------------------------------------------
\* The item was popped by a session that died before it removed it.
Orphaned(i) == i \in processing /\ \A s \in Sessions : ~Holds(s, i)

\* Every item that was ever queued is in exactly one place: once in main, or in
\* processing, or removed by complete().  No interleaving of BRPOPLPUSH and
\* LREM, and no death between two commands, loses an item or doubles it.
NothingLost ==
  /\ Unique(main)
  /\ Elements(main) \cap processing = {}
  /\ (Elements(main) \cup processing) \cap removed = {}
  /\ Elements(main) \cup processing \cup removed = QueuedItems

\* complete() deletes the lease key without looking at its value.  The key is
\* nevertheless never that of another session.
DeletesOwnLease ==
  \A s \in Sessions : pc[s] = "del" => lease[hand[s]] \in {s, None}

\* Two sessions never work on the same item, and an item somebody works on is
\* still in processing, so that empty() keeps the other workers waiting for it.
\* So complete() takes nothing from anybody else, no lease either.
OneHolder ==
  /\ \A s \in Sessions, i \in Items : Holds(s, i) =>
       /\ i \in processing
       /\ \A t \in Sessions : Holds(t, i) => t = s
  /\ DeletesOwnLease

\* empty() is not atomic: it reads main and then processing.  Even so, when a
\* worker leaves its loop, every item that was queued before its last empty()
\* has been completed: an item in flight can only move the way the reads go.
EmptyIsTruthful ==
  \A s \in Sessions : pc[s] = "exited" => seen[s] \subseteq removed

\* A lease key outlives the work it announces only if the session died: nobody
\* who is alive leaves a stale lease behind.
NoStaleLease ==
  \A i \in Items : lease[i] # None =>
     \/ hand[lease[i]] = i
     \/ pc[lease[i]] \in {"failed", "dead"}

\* The queue as its users see it: where each item stands, and who works on it.
ItemStatus ==
  [i \in Items |-> IF i \in Elements(main) THEN "waiting"
                   ELSE IF i \in processing THEN "claimed"
                   ELSE IF i \in removed THEN "done"
                   ELSE "absent"]

ItemHolders == [i \in Items |-> {s \in Sessions : Holds(s, i)}]

WQ == INSTANCE WorkQueue WITH status <- ItemStatus, holders <- ItemHolders

\* RedisWQ keeps the safety half of what a work queue promises: items are claimed
\* by one session, finished by that session only, and never revert.
RefinesWorkQueue == WQ!SafeSpec

\* A worker that is in its loop, and not between the two reads of empty(),
\* while an item waits does not leave the item behind: the item is completed,
\* unless a worker dies.
WaitingItemCompleted ==
  \A i \in Items, s \in Sessions :
     (i \in Elements(main) /\ Live(s) /\ pc[s] # "llenProcessing")
        ~> (i \in removed \/ Orphaned(i) \/ pc[s] \in {"failed", "dead"})

\* The loop of worker.py ends for every worker, as long as no worker dies.
WorkersExit ==
  \A s \in Sessions :
     Live(s) ~> \/ pc[s] = "exited"
                \/ \E t \in Sessions : pc[t] \in {"failed", "dead"}

\* rediswq.py says of a session that dies right after the pop: "GC will see no
\* lease for this item a[nd] later return it to the main queue".
AbandonedReturned == WQ!ReturnsAbandoned

==============================================================================
