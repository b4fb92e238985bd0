-------------------------- MODULE BatchWorkerProofs --------------------------
(***************************************************************************)
(* Proofs about RedisWQ and BatchWorker for every set of files, every set  *)
(* of workers and every list of batches.                                   *)
(*                                                                         *)
(* The first part is about the queue: its type correctness needs nothing,  *)
(* the rest needs UniqueItems, the assumption the docstring of RedisWQ     *)
(* makes.  The second part is about the workload on top of it: it is a     *)
(* client of RedisWQ, so what is proved of RedisWQ holds of it, and what   *)
(* has left the queue is saved and reported exactly once; or, without      *)
(* UniqueItems, at least once.                                             *)
(***************************************************************************)
EXTENDS BatchWorker, SequenceTheorems, TLAPS

------------------------------------------------------------------------------
(* The queue.                                                                *)

\* What a pop does to a queue without repetitions: it takes one element out.
LEMMA PopLemma ==
  ASSUME NEW q \in Seq(Items), q # <<>>, Unique(q)
  PROVE  /\ SubSeq(q, 1, Len(q) - 1) \in Seq(Items)
         /\ Unique(SubSeq(q, 1, Len(q) - 1))
         /\ q[Len(q)] \in Elements(q)
         /\ Elements(SubSeq(q, 1, Len(q) - 1)) = Elements(q) \ {q[Len(q)]}
<1> DEFINE r == SubSeq(q, 1, Len(q) - 1)
<1>1. Len(q) \in Nat /\ Len(q) > 0
  OBVIOUS
<1>2. /\ r \in Seq(Items)
      /\ Len(r) = Len(q) - 1
      /\ \A k \in 1..Len(r) : r[k] = q[k]
  <2>1. 1 \in Int /\ Len(q) - 1 \in Int /\ \A k \in 1..Len(q) - 1 : q[k] \in Items
    BY <1>1
  <2>2. /\ r \in Seq(Items)
        /\ Len(r) = IF 1 <= Len(q) - 1 THEN Len(q) - 1 - 1 + 1 ELSE 0
        /\ \A k \in 1..Len(q) - 1 - 1 + 1 : r[k] = q[1 + k - 1]
    BY <2>1, SubSeqProperties
  <2>3. Len(r) = Len(q) - 1 /\ \A k \in 1..Len(q) - 1 : r[k] = q[k]
    <3>1. Len(r) = Len(q) - 1
      <4> HIDE DEF r
      <4>1. CASE Len(q) = 1
        BY <2>2, <4>1
      <4>2. CASE Len(q) > 1
        BY <1>1, <2>2, <4>2
      <4>3. Len(q) = 1 \/ Len(q) > 1
        BY <1>1
      <4> QED
        BY <4>1, <4>2, <4>3
    <3>2. ASSUME NEW k \in 1..Len(q) - 1
          PROVE  r[k] = q[k]
      <4>1. k \in 1..Len(q) - 1 - 1 + 1 /\ 1 + k - 1 = k
        BY <1>1
      <4> HIDE DEF r
      <4> QED
        BY <2>2, <4>1
    <3> QED
      BY <3>1, <3>2
  <2> QED
    BY <2>2, <2>3
<1>3. Unique(r)
  BY <1>1, <1>2 DEF Unique
<1>4. q[Len(q)] \in Elements(q)
  BY <1>1 DEF Elements
<1>5. Elements(r) = Elements(q) \ {q[Len(q)]}
  <2>1. ASSUME NEW x \in Elements(r)
        PROVE  x \in Elements(q) \ {q[Len(q)]}
    <3>1. PICK k \in 1..Len(r) : x = r[k]
      BY <2>1 DEF Elements
    <3>2. k \in 1..Len(q) /\ k # Len(q) /\ x = q[k]
      BY <1>1, <1>2, <3>1
    <3> QED
      BY <1>1, <3>2 DEF Elements, Unique
  <2>2. ASSUME NEW x \in Elements(q) \ {q[Len(q)]}
        PROVE  x \in Elements(r)
    <3>1. PICK k \in 1..Len(q) : x = q[k]
      BY <2>2 DEF Elements
    <3>2. k \in 1..Len(r)
      BY <1>1, <1>2, <2>2, <3>1
    <3> QED
      BY <1>2, <3>1, <3>2 DEF Elements
  <2> QED
    BY <2>1, <2>2
<1> QED
  BY <1>2, <1>3, <1>4, <1>5

\* What a push does: it adds the elements of the batch.
LEMMA PushLemma ==
  ASSUME NEW p \in Seq(Items), NEW q \in Seq(Items)
  PROVE  /\ p \o q \in Seq(Items)
         /\ Elements(p \o q) = Elements(p) \cup Elements(q)
         /\ (Unique(p) /\ Unique(q) /\ Elements(p) \cap Elements(q) = {})
               => Unique(p \o q)
<1>1. /\ Len(p) \in Nat /\ Len(q) \in Nat
      /\ p \o q \in Seq(Items)
      /\ Len(p \o q) = Len(p) + Len(q)
      /\ \A k \in 1..Len(p \o q) :
            (p \o q)[k] = IF k <= Len(p) THEN p[k] ELSE q[k - Len(p)]
  OBVIOUS
<1>2. Elements(p \o q) = Elements(p) \cup Elements(q)
  <2>1. ASSUME NEW x \in Elements(p \o q)
        PROVE  x \in Elements(p) \cup Elements(q)
    BY <1>1 DEF Elements
  <2>2. ASSUME NEW x \in Elements(p)
        PROVE  x \in Elements(p \o q)
    BY <1>1 DEF Elements
  <2>3. ASSUME NEW x \in Elements(q)
        PROVE  x \in Elements(p \o q)
    <3>1. PICK k \in 1..Len(q) : x = q[k]
      BY DEF Elements
    <3>2. k + Len(p) \in 1..Len(p \o q) /\ (p \o q)[k + Len(p)] = x
      BY <1>1, <3>1
    <3> QED
      BY <3>2 DEF Elements
  <2> QED
    BY <2>1, <2>2, <2>3
<1>3. ASSUME Unique(p), Unique(q), Elements(p) \cap Elements(q) = {}
      PROVE  Unique(p \o q)
  <2> SUFFICES ASSUME NEW j \in 1..Len(p \o q), NEW k \in 1..Len(p \o q),
                      (p \o q)[j] = (p \o q)[k]
               PROVE  j = k
    BY DEF Unique
  <2>1. CASE j <= Len(p) /\ k <= Len(p)
    BY <1>1, <1>3, <2>1 DEF Unique
  <2>2. CASE j > Len(p) /\ k > Len(p)
    BY <1>1, <1>3, <2>2 DEF Unique
  <2>3. CASE j <= Len(p) /\ k > Len(p)
    <3>1. p[j] \in Elements(p) /\ q[k - Len(p)] \in Elements(q)
      BY <1>1, <2>3 DEF Elements
    <3> QED
      BY <1>1, <1>3, <2>3, <3>1
  <2>4. CASE j > Len(p) /\ k <= Len(p)
    <3>1. p[k] \in Elements(p) /\ q[j - Len(p)] \in Elements(q)
      BY <1>1, <2>4 DEF Elements
    <3> QED
      BY <1>1, <1>3, <2>4, <3>1
  <2> QED
    BY <1>1, <2>1, <2>2, <2>3, <2>4
<1> QED
  BY <1>1, <1>2, <1>3
------------------------------------------------------------------------------
\* A session has an item in hand from the pop to the end of complete().
HandOK ==
  \A s \in Sessions : hand[s] # None <=> pc[s] \in {"setex", "work", "lrem", "del"}

TypeInv == TypeOK /\ HandOK

LEMMA TypeInvInductive ==
  ASSUME TypeInv, [Next]_vars
  PROVE  TypeInv'
<1> USE DEF TypeInv, TypeOK, HandOK, PCs, Goto
<1>1. CASE Populate
  <2>1. Batches[queued + 1] \in Seq(Items) /\ queued + 1 \in 0..Len(Batches)
    BY <1>1, BatchesAssumption DEF Populate
  <2>2. main' \in Seq(Items)
    BY <1>1, <2>1, PushLemma DEF Populate
  <2> QED
    BY <1>1, <2>1, <2>2 DEF Populate
<1>2. ASSUME NEW i \in Items, Expire(i)
      PROVE  TypeInv'
  BY <1>2 DEF Expire
<1>3. ASSUME NEW s \in Sessions, Pop(s)
      PROVE  TypeInv'
  <2>1. Len(main) \in Nat /\ Len(main) > 0
    BY <1>3 DEF Pop
  <2>2. main[Len(main)] \in Items /\ \A k \in 1..Len(main) - 1 : main[k] \in Items
    BY <2>1
  <2>3. SubSeq(main, 1, Len(main) - 1) \in Seq(Items)
    <3>1. 1 \in Int /\ Len(main) - 1 \in Int
      BY <2>1
    <3> QED
      BY <2>2, <3>1, SubSeqProperties
  <2> QED
    BY <1>3, <2>2, <2>3, NoneAssumption DEF Pop
<1>4. ASSUME NEW s \in Sessions, Start(s) \/ LLenMain(s) \/ LLenProcessing(s)
      PROVE  TypeInv'
  <2>1. \A k \in 1..queued : Batches[k] \in Seq(Items)
    BY BatchesAssumption
  <2>2. QueuedItems \subseteq Items
    BY <2>1 DEF QueuedItems, Elements
  <2> QED
    BY <1>4, <2>2 DEF Start, LLenMain, LLenProcessing
<1>5. ASSUME NEW s \in Sessions, PopTimeout(s) \/ Work(s) \/ Die(s) \/ Raise(s)
      PROVE  TypeInv'
  BY <1>5 DEF PopTimeout, Work, Die, Raise, Gone
<1>6. ASSUME NEW s \in Sessions, SetLease(s) \/ LRem(s) \/ Del(s)
      PROVE  TypeInv'
  BY <1>6 DEF SetLease, LRem, Del
<1>7. CASE UNCHANGED vars
  BY <1>7 DEF vars
<1> QED
  BY <1>1, <1>2, <1>3, <1>4, <1>5, <1>6, <1>7 DEF Next, Step

\* The variables of RedisWQ keep their types, whatever the batches are.
THEOREM TypeCorrect == Spec => []TypeOK
<1>1. Init => TypeInv
  BY DEF Init, TypeInv, TypeOK, HandOK, PCs
<1>2. TypeInv /\ [Next]_vars => TypeInv'
  BY TypeInvInductive
<1>3. TypeInv => TypeOK
  BY DEF TypeInv
<1> QED
  BY <1>1, <1>2, <1>3, PTL DEF Spec
------------------------------------------------------------------------------
(***************************************************************************)
(* The inductive invariant.  NothingLost alone is not inductive: LREM      *)
(* keeps it only if the item in hand is still in processing, which needs   *)
(* that no two sessions have the same item in hand (HandUnique).  What a   *)
(* lease key may hold, and what the reads of empty() have seen, follow the *)
(* items through the same steps.                                           *)
(***************************************************************************)
HandUnique ==
  \A s, t \in Sessions : (hand[s] # None /\ hand[s] = hand[t]) => s = t

HandPlaced ==
  \A s \in Sessions :
     /\ pc[s] \in {"setex", "work", "lrem"} => hand[s] \in processing
     /\ pc[s] = "del" => hand[s] \in removed

LeaseOK ==
  \A i \in Items : lease[i] # None =>
     /\ i \in processing \cup removed
     /\ hand[lease[i]] = i \/ pc[lease[i]] \in {"failed", "dead"}
     /\ \A s \in Sessions : hand[s] = i => s = lease[i]

SeenOK ==
  \A s \in Sessions :
     /\ seen[s] \subseteq QueuedItems
     /\ pc[s] = "llenProcessing" => seen[s] \cap Elements(main) = {}
     /\ pc[s] = "exited" => seen[s] \subseteq removed

IInv == TypeInv /\ NothingLost /\ HandUnique /\ HandPlaced /\ LeaseOK /\ SeenOK

LEMMA InitIInv == Init => IInv
<1> SUFFICES ASSUME Init PROVE IInv
  OBVIOUS
<1> USE DEF Init
<1>1. TypeInv
  BY DEF TypeInv, TypeOK, HandOK, PCs
<1>2. Elements(main) = {} /\ QueuedItems = {} /\ Unique(main)
  BY DEF Elements, QueuedItems, Unique
<1>3. NothingLost
  BY <1>2 DEF NothingLost
<1>4. HandUnique /\ HandPlaced /\ LeaseOK /\ SeenOK
  BY <1>2 DEF HandUnique, HandPlaced, LeaseOK, SeenOK
<1> QED
  BY <1>1, <1>3, <1>4 DEF IInv

\* A batch that has not been pushed shares no item with those that have.
LEMMA FreshBatch ==
  ASSUME UniqueItems, TypeInv, Populate
  PROVE  /\ Batches[queued + 1] \in Seq(Items)
         /\ Unique(Batches[queued + 1])
         /\ Elements(Batches[queued + 1]) \cap QueuedItems = {}
         /\ QueuedItems' = QueuedItems \cup Elements(Batches[queued + 1])
<1>1. /\ queued \in Nat /\ Len(Batches) \in Nat
      /\ queued + 1 \in 1..Len(Batches)
      /\ queued' = queued + 1
  BY BatchesAssumption DEF TypeInv, TypeOK, Populate
<1>2. Batches[queued + 1] \in Seq(Items) /\ Unique(Batches[queued + 1])
  BY <1>1, BatchesAssumption
<1>3. ASSUME NEW x \in Elements(Batches[queued + 1]), x \in QueuedItems
      PROVE  FALSE
  <2>1. PICK k \in 1..queued : x \in Elements(Batches[k])
    BY <1>3 DEF QueuedItems
  <2>2. k \in 1..Len(Batches) /\ k # queued + 1
    BY <1>1
  <2> QED
    BY <1>1, <1>3, <2>1, <2>2 DEF UniqueItems
<1>4. QueuedItems' = QueuedItems \cup Elements(Batches[queued + 1])
  <2>1. 1..(queued + 1) = (1..queued) \cup {queued + 1}
    BY <1>1
  <2>2. QueuedItems' = UNION {Elements(Batches[k]) : k \in 1..(queued + 1)}
    BY <1>1 DEF QueuedItems
  <2> QED
    BY <2>1, <2>2 DEF QueuedItems
<1> QED
  BY <1>2, <1>3, <1>4

LEMMA PopulateIInv ==
  ASSUME UniqueItems, IInv, Populate
  PROVE  IInv'
<1> DEFINE b == Batches[queued + 1]
<1>1. TypeInv'
  BY TypeInvInductive DEF IInv, Next
<1>2. /\ b \in Seq(Items) /\ Unique(b)
      /\ Elements(b) \cap QueuedItems = {}
      /\ QueuedItems' = QueuedItems \cup Elements(b)
  BY FreshBatch DEF IInv
<1>3. main \in Seq(Items) /\ main' = main \o b
  BY DEF IInv, TypeInv, TypeOK, Populate
<1> HIDE DEF b
<1>4. Elements(main \o b) = Elements(main) \cup Elements(b)
  BY <1>2, <1>3, PushLemma
<1>5. Unique(main \o b)
  BY <1>2, <1>3, PushLemma DEF IInv, NothingLost
<1>6. Elements(main)' = Elements(main) \cup Elements(b) /\ Unique(main)'
  BY <1>3, <1>4, <1>5 DEF Elements, Unique
<1>7. NothingLost'
  BY <1>2, <1>6 DEF IInv, NothingLost, Populate
<1>8. HandUnique' /\ HandPlaced' /\ LeaseOK'
  BY DEF IInv, HandUnique, HandPlaced, LeaseOK, Populate
<1>9. SeenOK'
  BY <1>2, <1>6 DEF IInv, SeenOK, Populate
<1> QED
  BY <1>1, <1>7, <1>8, <1>9 DEF IInv

LEMMA PopIInv ==
  ASSUME IInv, NEW s \in Sessions, Pop(s)
  PROVE  IInv'
<1> DEFINE item == main[Len(main)]
<1>1. TypeInv'
  BY TypeInvInductive DEF IInv, Next, Step
<1>2. main \in Seq(Items) /\ main # <<>> /\ Unique(main)
  BY DEF IInv, TypeInv, TypeOK, NothingLost, Pop
<1>3. /\ Unique(main')
      /\ item \in Elements(main)
      /\ Elements(main') = Elements(main) \ {item}
      /\ item \in Items
  <2>1. main' = SubSeq(main, 1, Len(main) - 1)
    BY DEF Pop
  <2>2. /\ Unique(SubSeq(main, 1, Len(main) - 1))
        /\ item \in Elements(main)
        /\ Elements(SubSeq(main, 1, Len(main) - 1)) = Elements(main) \ {item}
    BY <1>2, PopLemma
  <2>3. item \in Items
    BY <1>2, <2>2 DEF Elements
  <2> QED
    BY <2>1, <2>2, <2>3
<1>4. /\ processing' = processing \cup {item}
      /\ hand' = [hand EXCEPT ![s] = item]
      /\ pc' = [pc EXCEPT ![s] = "setex"]
      /\ UNCHANGED <<lease, queued, removed, seen, QueuedItems>>
  BY DEF Pop, Goto, QueuedItems
<1> HIDE DEF item
<1>5. Elements(main)' = Elements(main) \ {item} /\ Unique(main)'
  BY <1>3 DEF Elements, Unique
<1>6. item \notin processing /\ item \notin removed
  BY <1>3 DEF IInv, NothingLost
<1>7. \A t \in Sessions : hand[t] # item
  BY <1>3, <1>6, NoneAssumption DEF IInv, TypeInv, TypeOK, HandOK, HandPlaced
<1> USE DEF IInv, TypeInv, TypeOK
<1>8. NothingLost'
  BY <1>3, <1>4, <1>5, <1>6 DEF NothingLost
<1>9. HandUnique'
  BY <1>4, <1>7 DEF HandUnique
<1>10. HandPlaced'
  BY <1>4 DEF HandPlaced
<1>11. LeaseOK'
  <2>1. hand[s] = None /\ pc[s] = "pop"
    BY DEF Pop, HandOK
  <2> QED
    BY <1>3, <1>4, <1>6, <1>7, <2>1, NoneAssumption DEF LeaseOK
<1>12. SeenOK'
  BY <1>4, <1>5 DEF SeenOK
<1> QED
  BY <1>1, <1>8, <1>9, <1>10, <1>11, <1>12

LEMMA LRemIInv ==
  ASSUME IInv, NEW s \in Sessions, LRem(s)
  PROVE  IInv'
<1>1. TypeInv'
  BY TypeInvInductive DEF IInv, Next, Step
<1> USE DEF IInv, TypeInv, TypeOK, LRem, Goto
<1>2. hand[s] \in processing /\ hand[s] # None
  BY DEF HandPlaced, HandOK
<1>3. UNCHANGED <<QueuedItems, Elements(main), Unique(main)>>
  BY DEF QueuedItems, Elements, Unique
<1>4. NothingLost'
  BY <1>2, <1>3 DEF NothingLost
<1>5. HandUnique' /\ HandPlaced'
  BY <1>2 DEF HandUnique, HandPlaced, HandOK
<1>6. LeaseOK'
  BY DEF LeaseOK
<1>7. SeenOK'
  BY <1>3 DEF SeenOK
<1> QED
  BY <1>1, <1>4, <1>5, <1>6, <1>7

LEMMA EmptyIInv ==
  ASSUME IInv, NEW s \in Sessions, LLenMain(s) \/ LLenProcessing(s)
  PROVE  IInv'
<1>1. TypeInv'
  BY TypeInvInductive DEF IInv, Next, Step
<1> USE DEF IInv, TypeInv, TypeOK, LLenMain, LLenProcessing, Goto
<1>2. UNCHANGED <<QueuedItems, Elements(main), Unique(main)>>
  BY DEF QueuedItems, Elements, Unique
<1>3. NothingLost'
  BY <1>2 DEF NothingLost
<1>4. HandUnique' /\ HandPlaced'
  BY DEF HandUnique, HandPlaced
<1>5. LeaseOK'
  BY DEF LeaseOK
<1>6. main = <<>> => Elements(main) = {}
  BY DEF Elements
<1>7. SeenOK'
  <2>1. CASE LLenMain(s)
    BY <1>2, <1>6, <2>1 DEF SeenOK
  <2>2. CASE LLenProcessing(s)
    BY <1>2, <2>2 DEF SeenOK, NothingLost
  <2> QED
    BY <2>1, <2>2
<1> QED
  BY <1>1, <1>3, <1>4, <1>5, <1>7

\* The steps that leave main, processing, removed and seen alone.
LEMMA OtherIInv ==
  ASSUME IInv, NEW s \in Sessions,
         Start(s) \/ PopTimeout(s) \/ SetLease(s) \/ Work(s) \/ Del(s) \/ Die(s) \/ Raise(s)
  PROVE  IInv'
<1>1. TypeInv'
  BY TypeInvInductive DEF IInv, Next, Step
<1> USE DEF IInv, TypeInv, TypeOK, Start, PopTimeout, SetLease, Work, Del, Die, Raise,
            Gone, Goto
<1>2. UNCHANGED <<QueuedItems, Elements(main), Unique(main)>>
  BY DEF QueuedItems, Elements, Unique
<1>3. NothingLost'
  BY <1>2 DEF NothingLost
<1>4. HandUnique' /\ HandPlaced'
  BY DEF HandUnique, HandPlaced
<1>5. LeaseOK'
  <2>1. CASE SetLease(s)
    BY <2>1, NoneAssumption DEF LeaseOK, HandOK, HandUnique, HandPlaced
  <2>2. CASE Del(s)
    BY <2>2, NoneAssumption DEF LeaseOK, HandOK
  <2>3. CASE Start(s) \/ PopTimeout(s) \/ Work(s)
    BY <2>3 DEF LeaseOK
  <2>4. CASE Die(s) \/ Raise(s)
    BY <2>4, NoneAssumption DEF LeaseOK
  <2> QED
    BY <2>1, <2>2, <2>3, <2>4
<1>6. SeenOK'
  BY <1>2 DEF SeenOK
<1> QED
  BY <1>1, <1>3, <1>4, <1>5, <1>6

LEMMA ExpireIInv ==
  ASSUME IInv, NEW i \in Items, Expire(i)
  PROVE  IInv'
<1>1. TypeInv'
  BY TypeInvInductive DEF IInv, Next
<1> USE DEF IInv, TypeInv, TypeOK, Expire
<1>2. UNCHANGED <<QueuedItems, Elements(main), Unique(main)>>
  BY DEF QueuedItems, Elements, Unique
<1>3. NothingLost' /\ HandUnique' /\ HandPlaced' /\ LeaseOK' /\ SeenOK'
  BY <1>2 DEF NothingLost, HandUnique, HandPlaced, LeaseOK, SeenOK
<1> QED
  BY <1>1, <1>3

LEMMA NextIInv ==
  ASSUME UniqueItems, IInv, [Next]_vars
  PROVE  IInv'
<1>1. CASE UNCHANGED vars
  BY <1>1 DEF vars, IInv, TypeInv, TypeOK, HandOK, NothingLost, HandUnique, HandPlaced,
              LeaseOK, SeenOK, QueuedItems, Elements, Unique
<1>2. CASE Next
  BY <1>2, PopulateIInv, PopIInv, LRemIInv, EmptyIInv, OtherIInv, ExpireIInv DEF Next, Step
<1> QED
  BY <1>1, <1>2

LEMMA Invariance ==
  ASSUME UniqueItems
  PROVE  Spec => []IInv
<1>1. IInv /\ [Next]_vars => IInv'
  BY NextIInv
<1> QED
  BY InitIInv, <1>1, PTL DEF Spec

\* For any number of workers and batches of distinct files, no interleaving of the
\* Redis commands and no death of a worker loses or doubles an item.
THEOREM NothingIsLost ==
  ASSUME UniqueItems
  PROVE  Spec => []NothingLost
<1>1. IInv => NothingLost
  BY DEF IInv
<1> QED
  BY <1>1, Invariance, PTL

\* An item is never worked on by two sessions, and complete() never deletes the lease of
\* another session.
THEOREM MutualExclusion ==
  ASSUME UniqueItems
  PROVE  Spec => []OneHolder
<1>1. IInv => OneHolder
  BY NoneAssumption DEF IInv, TypeInv, TypeOK, HandOK, LeaseOK, DeletesOwnLease, OneHolder, Holds,
     HandUnique, HandPlaced
<1> QED
  BY <1>1, Invariance, PTL

\* When empty() ends a worker's loop, all that was queued before it is completed.
THEOREM TruthfulEmpty ==
  ASSUME UniqueItems
  PROVE  Spec => []EmptyIsTruthful
<1>1. IInv => EmptyIsTruthful
  BY DEF IInv, SeenOK, EmptyIsTruthful
<1> QED
  BY <1>1, Invariance, PTL

\* A lease that is left over is that of a session that died.
THEOREM LeasesAreOwn ==
  ASSUME UniqueItems
  PROVE  Spec => []NoStaleLease
<1>1. IInv => NoStaleLease
  BY NoneAssumption DEF IInv, LeaseOK, NoStaleLease
<1> QED
  BY <1>1, Invariance, PTL

------------------------------------------------------------------------------
(***************************************************************************)
(* RedisWQ implements the safety half of WorkQueue: under the mapping of   *)
(* ItemStatus and ItemHolders every step is a step of WorkQueue, or        *)
(* changes nothing there.                                                  *)
(***************************************************************************)

\* Steps that move no item and change no holder.
LEMMA StutterStep ==
  ASSUME TypeInv, UNCHANGED <<main, processing, removed>>,
         \A s \in Sessions, i \in Items : Holds(s, i)' <=> Holds(s, i)
  PROVE  UNCHANGED <<ItemStatus, ItemHolders>>
<1>1. Elements(main)' = Elements(main)
  BY DEF Elements
<1>2. ItemStatus' = ItemStatus
  BY <1>1 DEF ItemStatus
<1>3. ItemHolders' = ItemHolders
  BY DEF ItemHolders
<1> QED
  BY <1>2, <1>3

LEMMA QuietSteps ==
  ASSUME TypeInv,
         \/ UNCHANGED vars
         \/ \E i \in Items : Expire(i)
         \/ \E s \in Sessions :
              \/ Start(s) \/ LLenMain(s) \/ LLenProcessing(s) \/ PopTimeout(s)
              \/ SetLease(s) \/ Work(s) \/ Del(s)
  PROVE  UNCHANGED <<ItemStatus, ItemHolders>>
<1> USE DEF Holds
<1>1. CASE UNCHANGED vars
  BY <1>1, StutterStep DEF vars
<1>2. CASE \E i \in Items : Expire(i)
  BY <1>2, StutterStep DEF Expire
<1>3. ASSUME NEW s \in Sessions,
             \/ Start(s) \/ LLenMain(s) \/ LLenProcessing(s) \/ PopTimeout(s)
             \/ SetLease(s) \/ Work(s) \/ Del(s)
      PROVE  UNCHANGED <<ItemStatus, ItemHolders>>
  <2>1. UNCHANGED <<main, processing, removed>>
    BY <1>3 DEF Start, LLenMain, LLenProcessing, PopTimeout, SetLease, Work, Del
  <2>2. \A t \in Sessions, i \in Items : Holds(t, i)' <=> Holds(t, i)
    BY <1>3, NoneAssumption DEF TypeInv, TypeOK, HandOK, Goto,
       Start, LLenMain, LLenProcessing, PopTimeout, SetLease, Work, Del
  <2> QED
    BY <2>1, <2>2, StutterStep
<1> QED
  BY <1>1, <1>2, <1>3

LEMMA PopulateAdds ==
  ASSUME UniqueItems, IInv, Populate
  PROVE  WQ!Next
<1> DEFINE b == Batches[queued + 1]
<1>1. /\ b \in Seq(Items)
      /\ Elements(b) \cap QueuedItems = {}
  BY FreshBatch DEF IInv
<1>2. main' = main \o b /\ main \in Seq(Items)
  BY DEF Populate, IInv, TypeInv, TypeOK
<1> HIDE DEF b
<1>3. Elements(main)' = Elements(main) \cup Elements(b)
  <2>1. Elements(main \o b) = Elements(main) \cup Elements(b)
    BY <1>1, <1>2, PushLemma
  <2> QED
    BY <1>2, <2>1 DEF Elements
<1>4. Elements(b) \in SUBSET Items
  BY <1>1 DEF Elements
<1>5. \A i \in Elements(b) : i \notin Elements(main) \cup processing \cup removed
  BY <1>1 DEF IInv, NothingLost
<1>6. WQ!Add(Elements(b))
  <2>1. \A i \in Elements(b) : ItemStatus[i] = "absent"
    BY <1>4, <1>5 DEF ItemStatus
  <2>2. ItemStatus' = [i \in Items |-> IF i \in Elements(b) THEN "waiting" ELSE ItemStatus[i]]
    BY <1>3 DEF ItemStatus, Populate
  <2>3. ItemHolders' = ItemHolders
    BY DEF ItemHolders, Holds, Populate
  <2> QED
    BY <2>1, <2>2, <2>3 DEF WQ!Add
<1> QED
  BY <1>4, <1>6 DEF WQ!Next

LEMMA PopClaims ==
  ASSUME IInv, NEW s \in Sessions, Pop(s)
  PROVE  WQ!Next
<1> DEFINE item == main[Len(main)]
<1>1. /\ processing' = processing \cup {item}
      /\ hand' = [hand EXCEPT ![s] = item]
      /\ pc' = [pc EXCEPT ![s] = "setex"]
      /\ removed' = removed
  BY DEF Pop, Goto
<1>2. main \in Seq(Items) /\ main # <<>> /\ Unique(main)
  BY DEF IInv, TypeInv, TypeOK, NothingLost, Pop
<1>3. /\ item \in Elements(main)
      /\ Elements(SubSeq(main, 1, Len(main) - 1)) = Elements(main) \ {item}
  BY <1>2, PopLemma
<1>4. Elements(main)' = Elements(main) \ {item}
  BY <1>3 DEF Pop, Elements
<1>5. item \in Items
  BY <1>2, <1>3 DEF Elements
<1> HIDE DEF item
<1>6. item \notin processing
  BY <1>3 DEF IInv, NothingLost
<1>7. ItemStatus[item] = "waiting"
  BY <1>3, <1>5 DEF ItemStatus
<1>8. ItemStatus' = [ItemStatus EXCEPT ![item] = "claimed"]
  BY <1>1, <1>3, <1>4, <1>5 DEF ItemStatus
<1>9. ItemHolders' = [ItemHolders EXCEPT ![item] = {s}]
  <2>1. \A t \in Sessions : ~Holds(t, item)
    BY <1>6 DEF IInv, HandPlaced, Holds
  <2>2. ASSUME NEW t \in Sessions, NEW i \in Items
        PROVE  Holds(t, i)' <=> IF i = item THEN t = s ELSE Holds(t, i)
    <3>1. hand[s] = None /\ pc[s] = "pop"
      BY DEF IInv, TypeInv, HandOK, Pop
    <3> QED
      BY <1>1, <1>5, <2>1, <3>1, NoneAssumption DEF IInv, TypeInv, TypeOK, Holds
  <2>3. ASSUME NEW i \in Items
        PROVE  {t \in Sessions : Holds(t, i)'} =
                 IF i = item THEN {s} ELSE {t \in Sessions : Holds(t, i)}
    BY <2>2
  <2> QED
    BY <1>5, <2>3 DEF ItemHolders
<1> QED
  BY <1>5, <1>7, <1>8, <1>9 DEF WQ!Next, WQ!Claim

\* Who holds the item of a session that holds one.
LEMMA OnlyHolder ==
  ASSUME IInv, NEW s \in Sessions, pc[s] \in {"setex", "work", "lrem"}
  PROVE  /\ hand[s] \in Items
         /\ ItemHolders[hand[s]] = {s}
         /\ ItemStatus[hand[s]] = "claimed"
<1>1. hand[s] \in Items /\ hand[s] \in processing
  BY DEF IInv, TypeInv, TypeOK, HandOK, HandPlaced
<1>2. \A t \in Sessions : Holds(t, hand[s]) <=> t = s
  BY <1>1, NoneAssumption DEF IInv, HandUnique, Holds
<1>3. ItemStatus[hand[s]] = "claimed"
  BY <1>1 DEF ItemStatus, IInv, NothingLost
<1> QED
  BY <1>1, <1>2, <1>3 DEF ItemHolders

\* What happens to the holders when s lets go of its item.
LEMMA LetGo ==
  ASSUME IInv, NEW s \in Sessions, pc[s] \in {"setex", "work", "lrem"},
         \A t \in Sessions, i \in Items : Holds(t, i)' <=> (t # s /\ Holds(t, i))
  PROVE  ItemHolders' = [ItemHolders EXCEPT ![hand[s]] = {}]
<1>1. hand[s] \in Items /\ \A t \in Sessions : Holds(t, hand[s]) <=> t = s
  BY OnlyHolder DEF ItemHolders
<1>2. \A i \in Items : i # hand[s] => ~Holds(s, i)
  BY DEF Holds
<1>3. ASSUME NEW i \in Items
      PROVE  {t \in Sessions : Holds(t, i)'} =
               IF i = hand[s] THEN {} ELSE {t \in Sessions : Holds(t, i)}
  BY <1>1, <1>2
<1> QED
  BY <1>1, <1>3 DEF ItemHolders

LEMMA LRemFinishes ==
  ASSUME IInv, NEW s \in Sessions, LRem(s)
  PROVE  WQ!Next
<1>1. /\ hand[s] \in Items
      /\ ItemHolders[hand[s]] = {s}
      /\ ItemStatus[hand[s]] = "claimed"
  BY OnlyHolder DEF LRem
<1>2. \A t \in Sessions, i \in Items : Holds(t, i)' <=> (t # s /\ Holds(t, i))
  BY DEF IInv, TypeInv, TypeOK, LRem, Goto, Holds
<1>3. ItemHolders' = [ItemHolders EXCEPT ![hand[s]] = {}]
  BY <1>2, LetGo DEF LRem
<1>4. Elements(main)' = Elements(main)
  BY DEF Elements, LRem
<1>5. hand[s] \notin Elements(main)
  BY <1>1 DEF ItemStatus
<1>6. ItemStatus' = [ItemStatus EXCEPT ![hand[s]] = "done"]
  BY <1>1, <1>4, <1>5 DEF ItemStatus, LRem
<1> QED
  BY <1>1, <1>3, <1>6 DEF WQ!Next, WQ!Finish

LEMMA EndOfSession ==
  ASSUME IInv, NEW s \in Sessions, Die(s) \/ Raise(s)
  PROVE  WQ!Next \/ UNCHANGED <<ItemStatus, ItemHolders>>
<1>1. UNCHANGED <<main, processing, removed>>
  BY DEF Die, Raise, Gone
<1>2. \A t \in Sessions, i \in Items : Holds(t, i)' <=> (t # s /\ Holds(t, i))
  BY NoneAssumption DEF IInv, TypeInv, TypeOK, Die, Raise, Gone, Goto, Holds
<1>3. CASE pc[s] \in {"setex", "work", "lrem"}
  <2>1. hand[s] \in Items /\ ItemHolders[hand[s]] = {s}
    BY <1>3, OnlyHolder
  <2>2. ItemHolders' = [ItemHolders EXCEPT ![hand[s]] = {}]
    BY <1>2, <1>3, LetGo
  <2>3. ItemStatus' = ItemStatus
    BY <1>1 DEF ItemStatus, Elements
  <2> QED
    BY <2>1, <2>2, <2>3 DEF WQ!Next, WQ!Abandon
<1>4. CASE pc[s] \notin {"setex", "work", "lrem"}
  BY <1>1, <1>2, <1>4, StutterStep DEF IInv, Holds
<1> QED
  BY <1>3, <1>4

\* For any number of workers, RedisWQ keeps what WorkQueue promises, except that
\* nothing ever takes its step Return.
THEOREM Refinement ==
  ASSUME UniqueItems
  PROVE  Spec => RefinesWorkQueue
<1>1. Init => WQ!Init
  BY NoneAssumption DEF Init, WQ!Init, ItemStatus, ItemHolders, Holds, Elements
<1>2. IInv /\ [Next]_vars => [WQ!Next]_<<ItemStatus, ItemHolders>>
  <2> SUFFICES ASSUME IInv, [Next]_vars
               PROVE  WQ!Next \/ UNCHANGED <<ItemStatus, ItemHolders>>
    OBVIOUS
  <2>1. CASE Populate
    BY <2>1, PopulateAdds
  <2>2. ASSUME NEW s \in Sessions, Pop(s)
        PROVE  WQ!Next
    BY <2>2, PopClaims
  <2>3. ASSUME NEW s \in Sessions, LRem(s)
        PROVE  WQ!Next
    BY <2>3, LRemFinishes
  <2>4. ASSUME NEW s \in Sessions, Die(s) \/ Raise(s)
        PROVE  WQ!Next \/ UNCHANGED <<ItemStatus, ItemHolders>>
    BY <2>4, EndOfSession
  <2>5. CASE \/ UNCHANGED vars
             \/ \E i \in Items : Expire(i)
             \/ \E s \in Sessions :
                  \/ Start(s) \/ LLenMain(s) \/ LLenProcessing(s) \/ PopTimeout(s)
                  \/ SetLease(s) \/ Work(s) \/ Del(s)
    BY <2>5, QuietSteps DEF IInv
  <2> QED
    BY <2>1, <2>2, <2>3, <2>4, <2>5 DEF Next, Step
<1> QED
  BY <1>1, <1>2, Invariance, PTL DEF Spec, RefinesWorkQueue, WQ!SafeSpec, WQ!vars

------------------------------------------------------------------------------
(* The workload.                                                             *)

\* Every step of the workload is a step of the queue, or one it does not notice.
LEMMA BWStepIsQueueStep ==
  ASSUME [BWNext]_bwVars
  PROVE  [Next]_vars
<1> USE DEF BWNext, bwVars, WorkStep, QueueStep, Stage, Fails, Finished, Next, Step
<1>1. CASE UNCHANGED bwVars
  BY <1>1
<1>2. ASSUME NEW s \in Sessions, WorkStep(s)
      PROVE  [Next]_vars
  BY <1>2 DEF InitModel, InitModelFails, Fit, MakeDirs, MakeDirsFails, OpenCheckpoint,
              DumpCheckpoint, Report
<1>3. ASSUME NEW s \in Sessions, QueueStep(s) \/ Start(s) \/ Die(s)
      PROVE  [Next]_vars
  BY <1>3
<1>4. CASE Populate \/ \E i \in Items : Expire(i)
  BY <1>4
<1> QED
  BY <1>1, <1>2, <1>3, <1>4

\* The batch workload implements the queue as RedisWQ specifies it, for any number
\* of workers and any batches.
THEOREM WorkloadUsesQueue == BWSpec => Spec
<1>1. BWInit => Init
  BY DEF BWInit
<1>2. [BWNext]_bwVars => [Next]_vars
  BY BWStepIsQueueStep
<1> QED
  BY <1>1, <1>2, PTL DEF BWSpec, Spec

------------------------------------------------------------------------------
(***************************************************************************)
(* How far the work on the item of session s has got, as its checkpoint    *)
(* file and the report show it.                                            *)
(***************************************************************************)
Untouched(i) == files[i] = Absent /\ reports[i] = <<>>

\* An item that no session has popped has left no trace.
UnpoppedUntouched ==
  \A i \in Items : i \notin processing \cup removed => Untouched(i)

\* A session works only in state "work"; stages of the dead do not matter.
StageOK ==
  \A s \in Sessions :
     pc[s] \notin {"work", "failed", "dead"} => stage[s] = "init"

WorkDone(s, i) ==
  /\ pc[s] = "setex" => Untouched(i)
  /\ pc[s] = "work" =>
       /\ stage[s] \in {"init", "fit", "makedirs", "open"} => Untouched(i)
       /\ stage[s] \in {"makedirs", "open", "dump", "report", "finished"} => i \in model[s]
       /\ stage[s] \in {"dump", "report"} => reports[i] = <<>>
       /\ stage[s] \in {"report", "finished"} => files[i] = Saved(model[s])
       /\ stage[s] = "finished" => reports[i] = <<model[s]>>
  /\ pc[s] = "lrem" =>
       /\ i \in model[s]
       /\ files[i] = Saved(model[s])
       /\ reports[i] = <<model[s]>>

HeldWork == \A s \in Sessions, i \in Items : hand[s] = i => WorkDone(s, i)

\* What has been removed is as the worker left it at the end of its work.
RemovedSaved ==
  \A i \in removed :
     \E m \in SUBSET Items : /\ i \in m
                             /\ files[i] = Saved(m)
                             /\ reports[i] = <<m>>

WorkInv == FileTypeOK /\ UnpoppedUntouched /\ StageOK /\ HeldWork /\ RemovedSaved

LEMMA InitWorkInv == BWInit => WorkInv
<1> SUFFICES ASSUME BWInit PROVE WorkInv
  OBVIOUS
<1>1. TypeOK
  BY InitIInv DEF BWInit, IInv, TypeInv
<1>2. FileTypeOK
  BY <1>1 DEF BWInit, FileTypeOK, Stages, Absent
<1>3. UnpoppedUntouched /\ StageOK /\ HeldWork /\ RemovedSaved
  BY NoneAssumption
     DEF BWInit, Init, UnpoppedUntouched, Untouched, StageOK, HeldWork, WorkDone, RemovedSaved
<1> QED
  BY <1>2, <1>3 DEF WorkInv

\* The steps of the work itself change one session's stage and one item's traces.
LEMMA StageStep ==
  ASSUME IInv, WorkInv, NEW s \in Sessions,
         \/ InitModel(s) \/ Fit(s) \/ MakeDirs(s)
         \/ OpenCheckpoint(s) \/ DumpCheckpoint(s) \/ Report(s)
  PROVE  WorkInv'
<1> DEFINE i == hand[s]
<1>1. /\ pc[s] = "work"
      /\ UNCHANGED vars
      /\ i \in Items /\ i \in processing /\ i \notin removed
      /\ \A t \in Sessions : hand[t] = i => t = s
  BY DEF IInv, TypeInv, TypeOK, HandOK, HandPlaced, HandUnique, NothingLost,
         InitModel, Fit, MakeDirs, OpenCheckpoint, DumpCheckpoint, Report, Stage
<1>2. FileTypeOK
  BY DEF WorkInv
<1>3. /\ stage \in [Sessions -> Stages]
      /\ checkpoint \in [Sessions -> Items \cup {None}]
      /\ model \in [Sessions -> SUBSET Items]
      /\ outputDir \in BOOLEAN
      /\ files \in [Items -> [state : {"absent", "truncated", "saved"}, model : SUBSET Items]]
      /\ reports \in [Items -> Seq(SUBSET Items)]
  BY <1>2 DEF FileTypeOK
<1>4. WorkDone(s, i)
  BY <1>1 DEF WorkInv, HeldWork
<1> USE DEF vars
<1> HIDE DEF i
<1>5. CASE InitModel(s) \/ Fit(s) \/ MakeDirs(s)
  <2>1. UNCHANGED <<files, reports>>
    BY <1>5 DEF InitModel, Fit, MakeDirs
  <2>2. stage' = [stage EXCEPT ![s] = stage'[s]] /\ model' = [model EXCEPT ![s] = model'[s]]
    BY <1>3, <1>5 DEF InitModel, Fit, MakeDirs, Stage
  <2>3. /\ stage[s] \in {"init", "fit", "makedirs"}
        /\ stage'[s] \in {"fit", "makedirs", "open"}
        /\ stage[s] = "init" => stage'[s] = "fit"
        /\ stage[s] # "init" => hand[s] \in model'[s]
        /\ model'[s] \subseteq Items
        /\ outputDir' \in BOOLEAN
        /\ checkpoint' = checkpoint
    <3>1. CASE InitModel(s)
      BY <1>1, <1>3, <3>1 DEF InitModel, Stage
    <3>2. CASE Fit(s)
      BY <1>1, <1>3, <3>2 DEF Fit, Stage, i
    <3>3. CASE MakeDirs(s)
      BY <1>1, <1>3, <1>4, <3>3 DEF MakeDirs, Stage, WorkDone, i
    <3> QED
      BY <1>5, <3>1, <3>2, <3>3
  <2>4. FileTypeOK'
    BY <1>1, <1>2, <1>3, <2>1, <2>2, <2>3 DEF FileTypeOK, TypeOK, Stages
  <2>5. UnpoppedUntouched' /\ RemovedSaved'
    BY <1>1, <2>1 DEF WorkInv, UnpoppedUntouched, Untouched, RemovedSaved
  <2>6. StageOK'
    BY <1>1, <1>3, <2>2 DEF WorkInv, StageOK
  <2>7. HeldWork'
    <3> SUFFICES ASSUME NEW t \in Sessions, NEW j \in Items, hand[t] = j
                 PROVE  WorkDone(t, j)'
      BY <1>1 DEF HeldWork
    <3>1. WorkDone(t, j)
      BY DEF WorkInv, HeldWork
    <3>2. CASE t = s
      BY <1>1, <1>3, <2>1, <2>2, <2>3, <3>1, <3>2 DEF WorkDone, Untouched
    <3>3. CASE t # s
      BY <1>1, <1>3, <2>1, <2>2, <3>1, <3>3 DEF WorkDone, Untouched
    <3> QED
      BY <3>2, <3>3
  <2> QED
    BY <2>4, <2>5, <2>6, <2>7 DEF WorkInv
<1>6. CASE OpenCheckpoint(s) \/ DumpCheckpoint(s) \/ Report(s)
  <2>1. /\ model' = model /\ outputDir' = outputDir
        /\ stage' = [stage EXCEPT ![s] = stage'[s]]
        /\ files' = [files EXCEPT ![i] = files'[i]]
        /\ reports' = [reports EXCEPT ![i] = reports'[i]]
    BY <1>1, <1>3, <1>6 DEF OpenCheckpoint, DumpCheckpoint, Report, Stage, i
  <2>2. \/ /\ stage'[s] = "dump"
           /\ reports'[i] = <<>>
           /\ files'[i] = Truncated
        \/ /\ stage'[s] = "report"
           /\ reports'[i] = <<>>
           /\ files'[i] = Saved(model[s])
        \/ /\ stage'[s] = "finished"
           /\ reports'[i] = <<model[s]>>
           /\ files'[i] = Saved(model[s])
    <3>1. CASE OpenCheckpoint(s)
      BY <1>1, <1>3, <1>4, <3>1 DEF OpenCheckpoint, Stage, WorkDone, Untouched, i
    <3>2. CASE DumpCheckpoint(s)
      BY <1>1, <1>3, <1>4, <3>2 DEF DumpCheckpoint, Stage, WorkDone, i
    <3>3. CASE Report(s)
      <4>1. /\ stage'[s] = "finished"
            /\ reports[i] = <<>> /\ reports'[i] = Append(<<>>, model[s])
            /\ files'[i] = Saved(model[s])
        BY <1>1, <1>3, <1>4, <3>3 DEF Report, Stage, WorkDone, i
      <4>2. Append(<<>>, model[s]) = <<model[s]>>
        OBVIOUS
      <4> QED
        BY <4>1, <4>2
    <3> QED
      BY <1>6, <3>1, <3>2, <3>3
  <2>3. i \in model[s] /\ model[s] \subseteq Items
    BY <1>1, <1>3, <1>4, <1>6 DEF OpenCheckpoint, DumpCheckpoint, Report, Stage, WorkDone
  <2>4. checkpoint' \in [Sessions -> Items \cup {None}]
    BY <1>1, <1>3, <1>6 DEF OpenCheckpoint, DumpCheckpoint, Report, i
  <2>5. /\ files'[i] \in [state : {"absent", "truncated", "saved"}, model : SUBSET Items]
        /\ reports'[i] \in Seq(SUBSET Items)
        /\ stage'[s] \in Stages
    <3>1. <<>> \in Seq(SUBSET Items) /\ <<model[s]>> \in Seq(SUBSET Items)
      BY <2>3
    <3>2. /\ Truncated \in [state : {"absent", "truncated", "saved"}, model : SUBSET Items]
          /\ Saved(model[s]) \in [state : {"absent", "truncated", "saved"}, model : SUBSET Items]
      BY <2>3 DEF Truncated, Saved
    <3> QED
      BY <2>2, <3>1, <3>2 DEF Stages
  <2>6. FileTypeOK'
    BY <1>1, <1>2, <1>3, <2>1, <2>4, <2>5 DEF FileTypeOK, TypeOK
  <2>7. UnpoppedUntouched' /\ RemovedSaved'
    <3>1. \A j \in Items : j # i => files'[j] = files[j] /\ reports'[j] = reports[j]
      BY <1>1, <1>3, <2>1
    <3>2. UnpoppedUntouched'
      BY <1>1, <3>1 DEF WorkInv, UnpoppedUntouched, Untouched
    <3>3. removed \subseteq Items
      BY DEF IInv, TypeInv, TypeOK
    <3>4. RemovedSaved'
      BY <1>1, <3>1, <3>3 DEF WorkInv, RemovedSaved
    <3> QED
      BY <3>2, <3>4
  <2>8. StageOK'
    BY <1>1, <1>3, <2>1 DEF WorkInv, StageOK
  <2>9. HeldWork'
    <3> SUFFICES ASSUME NEW t \in Sessions, NEW j \in Items, hand[t] = j
                 PROVE  WorkDone(t, j)'
      BY <1>1 DEF HeldWork
    <3>1. WorkDone(t, j)
      BY DEF WorkInv, HeldWork
    <3>2. CASE t = s
      BY <1>1, <1>3, <2>1, <2>2, <2>3, <3>2 DEF WorkDone, i
    <3>3. CASE t # s
      <4>1. j # i
        BY <1>1, <3>3
      <4> QED
        BY <1>1, <1>3, <2>1, <3>1, <3>3, <4>1 DEF WorkDone, Untouched
    <3> QED
      BY <3>2, <3>3
  <2> QED
    BY <2>6, <2>7, <2>8, <2>9 DEF WorkInv
<1> QED
  BY <1>5, <1>6

\* The end of the work on an item.
LEMMA FinishedStep ==
  ASSUME IInv, WorkInv, TypeInv', NEW s \in Sessions, Finished(s)
  PROVE  WorkInv'
<1>1. /\ pc[s] = "work" /\ pc' = [pc EXCEPT ![s] = "lrem"]
      /\ stage[s] = "finished" /\ stage' = [stage EXCEPT ![s] = "init"]
      /\ UNCHANGED <<processing, removed, hand, model, checkpoint, outputDir, files, reports>>
  BY DEF Finished, Work, Goto
<1>2. TypeOK /\ FileTypeOK
  BY DEF WorkInv, IInv, TypeInv
<1>3. FileTypeOK'
  BY <1>1, <1>2 DEF FileTypeOK, Stages, TypeInv
<1>4. UnpoppedUntouched' /\ RemovedSaved'
  BY <1>1 DEF WorkInv, UnpoppedUntouched, Untouched, RemovedSaved
<1>5. StageOK'
  BY <1>1, <1>2 DEF WorkInv, StageOK, FileTypeOK, TypeOK
<1>6. HeldWork'
  <2> SUFFICES ASSUME NEW t \in Sessions, NEW j \in Items, hand[t] = j
               PROVE  WorkDone(t, j)'
    BY <1>1 DEF HeldWork
  <2>1. WorkDone(t, j)
    BY DEF WorkInv, HeldWork
  <2> QED
    BY <1>1, <1>2, <2>1 DEF WorkDone, Untouched, FileTypeOK, TypeOK
<1> QED
  BY <1>3, <1>4, <1>5, <1>6 DEF WorkInv

\* The steps that touch no file and leave every item where it is.
LEMMA QuietQueueStep ==
  ASSUME IInv, WorkInv, TypeInv', NEW s \in Sessions, UNCHANGED workVars,
         \/ Start(s) \/ LLenMain(s) \/ LLenProcessing(s) \/ PopTimeout(s)
         \/ SetLease(s) \/ Del(s) \/ Die(s) \/ Raise(s)
  PROVE  WorkInv'
<1> USE DEF workVars
<1>1. UNCHANGED <<processing, removed>>
  BY DEF Start, LLenMain, LLenProcessing, PopTimeout, SetLease, Del, Die, Raise, Gone
<1>2. TypeOK /\ FileTypeOK
  BY DEF WorkInv, IInv, TypeInv
<1>3. FileTypeOK'
  BY <1>2 DEF FileTypeOK, TypeInv
<1>4. UnpoppedUntouched' /\ RemovedSaved'
  BY <1>1 DEF WorkInv, UnpoppedUntouched, Untouched, RemovedSaved
<1>5. StageOK'
  BY <1>2 DEF WorkInv, StageOK, TypeOK, Goto, Gone, Live,
     Start, LLenMain, LLenProcessing, PopTimeout, SetLease, Del, Die, Raise
<1>6. HeldWork'
  <2> SUFFICES ASSUME NEW t \in Sessions, NEW j \in Items, hand'[t] = j
               PROVE  WorkDone(t, j)'
    BY DEF HeldWork
  <2>1. hand[t] = j
    BY <1>2, NoneAssumption DEF TypeOK, Gone,
       Start, LLenMain, LLenProcessing, PopTimeout, SetLease, Del, Die, Raise
  <2>2. WorkDone(t, j)
    BY <2>1 DEF WorkInv, HeldWork
  <2>3. CASE SetLease(s) /\ t = s
    BY <1>2, <2>2, <2>3 DEF WorkInv, StageOK, WorkDone, Untouched, SetLease, Goto, TypeOK
  <2>4. CASE pc'[t] = pc[t]
    BY <2>2, <2>4 DEF WorkDone, Untouched
  <2>5. CASE pc'[t] \notin {"setex", "work", "lrem"}
    BY <2>5 DEF WorkDone
  <2>6. \/ SetLease(s) /\ t = s
        \/ pc'[t] = pc[t]
        \/ pc'[t] \notin {"setex", "work", "lrem"}
    BY <1>2 DEF TypeOK, Gone, Goto,
       Start, LLenMain, LLenProcessing, PopTimeout, SetLease, Del, Die, Raise
  <2> QED
    BY <2>3, <2>4, <2>5, <2>6
<1> QED
  BY <1>3, <1>4, <1>5, <1>6 DEF WorkInv

\* A batch is pushed, or a lease expires: nothing is worked on.
LEMMA EnvironmentStep ==
  ASSUME IInv, WorkInv, TypeInv', UNCHANGED workVars,
         Populate \/ (\E i \in Items : Expire(i)) \/ UNCHANGED vars
  PROVE  WorkInv'
<1>1. UNCHANGED <<processing, removed, pc, hand>>
  BY DEF Populate, Expire, vars
<1>2. FileTypeOK'
  BY DEF WorkInv, FileTypeOK, TypeInv, workVars
<1> QED
  BY <1>1, <1>2 DEF WorkInv, UnpoppedUntouched, Untouched, RemovedSaved, StageOK, HeldWork,
                    WorkDone, workVars

\* An item is popped: nobody has worked on it yet.
LEMMA PopStep ==
  ASSUME IInv, WorkInv, TypeInv', NEW s \in Sessions, UNCHANGED workVars, Pop(s)
  PROVE  WorkInv'
<1> DEFINE item == main[Len(main)]
<1> USE DEF workVars
<1>1. /\ processing' = processing \cup {item}
      /\ hand' = [hand EXCEPT ![s] = item]
      /\ pc' = [pc EXCEPT ![s] = "setex"]
      /\ pc[s] = "pop" /\ removed' = removed
  BY DEF Pop, Goto
<1>2. item \in Items /\ item \notin processing \cup removed
  <2>1. main \in Seq(Items) /\ main # <<>> /\ Unique(main)
    BY DEF IInv, TypeInv, TypeOK, NothingLost, Pop
  <2>2. item \in Elements(main)
    BY <2>1, PopLemma
  <2> QED
    BY <2>1, <2>2 DEF IInv, NothingLost, Elements
<1> HIDE DEF item
<1>3. TypeOK /\ FileTypeOK
  BY DEF WorkInv, IInv, TypeInv
<1>4. FileTypeOK'
  BY <1>3 DEF FileTypeOK, TypeInv
<1>5. UnpoppedUntouched' /\ RemovedSaved'
  BY <1>1 DEF WorkInv, UnpoppedUntouched, Untouched, RemovedSaved
<1>6. StageOK'
  BY <1>1, <1>3 DEF WorkInv, StageOK, TypeOK
<1>7. HeldWork'
  <2> SUFFICES ASSUME NEW t \in Sessions, NEW j \in Items, hand'[t] = j
               PROVE  WorkDone(t, j)'
    BY DEF HeldWork
  <2>1. CASE t = s
    <3>1. j = item /\ pc'[t] = "setex"
      BY <1>1, <1>3, <2>1 DEF TypeOK
    <3>2. Untouched(j)
      BY <1>2, <3>1 DEF WorkInv, UnpoppedUntouched
    <3> QED
      BY <3>1, <3>2 DEF WorkDone, Untouched
  <2>2. CASE t # s
    <3>1. hand[t] = j /\ pc'[t] = pc[t]
      BY <1>1, <1>3, <2>2 DEF TypeOK
    <3> QED
      BY <3>1 DEF WorkInv, HeldWork, WorkDone, Untouched
  <2> QED
    BY <2>1, <2>2
<1> QED
  BY <1>4, <1>5, <1>6, <1>7 DEF WorkInv

\* An item is removed: its work is done.
LEMMA LRemStep ==
  ASSUME IInv, WorkInv, TypeInv', NEW s \in Sessions, UNCHANGED workVars, LRem(s)
  PROVE  WorkInv'
<1> USE DEF workVars
<1>1. /\ processing' = processing \ {hand[s]}
      /\ removed' = removed \cup {hand[s]}
      /\ pc' = [pc EXCEPT ![s] = "del"]
      /\ pc[s] = "lrem" /\ hand' = hand
  BY DEF LRem, Goto
<1>2. TypeOK /\ FileTypeOK
  BY DEF WorkInv, IInv, TypeInv
<1>3. hand[s] \in Items
  BY <1>1, <1>2 DEF IInv, TypeInv, HandOK, TypeOK
<1>4. /\ hand[s] \in model[s]
      /\ files[hand[s]] = Saved(model[s])
      /\ reports[hand[s]] = <<model[s]>>
  BY <1>1, <1>3 DEF WorkInv, HeldWork, WorkDone
<1>5. FileTypeOK'
  BY <1>2 DEF FileTypeOK, TypeInv
<1>6. UnpoppedUntouched'
  BY <1>1 DEF WorkInv, UnpoppedUntouched, Untouched
<1>7. RemovedSaved'
  <2>1. model[s] \in SUBSET Items
    BY <1>2 DEF FileTypeOK
  <2> QED
    BY <1>1, <1>4, <2>1 DEF WorkInv, RemovedSaved
<1>8. StageOK'
  BY <1>1, <1>2 DEF WorkInv, StageOK, TypeOK
<1>9. HeldWork'
  <2> SUFFICES ASSUME NEW t \in Sessions, NEW j \in Items, hand[t] = j
               PROVE  WorkDone(t, j)'
    BY <1>1 DEF HeldWork
  <2>1. WorkDone(t, j)
    BY DEF WorkInv, HeldWork
  <2> QED
    BY <1>1, <1>2, <2>1 DEF WorkDone, Untouched, TypeOK
<1> QED
  BY <1>5, <1>6, <1>7, <1>8, <1>9 DEF WorkInv

LEMMA NextWorkInv ==
  ASSUME UniqueItems, IInv, WorkInv, [BWNext]_bwVars
  PROVE  WorkInv'
<1>1. TypeInv'
  BY BWStepIsQueueStep, TypeInvInductive DEF IInv
<1>2. ASSUME NEW s \in Sessions, WorkStep(s)
      PROVE  WorkInv'
  <2>1. CASE \/ InitModel(s) \/ Fit(s) \/ MakeDirs(s)
             \/ OpenCheckpoint(s) \/ DumpCheckpoint(s) \/ Report(s)
    BY <2>1, StageStep
  <2>2. CASE InitModelFails(s) \/ MakeDirsFails(s)
    BY <1>1, <2>2, QuietQueueStep DEF InitModelFails, MakeDirsFails, Fails
  <2>3. CASE Finished(s)
    BY <1>1, <2>3, FinishedStep
  <2> QED
    BY <1>2, <2>1, <2>2, <2>3 DEF WorkStep
<1>3. ASSUME NEW s \in Sessions, QueueStep(s)
      PROVE  WorkInv'
  BY <1>1, <1>3, PopStep, LRemStep, QuietQueueStep DEF QueueStep
<1>4. ASSUME NEW s \in Sessions, (Start(s) \/ Die(s)) /\ UNCHANGED workVars
      PROVE  WorkInv'
  BY <1>1, <1>4, QuietQueueStep
<1>5. CASE UNCHANGED workVars /\ (Populate \/ (\E i \in Items : Expire(i)) \/ UNCHANGED vars)
  BY <1>1, <1>5, EnvironmentStep
<1> QED
  BY <1>2, <1>3, <1>4, <1>5 DEF BWNext, bwVars

\* What has left the queue has a complete checkpoint, fitted on it, and exactly one
\* report, however many workers there are and whenever they die.
THEOREM CompletedWorkIsSaved ==
  ASSUME UniqueItems
  PROVE  BWSpec => []CompletedIsSaved
<1>1. BWSpec => []IInv
  BY WorkloadUsesQueue, Invariance, PTL
<1>2. IInv /\ WorkInv /\ [BWNext]_bwVars => WorkInv'
  BY NextWorkInv
<1>3. WorkInv => CompletedIsSaved
  <2> SUFFICES ASSUME WorkInv, NEW i \in removed
               PROVE  /\ files[i].state = "saved"
                      /\ i \in files[i].model
                      /\ reports[i] = <<files[i].model>>
    BY DEF CompletedIsSaved
  <2>1. PICK m \in SUBSET Items : i \in m /\ files[i] = Saved(m) /\ reports[i] = <<m>>
    BY DEF WorkInv, RemovedSaved
  <2>2. files[i].state = "saved" /\ files[i].model = m
    BY <2>1 DEF Saved
  <2> QED
    BY <2>1, <2>2
<1> QED
  BY <1>1, <1>2, <1>3, InitWorkInv, PTL DEF BWSpec

\* No file gets a second entry; a stage that is about to write one finds none.
ReportedOnce == \A i \in Items : Len(reports[i]) <= 1

LEMMA ReportedOnceStep ==
  ASSUME WorkInv, ReportedOnce, [BWNext]_bwVars
  PROVE  ReportedOnce'
<1>1. CASE UNCHANGED reports
  BY <1>1 DEF ReportedOnce
<1>2. ASSUME NEW s \in Sessions, Report(s)
      PROVE  ReportedOnce'
  <2>1. pc[s] = "work" /\ stage[s] = "report" /\ hand[s] \in Items \cup {None}
    BY <1>2 DEF Report, Stage, WorkInv, FileTypeOK, TypeOK
  <2> SUFFICES ASSUME NEW i \in Items
               PROVE  Len(reports'[i]) <= 1
    BY DEF ReportedOnce
  <2>2. CASE hand[s] = i
    <3>1. reports[i] = <<>>
      BY <2>1, <2>2 DEF WorkInv, HeldWork, WorkDone
    <3>2. reports'[i] = <<model[s]>>
      BY <1>2, <2>2, <3>1 DEF Report, WorkInv, FileTypeOK
    <3> QED
      BY <3>2
  <2>3. CASE hand[s] # i
    <3>1. reports'[i] = reports[i]
      BY <1>2, <2>3 DEF Report, WorkInv, FileTypeOK
    <3> QED
      BY <3>1 DEF ReportedOnce
  <2> QED
    BY <2>2, <2>3
<1>3. UNCHANGED reports \/ \E s \in Sessions : Report(s)
  BY DEF BWNext, bwVars, workVars, QueueStep, WorkStep, InitModel, InitModelFails, Fit,
         MakeDirs, MakeDirsFails, Fails, OpenCheckpoint, DumpCheckpoint, Finished
<1> QED
  BY <1>1, <1>2, <1>3

\* No work is done twice: no file is reported twice, and a file leaves a trace only
\* once it was popped, whatever dies and however long a lease is overdue.
THEOREM WorkIsNotRepeated ==
  ASSUME UniqueItems
  PROVE  BWSpec => []NoRepeatedWork
<1>1. BWSpec => []IInv
  BY WorkloadUsesQueue, Invariance, PTL
<1>2. IInv /\ WorkInv /\ [BWNext]_bwVars => WorkInv'
  BY NextWorkInv
<1>3. BWInit => ReportedOnce
  BY DEF BWInit, ReportedOnce
<1>4. WorkInv /\ ReportedOnce /\ [BWNext]_bwVars => ReportedOnce'
  BY ReportedOnceStep
<1>5. WorkInv /\ ReportedOnce => NoRepeatedWork
  BY DEF WorkInv, UnpoppedUntouched, Untouched, ReportedOnce, NoRepeatedWork
<1> QED
  BY <1>1, <1>2, <1>3, <1>4, <1>5, InitWorkInv, PTL DEF BWSpec

------------------------------------------------------------------------------
(***************************************************************************)
(* The checkpoint a worker resumes from.  Once its item is removed nobody  *)
(* opens the file again, as nobody gets a removed item; until then only    *)
(* the worker itself has the item.                                         *)
(***************************************************************************)
CheckpointOK ==
  \A s \in Sessions :
     pc[s] \notin {"failed", "dead"} /\ checkpoint[s] # None =>
        \/ checkpoint[s] \in removed
        \/ /\ hand[s] = checkpoint[s]
           /\ pc[s] = "lrem" \/ (pc[s] = "work" /\ stage[s] \in {"report", "finished"})

RemovedModels == \A i \in removed : files[i].model \subseteq removed

ModelOK ==
  \A s \in Sessions :
     pc[s] = "lrem" \/ (pc[s] = "work" /\ stage[s] # "init") =>
        model[s] \subseteq removed \cup {hand[s]}

LineageInv == CheckpointOK /\ RemovedModels /\ ModelOK

\* The item in hand is not removed yet.
LEMMA HandNotRemoved ==
  ASSUME IInv, NEW s \in Sessions, pc[s] \in {"setex", "work", "lrem"}
  PROVE  hand[s] \in Items /\ hand[s] \notin removed
BY DEF IInv, TypeInv, HandOK, HandPlaced, NothingLost, TypeOK

LEMMA StageLineage ==
  ASSUME IInv, WorkInv, LineageInv, NEW s \in Sessions,
         \/ InitModel(s) \/ Fit(s) \/ MakeDirs(s)
         \/ OpenCheckpoint(s) \/ DumpCheckpoint(s) \/ Report(s)
  PROVE  LineageInv'
<1>1. pc[s] = "work" /\ UNCHANGED vars
  BY DEF InitModel, Fit, MakeDirs, OpenCheckpoint, DumpCheckpoint, Report, Stage
<1>2. hand[s] \in Items /\ hand[s] \notin removed
  BY <1>1, HandNotRemoved
<1>3. UNCHANGED <<pc, hand, removed>>
  BY <1>1 DEF vars
<1>4. /\ stage \in [Sessions -> Stages] /\ checkpoint \in [Sessions -> Items \cup {None}]
      /\ model \in [Sessions -> SUBSET Items] /\ removed \subseteq Items
      /\ DOMAIN files = Items
  BY DEF WorkInv, FileTypeOK, TypeOK
<1>5. CASE InitModel(s)
  <2>1. checkpoint[s] # None => files[checkpoint[s]].model \subseteq removed
    BY <1>1, <1>5 DEF LineageInv, CheckpointOK, RemovedModels, InitModel, Stage
  <2>2. /\ model' = [model EXCEPT ![s] = IF checkpoint[s] = None THEN {}
                                         ELSE files[checkpoint[s]].model]
        /\ stage' = [stage EXCEPT ![s] = "fit"] /\ stage[s] = "init"
        /\ UNCHANGED <<checkpoint, files>>
    BY <1>5 DEF InitModel, Stage
  <2>3. CheckpointOK' /\ RemovedModels'
    BY <1>3, <1>4, <2>2 DEF LineageInv, CheckpointOK, RemovedModels
  <2>4. ModelOK'
    BY <1>3, <1>4, <2>1, <2>2 DEF LineageInv, ModelOK
  <2> QED
    BY <2>3, <2>4 DEF LineageInv
<1>6. CASE Fit(s)
  <2>1. /\ model' = [model EXCEPT ![s] = @ \cup {hand[s]}]
        /\ stage[s] = "fit" /\ UNCHANGED <<checkpoint, files>>
        /\ \E l \in {"open", "makedirs"} : stage' = [stage EXCEPT ![s] = l]
    BY <1>6 DEF Fit, Stage
  <2>2. CheckpointOK' /\ RemovedModels'
    BY <1>3, <1>4, <2>1 DEF LineageInv, CheckpointOK, RemovedModels
  <2>3. ModelOK'
    BY <1>1, <1>3, <1>4, <2>1 DEF LineageInv, ModelOK
  <2> QED
    BY <2>2, <2>3 DEF LineageInv
<1>7. CASE MakeDirs(s) \/ Report(s)
  <2>1. /\ UNCHANGED <<checkpoint, files, model>>
        /\ \/ stage[s] = "makedirs" /\ stage' = [stage EXCEPT ![s] = "open"]
           \/ stage[s] = "report" /\ stage' = [stage EXCEPT ![s] = "finished"]
    BY <1>7 DEF MakeDirs, Report, Stage
  <2>2. CheckpointOK' /\ RemovedModels'
    BY <1>3, <1>4, <2>1 DEF LineageInv, CheckpointOK, RemovedModels
  <2>3. ModelOK'
    BY <1>1, <1>3, <1>4, <2>1 DEF LineageInv, ModelOK
  <2> QED
    BY <2>2, <2>3 DEF LineageInv
<1>8. CASE OpenCheckpoint(s) \/ DumpCheckpoint(s)
  <2>1. /\ UNCHANGED model
        /\ \E f : files' = [files EXCEPT ![hand[s]] = f]
    BY <1>8 DEF OpenCheckpoint, DumpCheckpoint
  <2>2. \/ /\ stage[s] = "open" /\ stage' = [stage EXCEPT ![s] = "dump"]
           /\ UNCHANGED checkpoint
        \/ /\ stage[s] = "dump" /\ stage' = [stage EXCEPT ![s] = "report"]
           /\ checkpoint' = [checkpoint EXCEPT ![s] = hand[s]]
    BY <1>8 DEF OpenCheckpoint, DumpCheckpoint, Stage
  <2>3. CheckpointOK'
    BY <1>1, <1>3, <1>4, <2>2 DEF LineageInv, CheckpointOK
  <2>4. RemovedModels'
    BY <1>2, <1>3, <1>4, <2>1 DEF LineageInv, RemovedModels
  <2>5. ModelOK'
    BY <1>1, <1>3, <1>4, <2>1, <2>2 DEF LineageInv, ModelOK
  <2> QED
    BY <2>3, <2>4, <2>5 DEF LineageInv
<1> QED
  BY <1>5, <1>6, <1>7, <1>8

LEMMA LRemLineage ==
  ASSUME IInv, WorkInv, LineageInv, NEW s \in Sessions, LRem(s), UNCHANGED workVars
  PROVE  LineageInv'
<1>1. pc[s] = "lrem" /\ removed' = removed \cup {hand[s]} /\ UNCHANGED hand
      /\ pc' = [pc EXCEPT ![s] = "del"] /\ pc \in [Sessions -> PCs]
  BY DEF LRem, Goto, WorkInv, FileTypeOK, TypeOK
<1>2. UNCHANGED <<stage, checkpoint, model, files>>
  BY DEF workVars
<1>3. hand[s] \in Items
  BY <1>1, HandNotRemoved
<1>4. files[hand[s]] = Saved(model[s])
  BY <1>1, <1>3 DEF WorkInv, HeldWork, WorkDone
<1>5. files[hand[s]].model = model[s]
  BY <1>4 DEF Saved
<1>6. model[s] \subseteq removed \cup {hand[s]}
  BY <1>1 DEF LineageInv, ModelOK
<1>7. CheckpointOK'
  BY <1>1, <1>2 DEF LineageInv, CheckpointOK
<1>8. RemovedModels'
  BY <1>1, <1>2, <1>5, <1>6 DEF LineageInv, RemovedModels
<1>9. ModelOK'
  BY <1>1, <1>2 DEF LineageInv, ModelOK
<1> QED
  BY <1>7, <1>8, <1>9 DEF LineageInv

LEMMA QuietLineage ==
  ASSUME WorkInv, LineageInv, NEW s \in Sessions, UNCHANGED workVars,
         \/ LLenMain(s) \/ LLenProcessing(s) \/ Pop(s) \/ PopTimeout(s)
         \/ SetLease(s) \/ Del(s) \/ Start(s) \/ Die(s) \/ Raise(s)
  PROVE  LineageInv'
<1>1. UNCHANGED <<stage, checkpoint, model, files>>
  BY DEF workVars
<1>2. pc \in [Sessions -> PCs] /\ hand \in [Sessions -> Items \cup {None}]
      /\ stage \in [Sessions -> Stages]
  BY DEF WorkInv, FileTypeOK, TypeOK
<1>3. UNCHANGED removed /\ \A t \in Sessions \ {s} : pc'[t] = pc[t] /\ hand'[t] = hand[t]
  BY <1>2 DEF LLenMain, LLenProcessing, Pop, PopTimeout, SetLease, Del, Start, Die, Raise,
              Gone, Goto
<1>4. \/ pc'[s] \in {"failed", "dead"}
      \/ /\ pc[s] \notin {"work", "lrem", "failed", "dead"} /\ pc'[s] # "lrem"
         /\ pc'[s] = "work" => stage[s] = "init"
  BY <1>2 DEF LLenMain, LLenProcessing, Pop, PopTimeout, SetLease, Del, Start, Die, Raise,
              Gone, Goto, WorkInv, StageOK
<1>5. CheckpointOK'
  BY <1>1, <1>3, <1>4 DEF LineageInv, CheckpointOK
<1>6. RemovedModels'
  BY <1>1, <1>3 DEF LineageInv, RemovedModels
<1>7. ModelOK'
  BY <1>1, <1>3, <1>4 DEF LineageInv, ModelOK
<1> QED
  BY <1>5, <1>6, <1>7 DEF LineageInv

LEMMA FinishedLineage ==
  ASSUME WorkInv, LineageInv, NEW s \in Sessions, Finished(s)
  PROVE  LineageInv'
<1>1. /\ pc[s] = "work" /\ stage[s] = "finished"
      /\ pc' = [pc EXCEPT ![s] = "lrem"] /\ stage' = [stage EXCEPT ![s] = "init"]
      /\ UNCHANGED <<hand, removed, checkpoint, model, files>>
  BY DEF Finished, Work, Goto
<1>2. pc \in [Sessions -> PCs] /\ stage \in [Sessions -> Stages]
  BY DEF WorkInv, FileTypeOK, TypeOK
<1>3. CheckpointOK'
  BY <1>1, <1>2 DEF LineageInv, CheckpointOK
<1>4. RemovedModels'
  BY <1>1 DEF LineageInv, RemovedModels
<1>5. ModelOK'
  BY <1>1, <1>2 DEF LineageInv, ModelOK
<1> QED
  BY <1>3, <1>4, <1>5 DEF LineageInv

LEMMA NextLineage ==
  ASSUME IInv, WorkInv, LineageInv, [BWNext]_bwVars
  PROVE  LineageInv'
<1>1. ASSUME NEW s \in Sessions, WorkStep(s)
      PROVE  LineageInv'
  BY <1>1, StageLineage, FinishedLineage, QuietLineage
     DEF WorkStep, InitModelFails, MakeDirsFails, Fails
<1>2. ASSUME NEW s \in Sessions, QueueStep(s)
      PROVE  LineageInv'
  BY <1>2, LRemLineage, QuietLineage DEF QueueStep
<1>3. ASSUME NEW s \in Sessions, (Start(s) \/ Die(s)) /\ UNCHANGED workVars
      PROVE  LineageInv'
  BY <1>3, QuietLineage
<1>4. CASE UNCHANGED workVars /\ (Populate \/ (\E i \in Items : Expire(i)) \/ UNCHANGED vars)
  BY <1>4 DEF Populate, Expire, vars, workVars, LineageInv, CheckpointOK, RemovedModels, ModelOK
<1> QED
  BY <1>1, <1>2, <1>3, <1>4 DEF BWNext, bwVars

\* The file a worker resumes from is complete, fitted on its dataset, and holds
\* nothing but finished datasets and the one the worker is at.
THEOREM CheckpointStaysIntact ==
  ASSUME UniqueItems
  PROVE  BWSpec => []OwnCheckpointIntact
<1>1. BWSpec => []IInv
  BY WorkloadUsesQueue, Invariance, PTL
<1>2. IInv /\ WorkInv /\ [BWNext]_bwVars => WorkInv'
  BY NextWorkInv
<1>3. BWInit => LineageInv
  BY DEF BWInit, Init, LineageInv, CheckpointOK, RemovedModels, ModelOK
<1>4. IInv /\ WorkInv /\ LineageInv /\ [BWNext]_bwVars => LineageInv'
  BY NextLineage
<1>5. WorkInv /\ LineageInv => OwnCheckpointIntact
  <2> SUFFICES ASSUME WorkInv, LineageInv, NEW s \in Sessions, Live(s), checkpoint[s] # None
               PROVE  /\ files[checkpoint[s]].state = "saved"
                      /\ checkpoint[s] \in files[checkpoint[s]].model
                      /\ files[checkpoint[s]].model \subseteq
                            removed \cup {i \in Items : Holds(s, i)}
    BY DEF OwnCheckpointIntact
  <2> DEFINE c == checkpoint[s]
  <2>1. c \in Items
    BY DEF WorkInv, FileTypeOK
  <2>2. CASE c \in removed
    <3>1. PICK m \in SUBSET Items : c \in m /\ files[c] = Saved(m)
      BY <2>2 DEF WorkInv, RemovedSaved
    <3>2. files[c].state = "saved" /\ files[c].model = m
      BY <3>1 DEF Saved
    <3>3. files[c].model \subseteq removed
      BY <2>2 DEF LineageInv, RemovedModels
    <3> QED
      BY <3>1, <3>2, <3>3
  <2>3. CASE c \notin removed
    <3>1. /\ hand[s] = c
          /\ pc[s] = "lrem" \/ (pc[s] = "work" /\ stage[s] \in {"report", "finished"})
      BY <2>3 DEF LineageInv, CheckpointOK, Live
    <3>2. files[c] = Saved(model[s]) /\ c \in model[s]
      BY <2>1, <3>1 DEF WorkInv, HeldWork, WorkDone
    <3>3. files[c].state = "saved" /\ files[c].model = model[s]
      BY <3>2 DEF Saved
    <3>4. model[s] \subseteq removed \cup {c}
      BY <3>1 DEF LineageInv, ModelOK
    <3>5. Holds(s, c)
      BY <3>1 DEF Holds
    <3> QED
      BY <2>1, <3>2, <3>3, <3>4, <3>5
  <2> QED
    BY <2>2, <2>3
<1> QED
  BY <1>1, <1>2, <1>3, <1>4, <1>5, InitWorkInv, PTL DEF BWSpec

------------------------------------------------------------------------------
(***************************************************************************)
(* The models of two workers.  Lines of two workers stay apart because a   *)
(* dataset joins a line only while its worker has the item.                *)
(***************************************************************************)
SavedIsOwn ==
  \A i \in Items : files[i].state = "saved" => files[i].model \subseteq removed \cup {i}

CheckpointIsHand ==
  \A s \in Sessions :
     pc[s] = "lrem" \/ (pc[s] = "work" /\ stage[s] \in {"report", "finished"}) =>
        checkpoint[s] = hand[s]

LinesInv == SavedIsOwn /\ CheckpointIsHand /\ LinesApart /\ FilesOnLines /\ FilesNested

\* What a line is made of.
LEMMA LineIsOwn ==
  ASSUME IInv, WorkInv, LineageInv, SavedIsOwn, NEW s \in Sessions, Alive(s)
  PROVE  /\ Mid(s) => Line(s) = model[s] /\ Line(s) \subseteq removed \cup {hand[s]}
         /\ ~Mid(s) => Line(s) \subseteq removed
         /\ ~Mid(s) /\ checkpoint[s] # None => checkpoint[s] \in removed
<1>1. checkpoint[s] \in Items \cup {None}
  BY DEF WorkInv, FileTypeOK
<1>2. Mid(s) => Line(s) = model[s] /\ model[s] \subseteq removed \cup {hand[s]}
  BY DEF LineageInv, ModelOK, Mid, Line
<1>3. ~Mid(s) /\ checkpoint[s] # None => checkpoint[s] \in removed
  BY DEF LineageInv, CheckpointOK, Mid, Alive
<1>4. ~Mid(s) => Line(s) \subseteq removed
  BY <1>1, <1>3 DEF LineageInv, RemovedModels, Line
<1> QED
  BY <1>2, <1>3, <1>4

\* A worker's line stays, or the dataset of the item that it has in hand joins it.
LineGrows(s) == Alive(s)' => Alive(s) /\ Line(s)' \in {Line(s), Line(s) \cup {hand[s]}}

\* A step that changes no file and no line.
LEMMA SameLines ==
  ASSUME LinesInv, UNCHANGED files, removed \subseteq removed', CheckpointIsHand',
         \A t \in Sessions : Alive(t)' => Alive(t) /\ Line(t)' = Line(t)
  PROVE  LinesInv' /\ \A t \in Sessions : LineGrows(t)
<1>1. SavedIsOwn' /\ FilesNested'
  BY DEF LinesInv, SavedIsOwn, FilesNested
<1>2. LinesApart'
  BY DEF LinesInv, LinesApart
<1>3. FilesOnLines'
  BY DEF LinesInv, FilesOnLines
<1> QED
  BY <1>1, <1>2, <1>3 DEF LinesInv, LineGrows

\* The stages that leave files and lines as they are.
LEMMA StageLines ==
  ASSUME IInv, WorkInv, LineageInv, LinesInv, NEW s \in Sessions,
         InitModel(s) \/ MakeDirs(s) \/ Report(s)
  PROVE  LinesInv' /\ \A t \in Sessions : LineGrows(t)
<1>1. /\ pc[s] = "work" /\ UNCHANGED <<pc, hand, removed, files, checkpoint>>
      /\ stage' = [stage EXCEPT ![s] = stage'[s]]
      /\ stage \in [Sessions -> Stages] /\ model \in [Sessions -> SUBSET Items]
  BY DEF InitModel, MakeDirs, Report, Stage, vars, WorkInv, FileTypeOK
<1>2. /\ model' = [model EXCEPT ![s] = Line(s)]
      /\ stage'[s] # "init"
      /\ stage'[s] \in {"report", "finished"} => stage[s] = "report"
  <2>1. CASE InitModel(s)
    BY <1>1, <2>1 DEF InitModel, Stage, Line, Mid
  <2>2. CASE MakeDirs(s) \/ Report(s)
    BY <1>1, <2>2 DEF MakeDirs, Report, Stage, Line, Mid
  <2> QED
    BY <2>1, <2>2
<1>3. CheckpointIsHand'
  BY <1>1, <1>2 DEF LinesInv, CheckpointIsHand
<1>4. ASSUME NEW t \in Sessions PROVE (Alive(t)' => Alive(t)) /\ Line(t)' = Line(t)
  <2>1. CASE t = s
    BY <1>1, <1>2, <2>1 DEF Line, Mid, Alive
  <2>2. CASE t # s
    BY <1>1, <1>2, <2>2 DEF Line, Mid, Alive
  <2> QED
    BY <2>1, <2>2
<1> QED
  BY <1>1, <1>3, <1>4, SameLines

\* Fitting adds a dataset that is in no other line and in no file.
LEMMA FitLines ==
  ASSUME IInv, WorkInv, LineageInv, LinesInv, NEW s \in Sessions, Fit(s)
  PROVE  LinesInv' /\ \A t \in Sessions : LineGrows(t)
<1>1. /\ pc[s] = "work" /\ stage[s] = "fit"
      /\ UNCHANGED <<pc, hand, removed, files, checkpoint>>
      /\ model' = [model EXCEPT ![s] = @ \cup {hand[s]}]
      /\ stage' = [stage EXCEPT ![s] = stage'[s]] /\ stage'[s] \in {"open", "makedirs"}
      /\ stage \in [Sessions -> Stages] /\ model \in [Sessions -> SUBSET Items]
  BY DEF Fit, Stage, vars, WorkInv, FileTypeOK
<1>2. hand[s] \in Items /\ hand[s] \notin removed
  BY <1>1, HandNotRemoved
<1>3. files[hand[s]] = Absent
  BY <1>1, <1>2 DEF WorkInv, HeldWork, WorkDone, Untouched
<1>4. Line(s) = model[s] /\ Line(s)' = model[s] \cup {hand[s]}
  BY <1>1 DEF Line, Mid
<1>5. ASSUME NEW t \in Sessions, t # s
      PROVE  /\ Line(t)' = Line(t) /\ (Alive(t)' <=> Alive(t))
             /\ Alive(t) => hand[s] \notin Line(t)
  <2>1. Line(t)' = Line(t) /\ (Alive(t)' <=> Alive(t))
    BY <1>1, <1>5 DEF Line, Mid, Alive
  <2>2. hand[s] # None /\ hand[t] # hand[s]
    BY <1>2, <1>5, NoneAssumption DEF IInv, HandUnique
  <2>3. Alive(t) => Line(t) \subseteq removed \cup {hand[t]}
    BY LineIsOwn DEF LinesInv
  <2> QED
    BY <1>2, <2>1, <2>2, <2>3
<1>6. ASSUME NEW i \in Items, files[i].state = "saved" PROVE hand[s] \notin files[i].model
  <2>1. i # hand[s]
    BY <1>3, <1>6 DEF Absent
  <2> QED
    BY <1>2, <1>6, <2>1 DEF LinesInv, SavedIsOwn
<1>7. SavedIsOwn' /\ FilesNested'
  BY <1>1 DEF LinesInv, SavedIsOwn, FilesNested
<1>8. CheckpointIsHand'
  BY <1>1 DEF LinesInv, CheckpointIsHand
<1>9. LinesApart'
  BY <1>1, <1>4, <1>5 DEF LinesInv, LinesApart, Alive
<1>10. FilesOnLines'
  <2> SUFFICES ASSUME NEW t \in Sessions, NEW i \in Items, Alive(t)', files[i].state = "saved"
               PROVE  files[i].model \subseteq Line(t)' \/ files[i].model \cap Line(t)' = {}
    BY <1>1 DEF FilesOnLines
  <2>1. files[i].model \subseteq Line(t) \/ files[i].model \cap Line(t) = {}
    BY <1>1 DEF LinesInv, FilesOnLines, Alive
  <2>2. CASE t = s
    BY <1>4, <1>6, <2>1, <2>2
  <2>3. CASE t # s
    BY <1>5, <2>1, <2>3
  <2> QED
    BY <2>2, <2>3
<1>11. \A t \in Sessions : LineGrows(t)
  BY <1>1, <1>4, <1>5 DEF LineGrows, Alive
<1> QED
  BY <1>7, <1>8, <1>9, <1>10, <1>11 DEF LinesInv

\* Nobody else will load the file that a worker writes.
LEMMA OtherLinesStay ==
  ASSUME IInv, WorkInv, LineageInv, LinesInv, NEW s \in Sessions, NEW f,
         pc[s] = "work", files' = [files EXCEPT ![hand[s]] = f],
         UNCHANGED <<pc, hand, removed, model>>,
         \A t \in Sessions \ {s} : stage'[t] = stage[t] /\ checkpoint'[t] = checkpoint[t]
  PROVE  \A t \in Sessions \ {s} : Alive(t) => Alive(t)' /\ Line(t)' = Line(t)
<1> SUFFICES ASSUME NEW t \in Sessions \ {s}, Alive(t)
             PROVE  Alive(t)' /\ Line(t)' = Line(t)
  OBVIOUS
<1>1. hand[s] \notin removed
  BY HandNotRemoved
<1>2. Mid(t)' = Mid(t) /\ Alive(t)'
  BY DEF Mid, Alive
<1>3. ~Mid(t) /\ checkpoint[t] # None => checkpoint[t] # hand[s]
  BY <1>1, LineIsOwn DEF LinesInv
<1>4. ~Mid(t) /\ checkpoint[t] # None => files'[checkpoint[t]] = files[checkpoint[t]]
  BY <1>3 DEF WorkInv, FileTypeOK
<1> QED
  BY <1>2, <1>4 DEF Line

\* While it is being written a file has no model; then it has that of its worker's line.
LEMMA WriteLines ==
  ASSUME IInv, WorkInv, LineageInv, LinesInv, NEW s \in Sessions,
         OpenCheckpoint(s) \/ DumpCheckpoint(s)
  PROVE  LinesInv' /\ \A t \in Sessions : LineGrows(t)
<1> DEFINE i == hand[s]
<1>1. /\ pc[s] = "work" /\ stage[s] \in {"open", "dump"}
      /\ UNCHANGED <<pc, hand, removed, model>>
      /\ stage' = [stage EXCEPT ![s] = stage'[s]] /\ stage'[s] \in {"dump", "report"}
      /\ stage'[s] = "report" => checkpoint'[s] = i
      /\ checkpoint' = [checkpoint EXCEPT ![s] = checkpoint'[s]]
      /\ stage \in [Sessions -> Stages] /\ model \in [Sessions -> SUBSET Items]
      /\ checkpoint \in [Sessions -> Items \cup {None}] /\ DOMAIN files = Items
  BY DEF OpenCheckpoint, DumpCheckpoint, Stage, vars, WorkInv, FileTypeOK
<1>2. i \in Items
  BY <1>1, HandNotRemoved
<1>3. PICK f \in {Truncated, Saved(model[s])} : files' = [files EXCEPT ![i] = f]
  BY DEF OpenCheckpoint, DumpCheckpoint
<1>4. f.state = "saved" => f.model = model[s]
  BY DEF Truncated, Saved
<1>5. Alive(s) /\ Alive(s)' /\ Line(s) = model[s] /\ Line(s)' = model[s]
  BY <1>1 DEF Line, Mid, Alive
<1>6. \A t \in Sessions \ {s} : Alive(t) => Alive(t)' /\ Line(t)' = Line(t)
  BY <1>1, <1>3, OtherLinesStay
<1>7. \A t \in Sessions : Alive(t)' => Alive(t) /\ Line(t)' = Line(t)
  BY <1>1, <1>5, <1>6 DEF Alive
<1>8. /\ files'[i] = f
      /\ \A j \in Items \ {i} : files'[j] = files[j]
  BY <1>1, <1>2, <1>3
<1>9. CheckpointIsHand'
  BY <1>1 DEF LinesInv, CheckpointIsHand
<1>10. SavedIsOwn'
  <2>1. model[s] \subseteq removed \cup {i}
    BY <1>1, <1>5, LineIsOwn DEF Mid, LinesInv
  <2> QED
    BY <1>1, <1>4, <1>8, <2>1 DEF LinesInv, SavedIsOwn
<1>11. LinesApart'
  BY <1>7 DEF LinesInv, LinesApart
<1>12. ASSUME NEW j \in Items, files[j].state = "saved"
       PROVE  files[j].model \subseteq model[s] \/ files[j].model \cap model[s] = {}
  BY <1>5, <1>12 DEF LinesInv, FilesOnLines
<1>13. FilesOnLines'
  <2> SUFFICES ASSUME NEW t \in Sessions, NEW j \in Items, Alive(t)', files'[j].state = "saved"
               PROVE  files'[j].model \subseteq Line(t)' \/ files'[j].model \cap Line(t)' = {}
    BY DEF FilesOnLines
  <2>1. Alive(t) /\ Line(t)' = Line(t)
    BY <1>7
  <2>2. CASE j # i
    BY <1>8, <2>1, <2>2 DEF LinesInv, FilesOnLines
  <2>3. CASE j = i /\ t = s
    BY <1>4, <1>5, <1>8, <2>3
  <2>4. CASE j = i /\ t # s
    BY <1>4, <1>5, <1>8, <2>1, <2>4 DEF LinesInv, LinesApart
  <2> QED
    BY <2>2, <2>3, <2>4
<1>14. FilesNested'
  <2> SUFFICES ASSUME NEW j \in Items, NEW k \in Items,
                      files'[j].state = "saved", files'[k].state = "saved"
               PROVE  \/ files'[j].model \subseteq files'[k].model
                      \/ files'[k].model \subseteq files'[j].model
                      \/ files'[j].model \cap files'[k].model = {}
    BY DEF FilesNested
  <2>1. CASE j # i /\ k # i
    BY <1>8, <2>1 DEF LinesInv, FilesNested
  <2>2. CASE j = i /\ k = i
    BY <2>2
  <2>3. CASE j = i /\ k # i
    BY <1>4, <1>8, <1>12, <2>3
  <2>4. CASE j # i /\ k = i
    BY <1>4, <1>8, <1>12, <2>4
  <2> QED
    BY <2>1, <2>2, <2>3, <2>4
<1> QED
  BY <1>7, <1>9, <1>10, <1>11, <1>13, <1>14 DEF LinesInv, LineGrows

\* Between two items, a worker's line is the model of its checkpoint.
LEMMA QueueLines ==
  ASSUME IInv, WorkInv, LineageInv, LinesInv, NEW s \in Sessions, UNCHANGED workVars,
         \/ LLenMain(s) \/ LLenProcessing(s) \/ Pop(s) \/ PopTimeout(s)
         \/ SetLease(s) \/ Del(s) \/ Start(s) \/ Die(s) \/ Raise(s) \/ LRem(s)
  PROVE  LinesInv' /\ \A t \in Sessions : LineGrows(t)
<1>1. UNCHANGED <<stage, checkpoint, model, files>>
  BY DEF workVars
<1>2. /\ removed \subseteq removed'
      /\ \A t \in Sessions \ {s} : pc'[t] = pc[t] /\ hand'[t] = hand[t]
      /\ pc \in [Sessions -> PCs] /\ stage \in [Sessions -> Stages]
  BY DEF LLenMain, LLenProcessing, Pop, PopTimeout, SetLease, Del, Start, Die, Raise, LRem,
         Gone, Goto, WorkInv, FileTypeOK, TypeOK
<1>3. \/ pc'[s] \in {"failed", "dead"}
      \/ LRem(s) /\ pc'[s] = "del"
      \/ /\ pc[s] \notin {"work", "lrem", "failed", "dead"} /\ pc'[s] # "lrem"
         /\ pc'[s] = "work" => stage[s] = "init"
  BY <1>2 DEF LLenMain, LLenProcessing, Pop, PopTimeout, SetLease, Del, Start, Die, Raise, LRem,
              Gone, Goto, WorkInv, StageOK
<1>4. CheckpointIsHand'
  <2> SUFFICES ASSUME NEW t \in Sessions,
                      pc'[t] = "lrem" \/ (pc'[t] = "work" /\ stage[t] \in {"report", "finished"})
               PROVE  checkpoint[t] = hand'[t]
    BY <1>1 DEF CheckpointIsHand
  <2>1. t # s
    BY <1>3
  <2> QED
    BY <1>2, <2>1 DEF LinesInv, CheckpointIsHand
<1>5. ASSUME NEW t \in Sessions, Alive(t)' PROVE Alive(t) /\ Line(t)' = Line(t)
  <2>1. CASE t # s
    BY <1>1, <1>2, <1>5, <2>1 DEF Line, Mid, Alive
  <2>2. CASE t = s /\ LRem(s)
    <3>1. pc[s] = "lrem" /\ checkpoint[s] = hand[s] /\ pc'[s] = "del"
      BY <1>2, <2>2 DEF LRem, Goto, LinesInv, CheckpointIsHand
    <3>2. hand[s] \in Items
      BY <3>1, HandNotRemoved
    <3>3. files[hand[s]] = Saved(model[s])
      BY <3>1, <3>2 DEF WorkInv, HeldWork, WorkDone
    <3>4. Line(s) = model[s] /\ Line(s)' = files[hand[s]].model
      BY <1>1, <3>1, <3>2, NoneAssumption DEF Line, Mid
    <3> QED
      BY <2>2, <3>1, <3>3, <3>4 DEF Saved, Alive
  <2>3. CASE t = s /\ ~LRem(s)
    <3>1. /\ pc[s] \notin {"work", "lrem", "failed", "dead"} /\ pc'[s] # "lrem"
          /\ pc'[s] = "work" => stage[s] = "init"
      BY <1>3, <1>5, <2>3 DEF Alive
    <3> QED
      BY <1>1, <2>3, <3>1 DEF Line, Mid, Alive
  <2> QED
    BY <2>1, <2>2, <2>3
<1> QED
  BY <1>1, <1>2, <1>4, <1>5, SameLines

LEMMA FinishedLines ==
  ASSUME WorkInv, LinesInv, NEW s \in Sessions, Finished(s)
  PROVE  LinesInv' /\ \A t \in Sessions : LineGrows(t)
<1>1. /\ pc[s] = "work" /\ stage[s] = "finished"
      /\ pc' = [pc EXCEPT ![s] = "lrem"] /\ stage' = [stage EXCEPT ![s] = "init"]
      /\ UNCHANGED <<hand, removed, checkpoint, model, files>>
      /\ pc \in [Sessions -> PCs] /\ stage \in [Sessions -> Stages]
  BY DEF Finished, Work, Goto, WorkInv, FileTypeOK, TypeOK
<1>2. CheckpointIsHand'
  BY <1>1 DEF LinesInv, CheckpointIsHand
<1>3. \A t \in Sessions : Alive(t)' => Alive(t) /\ Line(t)' = Line(t)
  BY <1>1 DEF Line, Mid, Alive
<1> QED
  BY <1>1, <1>2, <1>3, SameLines

LEMMA NextLines ==
  ASSUME IInv, WorkInv, LineageInv, LinesInv, [BWNext]_bwVars
  PROVE  LinesInv' /\ \A t \in Sessions : LineGrows(t)
<1>1. ASSUME NEW s \in Sessions, WorkStep(s)
      PROVE  LinesInv' /\ \A t \in Sessions : LineGrows(t)
  BY <1>1, StageLines, FitLines, WriteLines, FinishedLines, QueueLines
     DEF WorkStep, InitModelFails, MakeDirsFails, Fails
<1>2. ASSUME NEW s \in Sessions, QueueStep(s)
      PROVE  LinesInv' /\ \A t \in Sessions : LineGrows(t)
  BY <1>2, QueueLines DEF QueueStep
<1>3. ASSUME NEW s \in Sessions, (Start(s) \/ Die(s)) /\ UNCHANGED workVars
      PROVE  LinesInv' /\ \A t \in Sessions : LineGrows(t)
  BY <1>3, QueueLines
<1>4. CASE UNCHANGED workVars /\ (Populate \/ (\E i \in Items : Expire(i)) \/ UNCHANGED vars)
  <2>1. UNCHANGED <<pc, hand, removed, stage, checkpoint, model, files>>
    BY <1>4 DEF Populate, Expire, vars, workVars
  <2>2. CheckpointIsHand' /\ \A t \in Sessions : Alive(t)' => Alive(t) /\ Line(t)' = Line(t)
    BY <2>1 DEF LinesInv, CheckpointIsHand, Line, Mid, Alive
  <2> QED
    BY <2>1, <2>2, SameLines
<1> QED
  BY <1>1, <1>2, <1>3, <1>4 DEF BWNext, bwVars

LEMMA LinesInvariance ==
  ASSUME UniqueItems
  PROVE  BWSpec => [](IInv /\ WorkInv /\ LineageInv /\ LinesInv)
<1>1. BWSpec => []IInv
  BY WorkloadUsesQueue, Invariance, PTL
<1>2. IInv /\ WorkInv /\ [BWNext]_bwVars => WorkInv'
  BY NextWorkInv
<1>3. BWInit => LineageInv
  BY DEF BWInit, Init, LineageInv, CheckpointOK, RemovedModels, ModelOK
<1>4. IInv /\ WorkInv /\ LineageInv /\ [BWNext]_bwVars => LineageInv'
  BY NextLineage
<1>5. BWInit => LinesInv
  BY DEF BWInit, Init, LinesInv, SavedIsOwn, CheckpointIsHand, LinesApart, FilesOnLines,
         FilesNested, Line, Mid, Absent
<1>6. IInv /\ WorkInv /\ LineageInv /\ LinesInv /\ [BWNext]_bwVars => LinesInv'
  BY NextLines
<1> QED
  BY <1>1, <1>2, <1>3, <1>4, <1>5, <1>6, InitWorkInv, PTL DEF BWSpec

\* The models that two workers have in hand, or will load next, never share a dataset; a
\* checkpoint lies on its worker's line and apart from the others.
THEOREM WorkersKeepTheirLines ==
  ASSUME UniqueItems
  PROVE  BWSpec => []ModelsAreLineages
<1>1. LinesInv => ModelsAreLineages
  BY DEF LinesInv, ModelsAreLineages
<1> QED
  BY <1>1, LinesInvariance, PTL

\* From the start of a worker to its end, whatever the other workers do, its line changes
\* by nothing but the dataset of the item that it has in hand: it loses no dataset, and
\* gains those of its own items in the order in which it popped them.
THEOREM LinesGrow ==
  ASSUME UniqueItems
  PROVE  BWSpec => [][\A s \in Sessions : LineGrows(s)]_bwVars
<1>1. IInv /\ WorkInv /\ LineageInv /\ LinesInv /\ [BWNext]_bwVars =>
        [\A s \in Sessions : LineGrows(s)]_bwVars
  BY NextLines
<1> QED
  BY <1>1, LinesInvariance, PTL DEF BWSpec

------------------------------------------------------------------------------
(***************************************************************************)
(* What is left of this when files are queued again: two workers may have  *)
(* the same file, and LREM takes the copies of both.  A report is only     *)
(* ever added, and a worker calls complete() after its own.                *)
(***************************************************************************)
Reported(i) == \E k \in 1..Len(reports[i]) : i \in reports[i][k]

HeldReported ==
  \A s \in Sessions :
     /\ pc[s] = "work" =>
          /\ stage[s] \in {"makedirs", "open", "dump", "report", "finished"} => hand[s] \in model[s]
          /\ stage[s] = "finished" => Reported(hand[s])
     /\ pc[s] = "lrem" => Reported(hand[s])

ReportInv == TypeInv /\ FileTypeOK /\ StageOK /\ HeldReported /\ CompletedIsReported

\* Nothing is removed yet.
LEMMA InitReportInv == BWInit => ReportInv
<1> SUFFICES ASSUME BWInit PROVE ReportInv
  OBVIOUS
<1>1. TypeInv
  BY DEF BWInit, Init, TypeInv, TypeOK, HandOK, PCs
<1>2. FileTypeOK
  BY <1>1 DEF BWInit, FileTypeOK, Stages, Absent, TypeInv
<1>3. StageOK /\ HeldReported /\ CompletedIsReported
  BY DEF BWInit, Init, StageOK, HeldReported, CompletedIsReported
<1> QED
  BY <1>1, <1>2, <1>3 DEF ReportInv

\* A report that is added takes none away, and is the report of the item.
LEMMA OneReportMore ==
  ASSUME reports \in [Items -> Seq(SUBSET Items)], NEW h \in Items, NEW m \in SUBSET Items, h \in m,
         reports' = [reports EXCEPT ![h] = Append(@, m)]
  PROVE  /\ Reported(h)'
         /\ \A i \in Items : Reported(i) => Reported(i)'
         /\ reports' \in [Items -> Seq(SUBSET Items)]
<1>1. /\ reports[h] \in Seq(SUBSET Items) /\ Len(reports[h]) \in Nat
      /\ reports'[h] = Append(reports[h], m)
  OBVIOUS
<1>2. /\ reports'[h] \in Seq(SUBSET Items)
      /\ Len(reports'[h]) = Len(reports[h]) + 1
      /\ reports'[h][Len(reports[h]) + 1] = m
      /\ \A k \in 1..Len(reports[h]) : reports'[h][k] = reports[h][k]
  BY <1>1
<1>3. Reported(h)'
  <2>1. Len(reports[h]) + 1 \in 1..Len(reports'[h])
    BY <1>1, <1>2
  <2> QED
    BY <1>2, <2>1 DEF Reported
<1>4. ASSUME NEW i \in Items, Reported(i) PROVE Reported(i)'
  <2>1. CASE i = h
    BY <1>3, <2>1
  <2>2. CASE i # h
    BY <1>4, <2>2 DEF Reported
  <2> QED
    BY <2>1, <2>2
<1>5. reports' \in [Items -> Seq(SUBSET Items)]
  BY <1>2
<1> QED
  BY <1>3, <1>4, <1>5

\* The work on an item adds the item to the model, and the model to the report.
LEMMA WorkKeepsReportInv ==
  ASSUME ReportInv, TypeInv', NEW s \in Sessions, WorkStep(s)
  PROVE  ReportInv'
<1> DEFINE i == hand[s]
<1>1. pc[s] = "work" /\ UNCHANGED <<removed>>
  BY DEF WorkStep, InitModel, InitModelFails, Fit, MakeDirs, MakeDirsFails, OpenCheckpoint,
         DumpCheckpoint, Report, Finished, Stage, Fails, Work, Raise, Gone, vars
<1>2. /\ i \in Items /\ removed \subseteq Items /\ pc \in [Sessions -> PCs]
      /\ hand \in [Sessions -> Items \cup {None}]
      /\ \A t \in Sessions : pc[t] \in {"work", "lrem"} => hand[t] \in Items
  BY <1>1 DEF ReportInv, TypeInv, TypeOK, HandOK
<1>3. /\ stage \in [Sessions -> Stages]
      /\ checkpoint \in [Sessions -> Items \cup {None}]
      /\ model \in [Sessions -> SUBSET Items]
      /\ outputDir \in BOOLEAN
      /\ files \in [Items -> [state : {"absent", "truncated", "saved"}, model : SUBSET Items]]
      /\ reports \in [Items -> Seq(SUBSET Items)]
  BY DEF ReportInv, FileTypeOK
<1>4. StageOK /\ HeldReported /\ CompletedIsReported
  BY DEF ReportInv
<1>5. CASE InitModel(s) \/ Fit(s) \/ MakeDirs(s) \/ OpenCheckpoint(s) \/ DumpCheckpoint(s)
  <2>1. UNCHANGED <<pc, hand, removed, reports>>
    BY <1>5 DEF InitModel, Fit, MakeDirs, OpenCheckpoint, DumpCheckpoint, Stage, vars
  <2>2. /\ stage' = [stage EXCEPT ![s] = stage'[s]]
        /\ model' = [model EXCEPT ![s] = model'[s]]
        /\ model'[s] \subseteq Items
        /\ stage'[s] \in {"fit", "makedirs", "open", "dump", "report"}
        /\ stage'[s] # "fit" => i \in model'[s]
        /\ outputDir' \in BOOLEAN
        /\ checkpoint' \in [Sessions -> Items \cup {None}]
        /\ files' \in [Items -> [state : {"absent", "truncated", "saved"}, model : SUBSET Items]]
    <3>1. CASE InitModel(s)
      BY <1>2, <1>3, <3>1 DEF InitModel, Stage
    <3>2. CASE Fit(s)
      BY <1>2, <1>3, <3>2 DEF Fit, Stage
    <3>3. CASE MakeDirs(s)
      BY <1>1, <1>2, <1>3, <1>4, <3>3 DEF MakeDirs, Stage, HeldReported
    <3>4. CASE OpenCheckpoint(s)
      BY <1>1, <1>2, <1>3, <1>4, <3>4 DEF OpenCheckpoint, Stage, HeldReported, Truncated
    <3>5. CASE DumpCheckpoint(s)
      BY <1>1, <1>2, <1>3, <1>4, <3>5 DEF DumpCheckpoint, Stage, HeldReported, Saved
    <3> QED
      BY <1>5, <3>1, <3>2, <3>3, <3>4, <3>5
  <2>3. FileTypeOK'
    BY <1>3, <2>1, <2>2 DEF FileTypeOK, Stages, TypeInv
  <2>4. StageOK'
    BY <1>1, <1>3, <1>4, <2>1, <2>2 DEF StageOK
  <2>5. HeldReported' /\ CompletedIsReported'
    BY <1>3, <1>4, <2>1, <2>2 DEF HeldReported, CompletedIsReported, Reported
  <2> QED
    BY <2>3, <2>4, <2>5 DEF ReportInv
<1>6. CASE Report(s)
  <2>1. /\ UNCHANGED <<pc, hand, removed, checkpoint, model, outputDir, files>>
        /\ stage[s] = "report" /\ stage' = [stage EXCEPT ![s] = "finished"]
        /\ reports' = [reports EXCEPT ![i] = Append(@, model[s])]
    BY <1>6 DEF Report, Stage, vars
  <2>2. i \in model[s] /\ model[s] \in SUBSET Items
    BY <1>1, <1>3, <1>4, <2>1 DEF HeldReported
  <2>3. /\ Reported(i)' /\ \A j \in Items : Reported(j) => Reported(j)'
        /\ reports' \in [Items -> Seq(SUBSET Items)]
    <3>1. PICK h \in Items : h = i
      BY <1>2
    <3>2. PICK m \in SUBSET Items : m = model[s]
      BY <2>2
    <3>3. h \in m /\ reports' = [reports EXCEPT ![h] = Append(@, m)]
      BY <2>1, <2>2, <3>1, <3>2
    <3>4. /\ Reported(h)' /\ \A j \in Items : Reported(j) => Reported(j)'
          /\ reports' \in [Items -> Seq(SUBSET Items)]
      BY <1>3, <3>3, OneReportMore
    <3>5. i' = h
      BY <2>1, <3>1
    <3> QED
      BY <3>4, <3>5 DEF Reported
  <2>4. FileTypeOK'
    BY <1>3, <2>1, <2>3 DEF FileTypeOK, Stages, TypeInv
  <2>5. StageOK'
    BY <1>1, <1>3, <1>4, <2>1 DEF StageOK
  <2>6. HeldReported'
    <3> SUFFICES ASSUME NEW t \in Sessions
                 PROVE  /\ pc[t] = "work" =>
                             /\ stage'[t] \in {"makedirs", "open", "dump", "report", "finished"}
                                  => hand[t] \in model[t]
                             /\ stage'[t] = "finished" => Reported(hand[t])'
                        /\ pc[t] = "lrem" => Reported(hand[t])'
      BY <2>1 DEF HeldReported, Reported
    <3>1. CASE t = s
      BY <1>1, <1>3, <2>1, <2>2, <2>3, <3>1
    <3>2. CASE t # s
      BY <1>2, <1>3, <1>4, <2>1, <2>3, <3>2 DEF HeldReported
    <3> QED
      BY <3>1, <3>2
  <2>7. CompletedIsReported'
    <3>1. \A j \in removed : Reported(j)'
      BY <1>2, <1>4, <2>3 DEF CompletedIsReported, Reported
    <3> QED
      BY <2>1, <3>1 DEF CompletedIsReported, Reported
  <2> QED
    BY <2>4, <2>5, <2>6, <2>7 DEF ReportInv
<1>7. CASE Finished(s)
  <2>1. /\ stage[s] = "finished" /\ stage' = [stage EXCEPT ![s] = "init"]
        /\ pc' = [pc EXCEPT ![s] = "lrem"]
        /\ UNCHANGED <<hand, removed, checkpoint, model, outputDir, files, reports>>
    BY <1>7 DEF Finished, Work, Goto
  <2>2. FileTypeOK' /\ StageOK'
    BY <1>2, <1>3, <1>4, <2>1 DEF FileTypeOK, Stages, TypeInv, StageOK
  <2>3. HeldReported' /\ CompletedIsReported'
    BY <1>1, <1>2, <1>3, <1>4, <2>1 DEF HeldReported, CompletedIsReported, Reported
  <2> QED
    BY <2>2, <2>3 DEF ReportInv
<1>8. CASE InitModelFails(s) \/ MakeDirsFails(s)
  <2>1. /\ hand' = [hand EXCEPT ![s] = None] /\ pc' = [pc EXCEPT ![s] = "failed"]
        /\ UNCHANGED <<removed, stage, checkpoint, model, outputDir, files, reports>>
    BY <1>8 DEF InitModelFails, MakeDirsFails, Fails, Raise, Gone, Goto, workVars
  <2>2. FileTypeOK' /\ StageOK'
    BY <1>2, <1>3, <1>4, <2>1 DEF FileTypeOK, TypeInv, StageOK
  <2>3. HeldReported' /\ CompletedIsReported'
    BY <1>2, <1>4, <2>1 DEF HeldReported, CompletedIsReported, Reported
  <2> QED
    BY <2>2, <2>3 DEF ReportInv
<1> QED
  BY <1>5, <1>6, <1>7, <1>8 DEF WorkStep

\* The commands to Redis take items, and remove what has been reported.
LEMMA QueueKeepsReportInv ==
  ASSUME ReportInv, TypeInv', UNCHANGED workVars,
         \/ \E s \in Sessions : QueueStep(s) \/ Start(s) \/ Die(s)
         \/ Populate \/ (\E i \in Items : Expire(i)) \/ UNCHANGED vars
  PROVE  ReportInv'
<1>1. FileTypeOK'
  BY DEF ReportInv, FileTypeOK, TypeInv, workVars
<1>2. /\ pc \in [Sessions -> PCs] /\ hand \in [Sessions -> Items \cup {None}]
      /\ StageOK /\ HeldReported /\ CompletedIsReported
  BY DEF ReportInv, TypeInv, TypeOK
<1>3. UNCHANGED <<stage, model, reports>>
  BY DEF workVars
<1>4. CASE UNCHANGED <<pc, hand, removed>>
  BY <1>1, <1>2, <1>3, <1>4 DEF ReportInv, StageOK, HeldReported, CompletedIsReported, Reported
<1>5. ASSUME NEW s \in Sessions,
             \/ Start(s) \/ LLenMain(s) \/ LLenProcessing(s) \/ PopTimeout(s)
             \/ Pop(s) \/ Del(s) \/ Die(s)
      PROVE  ReportInv'
  <2>1. /\ pc' = [pc EXCEPT ![s] = pc'[s]] /\ hand' = [hand EXCEPT ![s] = hand'[s]]
        /\ removed' = removed /\ pc'[s] \notin {"work", "lrem"}
        /\ pc'[s] \notin {"failed", "dead"} => pc[s] \notin {"work", "failed", "dead"}
    BY <1>2, <1>5 DEF Start, LLenMain, LLenProcessing, PopTimeout, Pop, Del, Die, Gone, Goto
  <2>2. StageOK'
    BY <1>2, <1>3, <2>1 DEF StageOK
  <2>3. HeldReported' /\ CompletedIsReported'
    BY <1>2, <1>3, <2>1 DEF HeldReported, CompletedIsReported, Reported
  <2> QED
    BY <1>1, <2>2, <2>3 DEF ReportInv
<1>6. ASSUME NEW s \in Sessions, SetLease(s)
      PROVE  ReportInv'
  <2>1. /\ pc[s] = "setex" /\ pc' = [pc EXCEPT ![s] = "work"] /\ UNCHANGED <<hand, removed>>
    BY <1>6 DEF SetLease, Goto
  <2>2. stage[s] = "init"
    BY <1>2, <2>1 DEF StageOK
  <2>3. StageOK'
    BY <1>2, <1>3, <2>1, <2>2 DEF StageOK
  <2>4. HeldReported' /\ CompletedIsReported'
    BY <1>2, <1>3, <2>1, <2>2 DEF HeldReported, CompletedIsReported, Reported
  <2> QED
    BY <1>1, <2>3, <2>4 DEF ReportInv
<1>7. ASSUME NEW s \in Sessions, LRem(s)
      PROVE  ReportInv'
  <2>1. /\ pc[s] = "lrem" /\ pc' = [pc EXCEPT ![s] = "del"] /\ hand' = hand
        /\ removed' = removed \cup {hand[s]}
    BY <1>7 DEF LRem, Goto
  <2>2. Reported(hand[s])
    BY <1>2, <2>1 DEF HeldReported
  <2>3. StageOK'
    BY <1>2, <1>3, <2>1 DEF StageOK
  <2>4. HeldReported' /\ CompletedIsReported'
    BY <1>2, <1>3, <2>1, <2>2 DEF HeldReported, CompletedIsReported, Reported
  <2> QED
    BY <1>1, <2>3, <2>4 DEF ReportInv
<1>8. CASE Populate \/ (\E i \in Items : Expire(i)) \/ UNCHANGED vars
  BY <1>4, <1>8 DEF Populate, Expire, vars
<1> QED
  BY <1>5, <1>6, <1>7, <1>8 DEF QueueStep

\* ReportInv is inductive, for any batches.
LEMMA NextReportInv ==
  ASSUME ReportInv, [BWNext]_bwVars
  PROVE  ReportInv'
<1>1. TypeInv'
  BY BWStepIsQueueStep, TypeInvInductive DEF ReportInv
<1>2. ASSUME NEW s \in Sessions, WorkStep(s)
      PROVE  ReportInv'
  BY <1>1, <1>2, WorkKeepsReportInv
<1>3. ASSUME UNCHANGED workVars,
             \/ \E s \in Sessions : QueueStep(s) \/ Start(s) \/ Die(s)
             \/ Populate \/ (\E i \in Items : Expire(i)) \/ UNCHANGED vars
      PROVE  ReportInv'
  BY <1>1, <1>3, QueueKeepsReportInv
<1> QED
  BY <1>2, <1>3 DEF BWNext, QueueStep, bwVars

\* What has left the queue has been reported by a model that was fitted on it, however
\* often files are queued, whatever the workers do meanwhile (complete() comes after
\* generate_report in worker.py).
THEOREM CompletedWorkIsReported == BWSpec => []CompletedIsReported
<1>1. ReportInv /\ [BWNext]_bwVars => ReportInv'
  BY NextReportInv
<1>2. ReportInv => CompletedIsReported
  BY DEF ReportInv
<1> QED
  BY InitReportInv, <1>1, <1>2, PTL DEF BWSpec
==============================================================================
