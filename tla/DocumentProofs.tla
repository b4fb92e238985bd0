--------------------------- MODULE DocumentProofs ---------------------------
(***************************************************************************)
(* Proofs about the documents and the chat over them.                      *)
(*                                                                         *)
(* EmbedDocs: its safety properties, and that it implements DocIndex, for  *)
(* any number of uploads, batches, failed pods, redelivered events and     *)
(* whatever the databases and the names of the objects are.                *)
(*                                                                         *)
(* RagChat: that a session leaves the documents alone, and that its page,  *)
(* its memory and its prompt agree, for any number of inputs, window of    *)
(* the memory, number of results and of documents.                         *)
(***************************************************************************)
EXTENDS RagChat, SequenceTheorems, FiniteSetTheorems, TLAPS

\* The actions, without the names of the programs.  InsertBatch and InsertAll are both
\* an InsertUpTo.
Cases(g) ==
  \/ Redeliver(g)
  \/ \E n \in Namespaces : Notify(g, n)
  \/ StartPod(g) \/ Download(g) \/ Exists(g) \/ Create(g) \/ GetOrCreate(g)
  \/ \E last \in 1..Pieces : InsertUpTo(g, last)
  \/ Succeed(g) \/ PodFails(g) \/ Expire(g)

\* Only an active Job has a pod, and it has failed pods to spare.
PodsAreOfJobs ==
  \A g \in Generations :
    /\ pod[g] # "none" => job[g] = "active"
    /\ job[g] = "active" => failures[g] <= BackoffLimit

\* There is no event, and no Job, of a version that has not been uploaded.
JobsFollowUploads ==
  \A g \in Generations : (event[g] # "none" \/ job[g] # "none") => g <= uploaded

\* What a pod has downloaded is the version of its event or a newer one.
ContentIsNewer ==
  \A g \in Generations :
    pod[g] \in {"exists", "create", "insert", "print"} =>
      /\ content[g] \in Generations
      /\ g <= content[g] /\ content[g] <= uploaded
      /\ ObjectOf[content[g]] = ObjectOf[g]

\* A pod counts the batches that it has inserted.
InsertedIsThere ==
  \A g \in Generations :
    /\ pod[g] \in {"download", "exists", "create"} => inserted[g] = 0
    /\ pod[g] \in {"insert", "print"} => \A k \in 1..inserted[g] : VectorOf(g, k) \in vectors
    /\ pod[g] = "print" => inserted[g] = Pieces

\* Vectors are of a Job of the past, or of the present one and of no later attempt.
VectorsAreOfThePast ==
  \A v \in vectors :
    /\ v.run <= run[v.job]
    /\ v.run = run[v.job] => v.attempt <= failures[v.job]

\* A Job whose pod has reported success starts no other pod.
DoneIsOver ==
  \A d \in done :
    /\ d.run <= run[d.job]
    /\ d.run = run[d.job] => job[d.job] # "active"

IInv ==
  /\ TypeOK /\ PodsAreOfJobs /\ JobsFollowUploads /\ ContentIsNewer
  /\ InsertedIsThere /\ VectorsAreOfThePast /\ DoneIsOver
  /\ ReportedIsSearchable /\ NeverOlderThanEvent /\ NoAttemptAfterSuccess

------------------------------------------------------------------------------
\* The programs of the four databases are made of these actions.
LEMMA StepCases ==
  ASSUME TypeOK, NEW g \in Generations, Step(g)
  PROVE  Cases(g)
<1> USE EmbedAssumption
<1>1. CASE Redeliver(g) BY <1>1 DEF Cases
<1>2. CASE Endpoint(g)
  <2>1. \A n \in {"qdrant", "pg-ns", "elastic"} : n \in Namespaces BY DEF Namespaces
  <2>2. jobNamespace \in Namespaces BY DEF TypeOK
  <2> QED BY <1>2, <2>1, <2>2
       DEF Endpoint, QdrantNotify, PgvectorNotify, WeaviateNotify, ElasticNotify, Cases
<1>3. CASE StartPod(g) BY <1>3 DEF Cases
<1>4. CASE Program(g)
  <2>1. inserted[g] \in 0..Pieces BY DEF TypeOK
  <2>2. InsertBatch(g) => \E last \in 1..Pieces : InsertUpTo(g, last)
    <3>1. inserted[g] < Pieces => inserted[g] + 1 \in 1..Pieces BY <2>1
    <3> QED BY <3>1 DEF InsertBatch
  <2>3. InsertAll(g) => \E last \in 1..Pieces : InsertUpTo(g, last)
    <3>1. Pieces \in 1..Pieces OBVIOUS
    <3> QED BY <3>1 DEF InsertAll
  <2> QED BY <1>4, <2>2, <2>3
       DEF Program, QdrantJob, PgvectorJob, WeaviateJob, ElasticJob, Cases
<1>5. CASE PodFails(g) BY <1>5 DEF Cases
<1>6. CASE Expire(g) BY <1>6 DEF Cases
<1> QED BY <1>1, <1>2, <1>3, <1>4, <1>5, <1>6 DEF Step

LEMMA InitIInv == Init => IInv
<1> SUFFICES ASSUME Init PROVE IInv OBVIOUS
<1> USE EmbedAssumption DEF Init
<1>1. store \in Stores /\ jobNamespace \in Namespaces
  <2>1. PICK s \in Settings : store = s[1] /\ jobNamespace = s[2] OBVIOUS
  <2>2. s \in Stores \X Namespaces BY <2>1
  <2> QED BY <2>1, <2>2
<1>2. TypeOK
  <2>1. 0 \in 0..N /\ 0 \in 0..MaxRedeliveries /\ 0 \in 0..Pieces /\ 0 \in 0..(BackoffLimit + 1)
    BY SMT
  <2>2. job \in [Generations -> {"none", "active", "complete", "failed"}] /\ pod \in [Generations -> PodStages]
        /\ event \in [Generations -> {"none", "pending", "acknowledged"}]
    BY DEF PodStages
  <2>3. run \in [Generations -> Nat] /\ failures \in [Generations -> 0..(BackoffLimit + 1)]
        /\ content \in [Generations -> 0..N] /\ inserted \in [Generations -> 0..Pieces]
    BY <2>1
  <2> QED BY <1>1, <2>1, <2>2, <2>3 DEF TypeOK
<1> QED BY <1>2 DEF IInv, PodsAreOfJobs, JobsFollowUploads, ContentIsNewer, InsertedIsThere,
       VectorsAreOfThePast, DoneIsOver, ReportedIsSearchable, NeverOlderThanEvent,
       NoAttemptAfterSuccess

\* A new version, with an event and no Job.
LEMMA UploadIInv == IInv /\ Upload => IInv'
<1> SUFFICES ASSUME IInv, Upload PROVE IInv' OBVIOUS
<1> USE EmbedAssumption DEF IInv, Upload, jobVars
<1>1. TypeOK'
  <2>1. uploaded' \in 0..N BY DEF TypeOK
  <2>2. event' \in [Generations -> {"none", "pending", "acknowledged"}] BY DEF TypeOK
  <2> QED BY <2>1, <2>2 DEF TypeOK
<1>2. PodsAreOfJobs' BY DEF PodsAreOfJobs
<1>3. uploaded' = uploaded + 1 /\ uploaded \in Nat BY DEF TypeOK
<1>4. JobsFollowUploads'
  <2> SUFFICES ASSUME NEW g \in Generations, event'[g] # "none" \/ job'[g] # "none"
               PROVE  g <= uploaded'
    BY DEF JobsFollowUploads
  <2>1. g \in Nat BY DEF Generations
  <2>2. CASE g = uploaded + 1 BY <2>2, <1>3
  <2>3. CASE g # uploaded + 1
    <3>1. event'[g] = event[g] BY <2>3 DEF TypeOK
    <3>2. g <= uploaded BY <3>1 DEF JobsFollowUploads
    <3> QED BY <3>2, <2>1, <1>3
  <2> QED BY <2>2, <2>3
<1>5. ContentIsNewer'
  <2>1. \A g \in Generations : content[g] \in 0..N BY DEF TypeOK
  <2> QED BY <1>3, <2>1 DEF ContentIsNewer
<1>6. InsertedIsThere' BY DEF InsertedIsThere, VectorOf
<1>7. VectorsAreOfThePast' /\ DoneIsOver' BY DEF VectorsAreOfThePast, DoneIsOver
<1>8. ReportedIsSearchable' /\ NeverOlderThanEvent' /\ NoAttemptAfterSuccess'
  BY DEF ReportedIsSearchable, Complete, NeverOlderThanEvent, NoAttemptAfterSuccess
<1> QED BY <1>1, <1>2, <1>4, <1>5, <1>6, <1>7, <1>8

LEMMA RedeliverIInv == ASSUME IInv, NEW g \in Generations, Redeliver(g) PROVE IInv'
<1> USE EmbedAssumption DEF IInv, Redeliver, jobVars
<1>1. TypeOK'
  <2>1. redeliveries + 1 \in 0..MaxRedeliveries BY DEF TypeOK
  <2> QED BY <2>1 DEF TypeOK
<1>2. JobsFollowUploads' BY DEF JobsFollowUploads, TypeOK
<1>3. PodsAreOfJobs' /\ ContentIsNewer' /\ InsertedIsThere'
  BY DEF PodsAreOfJobs, ContentIsNewer, InsertedIsThere, VectorOf
<1>4. VectorsAreOfThePast' /\ DoneIsOver' BY DEF VectorsAreOfThePast, DoneIsOver
<1>5. ReportedIsSearchable' /\ NeverOlderThanEvent' /\ NoAttemptAfterSuccess'
  BY DEF ReportedIsSearchable, Complete, NeverOlderThanEvent, NoAttemptAfterSuccess
<1> QED BY <1>1, <1>2, <1>3, <1>4, <1>5

\* A Job has a number that no vector and no report has.
LEMMA JobCreatedIInv ==
  ASSUME IInv, NEW g \in Generations, JobCreated(g), event[g] = "pending",
         event' \in [Generations -> {"none", "pending", "acknowledged"}],
         \A h \in Generations \ {g} : event'[h] = event[h],
         redeliveries' \in 0..MaxRedeliveries,
         UNCHANGED <<store, jobNamespace, uploaded, collection, vectors, done>>
  PROVE  IInv'
<1> USE EmbedAssumption DEF IInv, JobCreated
<1>1. TypeOK'
  <2>1. 0 \in 0..N /\ 0 \in 0..Pieces /\ 0 \in 0..(BackoffLimit + 1) BY SMT
  <2>2. job' \in [Generations -> {"none", "active", "complete", "failed"}] /\ pod' \in [Generations -> PodStages]
    BY DEF TypeOK, PodStages
  <2>3. run' \in [Generations -> Nat] /\ failures' \in [Generations -> 0..(BackoffLimit + 1)]
        /\ content' \in [Generations -> 0..N] /\ inserted' \in [Generations -> 0..Pieces]
    BY <2>1 DEF TypeOK
  <2> QED BY <2>2, <2>3 DEF TypeOK
<1>2. PodsAreOfJobs' BY DEF PodsAreOfJobs, TypeOK
<1>3. JobsFollowUploads'
  <2>1. g <= uploaded BY DEF JobsFollowUploads
  <2>2. \A h \in Generations \ {g} : job'[h] = job[h] BY DEF TypeOK
  <2> QED BY <2>1, <2>2 DEF JobsFollowUploads
<1>4. ContentIsNewer' BY DEF ContentIsNewer, TypeOK
<1>5. InsertedIsThere' BY DEF InsertedIsThere, VectorOf, TypeOK
<1>6. \A h \in Generations : /\ run[h] \in Nat
                             /\ h # g => run'[h] = run[h] /\ job'[h] = job[h] /\ failures'[h] = failures[h]
                             /\ h = g => run'[h] = run[h] + 1
  BY DEF TypeOK
<1>7. VectorsAreOfThePast'
  <2>1. \A v \in vectors : v.job \in Generations /\ v.run \in Nat BY DEF TypeOK, Vector
  <2> QED BY <1>6, <2>1 DEF VectorsAreOfThePast
<1>8. DoneIsOver'
  <2>1. \A d \in done : d.job \in Generations /\ d.run \in Nat BY DEF TypeOK
  <2> QED BY <1>6, <2>1 DEF DoneIsOver
<1>9. ReportedIsSearchable' /\ NeverOlderThanEvent' /\ NoAttemptAfterSuccess'
  BY DEF ReportedIsSearchable, Complete, NeverOlderThanEvent, NoAttemptAfterSuccess
<1> QED BY <1>1, <1>2, <1>3, <1>4, <1>5, <1>7, <1>8, <1>9

LEMMA NotifyIInv ==
  ASSUME IInv, NEW g \in Generations, NEW n \in Namespaces, Notify(g, n) PROVE IInv'
<1> USE EmbedAssumption DEF IInv
<1>1. CASE Acknowledge(g, n) /\ Created(g, n)
  <2>1. /\ JobCreated(g) /\ event[g] = "pending"
        /\ event' = [event EXCEPT ![g] = "acknowledged"]
        /\ UNCHANGED <<store, jobNamespace, uploaded, redeliveries, collection, vectors, done>>
    BY <1>1 DEF Acknowledge, Created
  <2>2. /\ event' \in [Generations -> {"none", "pending", "acknowledged"}]
        /\ \A h \in Generations \ {g} : event'[h] = event[h]
        /\ redeliveries' \in 0..MaxRedeliveries
    BY <2>1 DEF TypeOK
  <2> QED BY <2>1, <2>2, JobCreatedIInv
<1>2. CASE Acknowledge(g, n) /\ UNCHANGED jobVars
  <2> USE <1>2 DEF Acknowledge, jobVars
  <2>1. TypeOK' BY DEF TypeOK
  <2>2. JobsFollowUploads' BY DEF JobsFollowUploads, TypeOK
  <2>3. PodsAreOfJobs' /\ ContentIsNewer' /\ InsertedIsThere'
    BY DEF PodsAreOfJobs, ContentIsNewer, InsertedIsThere, VectorOf
  <2>4. VectorsAreOfThePast' /\ DoneIsOver' BY DEF VectorsAreOfThePast, DoneIsOver
  <2>5. ReportedIsSearchable' /\ NeverOlderThanEvent' /\ NoAttemptAfterSuccess'
    BY DEF ReportedIsSearchable, Complete, NeverOlderThanEvent, NoAttemptAfterSuccess
  <2> QED BY <2>1, <2>2, <2>3, <2>4, <2>5
<1>3. CASE Unanswered(g, n)
  <2>1. /\ JobCreated(g) /\ event[g] = "pending" /\ event' = event
        /\ redeliveries < MaxRedeliveries /\ redeliveries' = redeliveries + 1
        /\ UNCHANGED <<store, jobNamespace, uploaded, collection, vectors, done>>
    BY <1>3 DEF Unanswered, Created
  <2>2. /\ event' \in [Generations -> {"none", "pending", "acknowledged"}]
        /\ redeliveries' \in 0..MaxRedeliveries
    BY <2>1 DEF TypeOK
  <2> QED BY <2>1, <2>2, JobCreatedIInv
<1> QED BY <1>1, <1>2, <1>3 DEF Notify, Acknowledge

LEMMA StartPodIInv == ASSUME IInv, NEW g \in Generations, StartPod(g) PROVE IInv'
<1> USE EmbedAssumption DEF IInv, StartPod, Goto, unchangedOutside
<1>1. TypeOK'
  <2>1. 0 \in 0..N /\ 0 \in 0..Pieces BY SMT
  <2> QED BY <2>1 DEF TypeOK, PodStages
<1>2. PodsAreOfJobs' BY DEF PodsAreOfJobs, TypeOK
<1>3. JobsFollowUploads' BY DEF JobsFollowUploads
<1>4. ContentIsNewer' BY DEF ContentIsNewer, TypeOK
<1>5. InsertedIsThere' BY DEF InsertedIsThere, VectorOf, TypeOK
<1>6. VectorsAreOfThePast' /\ DoneIsOver' BY DEF VectorsAreOfThePast, DoneIsOver
<1>7. ReportedIsSearchable' /\ NeverOlderThanEvent' /\ NoAttemptAfterSuccess'
  BY DEF ReportedIsSearchable, Complete, NeverOlderThanEvent, NoAttemptAfterSuccess
<1> QED BY <1>1, <1>2, <1>3, <1>4, <1>5, <1>6, <1>7

\* The newest version of the object is not older than the one of the event, which has
\* been uploaded.
LEMMA DownloadIInv == ASSUME IInv, NEW g \in Generations, Download(g) PROVE IInv'
<1> USE EmbedAssumption DEF IInv, Goto, unchangedOutside
<1>0. PICK c \in Generations : Newest(g, c) /\ content' = [content EXCEPT ![g] = c]
  BY DEF Download
<1>1. /\ pod[g] = "download" /\ pod' = [pod EXCEPT ![g] = "exists"]
      /\ UNCHANGED <<store, jobNamespace, uploaded, event, redeliveries, job, run,
                     failures, inserted, collection, vectors, done>>
  BY DEF Download
<1>2. c \in 0..N BY DEF Generations
<1>3. TypeOK' BY <1>0, <1>1, <1>2 DEF TypeOK, PodStages
<1>4. PodsAreOfJobs' BY <1>1 DEF PodsAreOfJobs, TypeOK
<1>5. JobsFollowUploads' BY <1>1 DEF JobsFollowUploads
<1>6. g <= c /\ c <= uploaded /\ ObjectOf[c] = ObjectOf[g]
  <2>1. job[g] # "none" BY <1>1 DEF PodsAreOfJobs
  <2>2. g <= uploaded BY <2>1 DEF JobsFollowUploads
  <2> QED BY <1>0, <2>2 DEF Newest
<1>7. ContentIsNewer'
  <2> SUFFICES ASSUME NEW h \in Generations, pod'[h] \in {"exists", "create", "insert", "print"}
               PROVE  /\ content'[h] \in Generations
                      /\ h <= content'[h] /\ content'[h] <= uploaded'
                      /\ ObjectOf[content'[h]] = ObjectOf[h]
    BY DEF ContentIsNewer
  <2>1. CASE h = g BY <2>1, <1>0, <1>1, <1>6 DEF TypeOK
  <2>2. CASE h # g
    <3>1. content'[h] = content[h] /\ pod'[h] = pod[h] BY <2>2, <1>0, <1>1 DEF TypeOK
    <3> QED BY <3>1, <1>1 DEF ContentIsNewer
  <2> QED BY <2>1, <2>2
<1>8. InsertedIsThere'
  <2>1. \A h \in Generations : h # g => content'[h] = content[h] /\ pod'[h] = pod[h]
    BY <1>0, <1>1 DEF TypeOK
  <2>2. pod'[g] = "exists" BY <1>1 DEF TypeOK
  <2> QED BY <1>1, <2>1, <2>2 DEF InsertedIsThere, VectorOf
<1>9. VectorsAreOfThePast' /\ DoneIsOver' BY <1>1 DEF VectorsAreOfThePast, DoneIsOver
<1>10. ReportedIsSearchable' /\ NeverOlderThanEvent' /\ NoAttemptAfterSuccess'
  BY <1>1 DEF ReportedIsSearchable, Complete, NeverOlderThanEvent, NoAttemptAfterSuccess
<1> QED BY <1>3, <1>4, <1>5, <1>7, <1>8, <1>9, <1>10

\* The three ways to come from "exists" to "insert".
LEMMA MakeCollectionIInv ==
  ASSUME IInv, NEW g \in Generations, Exists(g) \/ Create(g) \/ GetOrCreate(g) PROVE IInv'
<1> USE EmbedAssumption DEF IInv, Goto, unchangedOutside
<1>1. /\ pod[g] \in {"exists", "create"}
      /\ pod' = [pod EXCEPT ![g] = "insert"] \/ pod' = [pod EXCEPT ![g] = "create"]
      /\ collection' \in BOOLEAN
      /\ UNCHANGED <<store, jobNamespace, uploaded, event, redeliveries, job, run,
                     failures, content, inserted, vectors, done>>
  BY DEF Exists, Create, GetOrCreate, TypeOK
<1>2. \A h \in Generations : h # g => pod'[h] = pod[h] BY <1>1 DEF TypeOK
<1>3. pod'[g] \in {"create", "insert"} BY <1>1 DEF TypeOK
<1>4. TypeOK' BY <1>1 DEF TypeOK, PodStages
<1>5. PodsAreOfJobs' BY <1>1, <1>2, <1>3 DEF PodsAreOfJobs
<1>6. JobsFollowUploads' BY <1>1 DEF JobsFollowUploads
<1>7. ContentIsNewer' BY <1>1, <1>2, <1>3 DEF ContentIsNewer
<1>8. InsertedIsThere'
  <2>1. inserted[g] = 0 BY <1>1 DEF InsertedIsThere
  <2> QED BY <1>1, <1>2, <1>3, <2>1 DEF InsertedIsThere, VectorOf
<1>9. VectorsAreOfThePast' /\ DoneIsOver' BY <1>1 DEF VectorsAreOfThePast, DoneIsOver
<1>10. ReportedIsSearchable' /\ NeverOlderThanEvent' /\ NoAttemptAfterSuccess'
  BY <1>1 DEF ReportedIsSearchable, Complete, NeverOlderThanEvent, NoAttemptAfterSuccess
<1> QED BY <1>4, <1>5, <1>6, <1>7, <1>8, <1>9, <1>10

\* The new vectors are of the present attempt of a Job that has not reported success.
LEMMA InsertUpToIInv ==
  ASSUME IInv, NEW g \in Generations, NEW last \in 1..Pieces, InsertUpTo(g, last) PROVE IInv'
<1> USE EmbedAssumption DEF IInv, Goto, unchangedOutside
<1> DEFINE New == {VectorOf(g, k) : k \in (inserted[g] + 1)..last}
<1>1. /\ pod[g] = "insert"
      /\ vectors' = vectors \cup New
      /\ inserted' = [inserted EXCEPT ![g] = last]
      /\ pod' = [pod EXCEPT ![g] = IF last = Pieces THEN "print" ELSE "insert"]
      /\ UNCHANGED <<store, jobNamespace, uploaded, event, redeliveries, job, run,
                     failures, content, collection, done>>
  BY DEF InsertUpTo
<1>2. /\ run[g] \in Nat /\ failures[g] \in Attempts /\ content[g] \in Generations
      /\ inserted[g] \in 0..Pieces /\ job[g] = "active"
  BY <1>1 DEF TypeOK, PodsAreOfJobs, ContentIsNewer, Attempts
<1>3. \A v \in New : /\ v.job = g /\ v.run = run[g] /\ v.attempt = failures[g]
                     /\ v \in Vector
  <2> SUFFICES ASSUME NEW k \in (inserted[g] + 1)..last
               PROVE  LET v == VectorOf(g, k) IN
                      v.job = g /\ v.run = run[g] /\ v.attempt = failures[g] /\ v \in Vector
    OBVIOUS
  <2>1. k \in 1..Pieces BY <1>2
  <2> QED BY <1>2, <2>1 DEF VectorOf, Vector
<1>4. \A h \in Generations : h # g => pod'[h] = pod[h] /\ inserted'[h] = inserted[h]
  BY <1>1 DEF TypeOK
<1>5. pod'[g] \in {"insert", "print"} /\ (pod'[g] = "print" => last = Pieces) /\ inserted'[g] = last
  BY <1>1 DEF TypeOK
<1>6. TypeOK'
  <2>1. inserted' \in [Generations -> 0..Pieces] BY <1>1 DEF TypeOK
  <2>2. pod' \in [Generations -> PodStages] BY <1>1 DEF TypeOK, PodStages
  <2>3. vectors' \subseteq Vector BY <1>1, <1>3 DEF TypeOK
  <2> QED BY <1>1, <2>1, <2>2, <2>3 DEF TypeOK
<1>7. PodsAreOfJobs' BY <1>1, <1>2, <1>4 DEF PodsAreOfJobs
<1>8. JobsFollowUploads' BY <1>1 DEF JobsFollowUploads
<1>9. ContentIsNewer' BY <1>1, <1>4, <1>5 DEF ContentIsNewer
<1>10. InsertedIsThere'
  <2>1. \A h, k : VectorOf(h, k)' = VectorOf(h, k) BY <1>1 DEF VectorOf
  <2>2. \A k \in 1..last : VectorOf(g, k) \in vectors'
    <3> SUFFICES ASSUME NEW k \in 1..last PROVE VectorOf(g, k) \in vectors' OBVIOUS
    <3>1. k \in 1..inserted[g] \/ k \in (inserted[g] + 1)..last BY <1>2
    <3>2. k \in 1..inserted[g] => VectorOf(g, k) \in vectors BY <1>1 DEF InsertedIsThere
    <3> QED BY <1>1, <3>1, <3>2
  <2> SUFFICES ASSUME NEW h \in Generations
               PROVE  /\ pod'[h] \in {"download", "exists", "create"} => inserted'[h] = 0
                      /\ pod'[h] \in {"insert", "print"} =>
                           \A k \in 1..inserted'[h] : VectorOf(h, k)' \in vectors'
                      /\ pod'[h] = "print" => inserted'[h] = Pieces
    BY DEF InsertedIsThere
  <2>3. CASE h = g BY <2>1, <2>2, <2>3, <1>5
  <2>4. CASE h # g BY <2>1, <2>4, <1>1, <1>4 DEF InsertedIsThere
  <2> QED BY <2>3, <2>4
<1>11. VectorsAreOfThePast'
  <2>1. \A v \in New : v.run <= run[v.job] /\ v.attempt <= failures[v.job]
    BY <1>2, <1>3 DEF Attempts
  <2> QED BY <1>1, <2>1 DEF VectorsAreOfThePast
<1>12. DoneIsOver' BY <1>1 DEF DoneIsOver
<1>13. ReportedIsSearchable' BY <1>1 DEF ReportedIsSearchable, Complete
<1>14. NeverOlderThanEvent' BY <1>1 DEF NeverOlderThanEvent
<1>15. NoAttemptAfterSuccess'
  <2>1. \A d \in done : d.job = g => d.run # run[g] BY <1>2 DEF DoneIsOver
  <2> QED BY <1>1, <1>3, <2>1 DEF NoAttemptAfterSuccess
<1> QED BY <1>6, <1>7, <1>8, <1>9, <1>10, <1>11, <1>12, <1>13, <1>14, <1>15

\* What is reported has been inserted as a whole, and the Job is over.
LEMMA SucceedIInv == ASSUME IInv, NEW g \in Generations, Succeed(g) PROVE IInv'
<1> USE EmbedAssumption DEF IInv, Goto, unchangedOutside
<1> DEFINE d == [job |-> g, run |-> run[g], attempt |-> failures[g], content |-> content[g]]
<1>1. /\ pod[g] = "print" /\ done' = done \cup {d}
      /\ pod' = [pod EXCEPT ![g] = "none"] /\ job' = [job EXCEPT ![g] = "complete"]
      /\ UNCHANGED <<store, jobNamespace, uploaded, event, redeliveries, run,
                     failures, content, inserted, collection, vectors>>
  BY DEF Succeed
<1>2. /\ run[g] \in Nat /\ failures[g] \in Attempts /\ content[g] \in Generations
      /\ job[g] = "active" /\ inserted[g] = Pieces
      /\ g <= content[g] /\ ObjectOf[content[g]] = ObjectOf[g]
  BY <1>1 DEF TypeOK, PodsAreOfJobs, ContentIsNewer, Attempts, InsertedIsThere
<1>3. d \in [job : Generations, run : Nat, attempt : Attempts, content : Generations]
  BY <1>2
<1>4. d.job = g /\ d.run = run[g] /\ d.attempt = failures[g] /\ d.content = content[g]
  OBVIOUS
<1> HIDE DEF d
<1>5. \A h \in Generations : h # g => pod'[h] = pod[h] /\ job'[h] = job[h] BY <1>1 DEF TypeOK
<1>6. pod'[g] = "none" /\ job'[g] = "complete" BY <1>1 DEF TypeOK
<1>7. TypeOK'
  <2>1. pod' \in [Generations -> PodStages] BY <1>1 DEF TypeOK, PodStages
  <2>2. job' \in [Generations -> {"none", "active", "complete", "failed"}] BY <1>1 DEF TypeOK
  <2>3. done' \subseteq [job : Generations, run : Nat, attempt : Attempts, content : Generations]
    BY <1>1, <1>3 DEF TypeOK
  <2> QED BY <1>1, <2>1, <2>2, <2>3 DEF TypeOK
<1>8. PodsAreOfJobs' BY <1>1, <1>5, <1>6 DEF PodsAreOfJobs
<1>9. JobsFollowUploads' BY <1>1, <1>2, <1>5 DEF JobsFollowUploads
<1>10. ContentIsNewer' BY <1>1, <1>5, <1>6 DEF ContentIsNewer
<1>11. InsertedIsThere' BY <1>1, <1>5, <1>6 DEF InsertedIsThere, VectorOf
<1>12. VectorsAreOfThePast' BY <1>1 DEF VectorsAreOfThePast
<1>13. DoneIsOver'
  <2>1. \A e \in done : e.job \in Generations BY DEF TypeOK
  <2>2. d.run <= run[d.job] /\ job'[d.job] # "active" BY <1>2, <1>4, <1>6
  <2> QED BY <1>1, <1>5, <1>6, <2>1, <2>2 DEF DoneIsOver
<1>14. ReportedIsSearchable'
  <2>1. \A k \in 1..Pieces : VectorOf(g, k) \in vectors BY <1>1, <1>2 DEF InsertedIsThere
  <2>2. Complete(content[g])' BY <1>1, <2>1 DEF Complete, VectorOf
  <2>3. \A e \in done : Complete(e.content)' BY <1>1 DEF ReportedIsSearchable, Complete
  <2> QED BY <1>1, <1>4, <2>2, <2>3 DEF ReportedIsSearchable, Complete
<1>15. NeverOlderThanEvent' BY <1>1, <1>2, <1>4 DEF NeverOlderThanEvent
<1>16. NoAttemptAfterSuccess'
  <2>1. \A v \in vectors : v.job = g /\ v.run = run[g] => v.attempt <= failures[g]
    BY DEF VectorsAreOfThePast
  <2> QED BY <1>1, <1>4, <2>1 DEF NoAttemptAfterSuccess
<1> QED BY <1>7, <1>8, <1>9, <1>10, <1>11, <1>12, <1>13, <1>14, <1>15, <1>16

\* A failed pod, and its successor if there is one, add to the attempts.
LEMMA PodFailsIInv == ASSUME IInv, NEW g \in Generations, PodFails(g) PROVE IInv'
<1> USE EmbedAssumption DEF IInv, Goto, unchangedOutside
<1>1. /\ pod[g] # "none" /\ pod' = [pod EXCEPT ![g] = "none"]
      /\ failures' = [failures EXCEPT ![g] = @ + 1]
      /\ job' = [job EXCEPT ![g] = IF failures[g] < BackoffLimit THEN "active" ELSE "failed"]
      /\ UNCHANGED <<store, jobNamespace, uploaded, event, redeliveries, run,
                     content, inserted, collection, vectors, done>>
  BY DEF PodFails
<1>2. failures[g] \in Attempts /\ job[g] = "active" BY <1>1 DEF TypeOK, PodsAreOfJobs, Attempts
<1>3. \A h \in Generations :
        h # g => pod'[h] = pod[h] /\ job'[h] = job[h] /\ failures'[h] = failures[h]
  BY <1>1 DEF TypeOK
<1>4. /\ pod'[g] = "none" /\ failures'[g] = failures[g] + 1 /\ job'[g] \in {"active", "failed"}
      /\ job'[g] = "active" => failures[g] < BackoffLimit
  BY <1>1 DEF TypeOK
<1>5. TypeOK'
  <2>1. pod' \in [Generations -> PodStages] BY <1>1 DEF TypeOK, PodStages
  <2>2. job' \in [Generations -> {"none", "active", "complete", "failed"}] BY <1>1 DEF TypeOK
  <2>3. failures[g] + 1 \in 0..(BackoffLimit + 1) BY <1>2 DEF Attempts
  <2>4. failures' \in [Generations -> 0..(BackoffLimit + 1)] BY <1>1, <2>3 DEF TypeOK
  <2> QED BY <1>1, <2>1, <2>2, <2>4 DEF TypeOK
<1>6. PodsAreOfJobs'
  <2>1. failures[g] \in Nat BY <1>2 DEF Attempts
  <2>2. job'[g] = "active" => failures'[g] <= BackoffLimit BY <1>4, <2>1
  <2> QED BY <1>3, <1>4, <2>2 DEF PodsAreOfJobs
<1>7. JobsFollowUploads' BY <1>1, <1>2, <1>3 DEF JobsFollowUploads
<1>8. ContentIsNewer' BY <1>1, <1>3, <1>4 DEF ContentIsNewer
<1>9. InsertedIsThere' BY <1>1, <1>3, <1>4 DEF InsertedIsThere, VectorOf
<1>10. VectorsAreOfThePast'
  <2>1. \A v \in vectors : v.job \in Generations /\ v.attempt \in Nat
    BY DEF TypeOK, Vector, Attempts
  <2>2. failures[g] \in Nat BY <1>2 DEF Attempts
  <2> QED BY <1>1, <1>3, <1>4, <2>1, <2>2 DEF VectorsAreOfThePast
<1>11. DoneIsOver'
  <2>1. \A e \in done : e.job \in Generations BY DEF TypeOK
  <2> QED BY <1>1, <1>2, <1>3, <2>1 DEF DoneIsOver
<1>12. ReportedIsSearchable' /\ NeverOlderThanEvent' /\ NoAttemptAfterSuccess'
  BY <1>1 DEF ReportedIsSearchable, Complete, NeverOlderThanEvent, NoAttemptAfterSuccess
<1> QED BY <1>5, <1>6, <1>7, <1>8, <1>9, <1>10, <1>11, <1>12

\* The numbers of the Job remain when it is deleted.
LEMMA ExpireIInv == ASSUME IInv, NEW g \in Generations, Expire(g) PROVE IInv'
<1> USE EmbedAssumption DEF IInv, unchangedOutside
<1>1. /\ job[g] \in {"complete", "failed"} /\ job' = [job EXCEPT ![g] = "none"]
      /\ UNCHANGED <<store, jobNamespace, uploaded, event, redeliveries, run, failures, pod,
                     content, inserted, collection, vectors, done>>
  BY DEF Expire
<1>2. \A h \in Generations : h # g => job'[h] = job[h] BY <1>1 DEF TypeOK
<1>3. job'[g] = "none" BY <1>1 DEF TypeOK
<1>4. TypeOK'
  <2>1. job' \in [Generations -> {"none", "active", "complete", "failed"}] BY <1>1 DEF TypeOK
  <2> QED BY <1>1, <2>1 DEF TypeOK
<1>5. PodsAreOfJobs' BY <1>1, <1>2, <1>3 DEF PodsAreOfJobs
<1>6. JobsFollowUploads' BY <1>1, <1>2, <1>3 DEF JobsFollowUploads
<1>7. ContentIsNewer' /\ InsertedIsThere' BY <1>1 DEF ContentIsNewer, InsertedIsThere, VectorOf
<1>8. VectorsAreOfThePast' BY <1>1 DEF VectorsAreOfThePast
<1>9. DoneIsOver'
  <2>1. \A e \in done : e.job \in Generations BY DEF TypeOK
  <2> QED BY <1>1, <1>2, <1>3, <2>1 DEF DoneIsOver
<1>10. ReportedIsSearchable' /\ NeverOlderThanEvent' /\ NoAttemptAfterSuccess'
  BY <1>1 DEF ReportedIsSearchable, Complete, NeverOlderThanEvent, NoAttemptAfterSuccess
<1> QED BY <1>4, <1>5, <1>6, <1>7, <1>8, <1>9, <1>10

LEMMA UnchangedIInv == IInv /\ UNCHANGED docVars => IInv'
<1> SUFFICES ASSUME IInv, UNCHANGED docVars PROVE IInv' OBVIOUS
<1> USE DEF IInv, docVars
<1>1. TypeOK' /\ PodsAreOfJobs' /\ JobsFollowUploads' /\ ContentIsNewer'
  BY DEF TypeOK, PodsAreOfJobs, JobsFollowUploads, ContentIsNewer
<1>2. InsertedIsThere' /\ VectorsAreOfThePast' /\ DoneIsOver'
  BY DEF InsertedIsThere, VectorOf, VectorsAreOfThePast, DoneIsOver
<1>3. ReportedIsSearchable' /\ NeverOlderThanEvent' /\ NoAttemptAfterSuccess'
  BY DEF ReportedIsSearchable, Complete, NeverOlderThanEvent, NoAttemptAfterSuccess
<1> QED BY <1>1, <1>2, <1>3

LEMMA NextIInv == IInv /\ [Next]_docVars => IInv'
<1> SUFFICES ASSUME IInv, [Next]_docVars PROVE IInv' OBVIOUS
<1>1. CASE UNCHANGED docVars BY <1>1, UnchangedIInv
<1>2. CASE Upload BY <1>2, UploadIInv
<1>3. CASE \E g \in Generations : Step(g)
  <2>1. PICK g \in Generations : Step(g) BY <1>3
  <2>2. Cases(g) BY <2>1, StepCases DEF IInv
  <2>3. CASE Redeliver(g) BY <2>3, RedeliverIInv
  <2>4. CASE \E n \in Namespaces : Notify(g, n) BY <2>4, NotifyIInv
  <2>5. CASE StartPod(g) BY <2>5, StartPodIInv
  <2>6. CASE Download(g) BY <2>6, DownloadIInv
  <2>7. CASE Exists(g) \/ Create(g) \/ GetOrCreate(g) BY <2>7, MakeCollectionIInv
  <2>8. CASE \E last \in 1..Pieces : InsertUpTo(g, last) BY <2>8, InsertUpToIInv
  <2>9. CASE Succeed(g) BY <2>9, SucceedIInv
  <2>10. CASE PodFails(g) BY <2>10, PodFailsIInv
  <2>11. CASE Expire(g) BY <2>11, ExpireIInv
  <2> QED BY <2>2, <2>3, <2>4, <2>5, <2>6, <2>7, <2>8, <2>9, <2>10, <2>11 DEF Cases
<1> QED BY <1>1, <1>2, <1>3 DEF Next

\* The inductive invariant holds throughout.
THEOREM DocInvariant == Spec => []IInv
<1>1. Init => IInv BY InitIInv
<1>2. IInv /\ [Next]_docVars => IInv' BY NextIInv
<1> QED BY <1>1, <1>2, PTL DEF Spec

\* The variables keep their types; among others, a Job of endpoint.py never has more
\* than BackoffLimit + 1 failed pods.
THEOREM DocTypeCorrect == Spec => []TypeOK
<1>1. IInv => TypeOK BY DEF IInv
<1> QED BY <1>1, DocInvariant, PTL

\* What embedding-job.py has reported as "successfully embedded" is in the collection,
\* whole, and stays there.
THEOREM ReportsAreTrue == Spec => []ReportedIsSearchable
<1>1. IInv => ReportedIsSearchable BY DEF IInv
<1> QED BY <1>1, DocInvariant, PTL

\* A Job, which is named by a generation but downloads by the name of the object, never
\* embeds an older version than that of its event.
THEOREM JobsAreUpToDate == Spec => []NeverOlderThanEvent
<1>1. IInv => NeverOlderThanEvent BY DEF IInv
<1> QED BY <1>1, DocInvariant, PTL

\* A Job inserts nothing after one of its pods has reported success.
THEOREM SuccessIsLast == Spec => []NoAttemptAfterSuccess
<1>1. IInv => NoAttemptAfterSuccess BY DEF IInv
<1> QED BY <1>1, DocInvariant, PTL

------------------------------------------------------------------------------
\* A batch makes at most one more version searchable, the one that the pod has.
LEMMA InsertIndexes ==
  ASSUME IInv, NEW g \in Generations, NEW last \in 1..Pieces, InsertUpTo(g, last)
  PROVE  content[g] \in Generations /\ (DI!Index(content[g]) \/ UNCHANGED <<uploaded, Searchable>>)
<1> USE EmbedAssumption DEF unchangedOutside
<1> DEFINE New == {VectorOf(g, k) : k \in (inserted[g] + 1)..last}
<1>1. pod[g] = "insert" /\ vectors' = vectors \cup New /\ uploaded' = uploaded
  BY DEF InsertUpTo
<1>2. content[g] \in Generations /\ content[g] <= uploaded
  BY <1>1 DEF IInv, ContentIsNewer
<1>3. \A v \in New : v.content = content[g] BY DEF VectorOf
<1> HIDE DEF New
<1> DEFINE Has(V, c) == \A k \in 1..Pieces : \E v \in V : v.content = c /\ v.piece = k
<1>4. /\ Searchable = {c \in Generations : Has(vectors, c)}
      /\ Searchable' = {c \in Generations : Has(vectors', c)}
  BY DEF Searchable, Complete, Generations
<1>5. \A c \in Generations : Has(vectors, c) => Has(vectors', c) BY <1>1
<1>6. \A c \in Generations : Has(vectors', c) /\ c # content[g] => Has(vectors, c)
  BY <1>1, <1>3
<1> HIDE DEF Has
<1>7. CASE Has(vectors', content[g])
  <2>1. Searchable' = Searchable \cup {content[g]} BY <1>2, <1>4, <1>5, <1>6, <1>7
  <2> QED BY <1>1, <1>2, <2>1 DEF DI!Index
<1>8. CASE ~Has(vectors', content[g])
  <2>1. Searchable' = Searchable BY <1>4, <1>5, <1>6, <1>8
  <2> QED BY <1>1, <1>2, <2>1
<1> QED BY <1>7, <1>8

LEMMA DocStepSimulation == IInv /\ [Next]_docVars => [DI!Next]_DI!vars
<1> SUFFICES ASSUME IInv, [Next]_docVars PROVE [DI!Next]_DI!vars OBVIOUS
<1>1. ASSUME UNCHANGED <<uploaded, vectors>> PROVE UNCHANGED DI!vars
  BY <1>1 DEF DI!vars, Searchable, Complete, Generations
<1>2. CASE UNCHANGED docVars BY <1>1, <1>2 DEF docVars
<1>3. CASE Upload
  <2>1. uploaded + 1 \in Generations BY <1>3, EmbedAssumption DEF IInv, TypeOK, Upload, Generations
  <2>2. Searchable' = Searchable BY <1>3 DEF Upload, Searchable, Complete, Generations
  <2>3. DI!Upload BY <1>3, <2>1, <2>2 DEF Upload, DI!Upload
  <2> QED BY <2>3 DEF DI!Next
<1>4. CASE \E g \in Generations : Step(g)
  <2>1. PICK g \in Generations : Step(g) BY <1>4
  <2>2. Cases(g) BY <2>1, StepCases DEF IInv
  <2>3. CASE \E last \in 1..Pieces : InsertUpTo(g, last)
    BY <2>3, InsertIndexes DEF DI!Next, DI!vars
  <2>4. CASE ~ \E last \in 1..Pieces : InsertUpTo(g, last)
    <3>1. UNCHANGED <<uploaded, vectors>>
      BY <2>2, <2>4 DEF Cases, Redeliver, Notify, Acknowledge, Unanswered, StartPod, Download,
         Exists, Create, GetOrCreate, Succeed, PodFails, Expire, unchangedOutside
    <3> QED BY <3>1, <1>1
  <2> QED BY <2>3, <2>4
<1> QED BY <1>2, <1>3, <1>4 DEF Next

\* The service implements DocIndex, the promise that the chatbots rely on.
THEOREM DocRefinement == Spec => ImplementsDocIndex
<1>1. Init => DI!Init
  <2>1. Pieces \in 1..Pieces BY EmbedAssumption
  <2> QED BY <2>1 DEF Init, DI!Init, Searchable, Complete
<1>2. IInv /\ [Next]_docVars => [DI!Next]_DI!vars BY DocStepSimulation
<1> QED BY <1>1, <1>2, DocInvariant, PTL DEF Spec, ImplementsDocIndex, DI!Spec

------------------------------------------------------------------------------
(* The chat. *)

Message == [role : {"human", "ai"}, about : Nat]

ChatTypeOK ==
  /\ script \in {"closed", "idle", "typed", "asked", "searched", "shown"}
  /\ question \in Nat
  /\ messages \in Seq(Message)
  /\ memory \in Seq(Nat)

\* The page `ms` shows an answer to q, and the memory `mem` has it.
IsAnswered(ms, q) == \E j \in 2..Len(ms) : ms[j] = Ai(q)
IsSaved(mem, q)   == \E i \in 1..Len(mem) : mem[i] = q

\* What is at the end of the page, at each stage of the script.
PageOK ==
  /\ script = "closed" => question = 0 /\ memory = <<>>
  /\ script # "closed" => Len(messages) >= 1
  /\ script \in {"asked", "searched"} =>
       Len(messages) >= 2 /\ messages[Len(messages)] = Human(question)
  /\ script = "shown" => Len(messages) >= 2 /\ messages[Len(messages)] = Ai(question)
  /\ \A i \in 2..Len(messages) :
       messages[i].role = "ai" => messages[i - 1] = Human(messages[i].about)

\* The memory is of answered questions, in their order, and the present one is the
\* last of them or not in it yet.
MemoryOK ==
  /\ \A i \in 1..Len(memory) : /\ IsAnswered(messages, memory[i])
                               /\ memory[i] <= question
                               /\ script # "idle" => memory[i] < question
  /\ \A i, j \in 1..Len(memory) : i < j => memory[i] < memory[j]
  /\ script = "searched" => history = LoadMemory

NothingElseIsLost ==
  \A q \in 1..question : \/ q \in cut
                         \/ IsAnswered(messages, q) /\ IsSaved(memory, q)
                         \/ q = question /\ script # "idle"

ChatInv == ChatTypeOK /\ PageOK /\ MemoryOK /\ NothingElseIsLost

\* Whoever inserts or has reported success has seen the collection, which nobody drops.
CollectionOK ==
  /\ \A g \in Generations : pod[g] \in {"insert", "print"} => collection
  /\ done # {} => collection
  /\ IsFiniteSet(vectors)

RagInv == IInv /\ CollectionOK /\ ChatInv

ChatCases ==
  \/ \E makes \in BOOLEAN : Open(makes) \/ Submit(makes)
  \/ Run \/ Stops

------------------------------------------------------------------------------
\* The first lines of chat.py make the collection, or do nothing, and no document
\* becomes more or less searchable.
LEMMA ConnectKeepsDocs ==
  ASSUME IInv, CollectionOK, NEW makes \in BOOLEAN, Connect(makes)
  PROVE  IInv' /\ CollectionOK'
<1> USE DEF IInv, Connect, unchangedOutside, jobVars
<1>1. TypeOK' BY DEF TypeOK
<1>2. PodsAreOfJobs' /\ JobsFollowUploads' /\ ContentIsNewer'
  BY DEF PodsAreOfJobs, JobsFollowUploads, ContentIsNewer
<1>3. InsertedIsThere' /\ VectorsAreOfThePast' /\ DoneIsOver'
  BY DEF InsertedIsThere, VectorOf, VectorsAreOfThePast, DoneIsOver
<1>4. ReportedIsSearchable' /\ NeverOlderThanEvent' /\ NoAttemptAfterSuccess'
  BY DEF ReportedIsSearchable, Complete, NeverOlderThanEvent, NoAttemptAfterSuccess
<1>5. CollectionOK' BY DEF CollectionOK
<1> QED BY <1>1, <1>2, <1>3, <1>4, <1>5

\* A pod that goes on to insert has found the collection or made it.
LEMMA DocStepCollection ==
  ASSUME IInv, CollectionOK, [Next]_docVars
  PROVE  CollectionOK'
<1> USE EmbedAssumption DEF CollectionOK, unchangedOutside
<1>1. CASE UNCHANGED docVars BY <1>1 DEF docVars
<1>2. CASE Upload BY <1>2 DEF Upload, jobVars
<1>3. CASE \E g \in Generations : Step(g)
  <2>1. PICK g \in Generations : Step(g) BY <1>3
  <2>2. Cases(g) BY <2>1, StepCases DEF IInv
  <2> USE DEF IInv, TypeOK
  <2>3. CASE Redeliver(g) BY <2>3 DEF Redeliver, jobVars
  <2>4. CASE \E n \in Namespaces : Notify(g, n)
    <3>1. PICK n \in Namespaces : Notify(g, n) BY <2>4
    <3>2. /\ pod' = pod \/ pod' = [pod EXCEPT ![g] = "none"]
          /\ UNCHANGED <<collection, vectors, done>>
      BY <3>1 DEF Notify, Acknowledge, Unanswered, Created, JobCreated, jobVars
    <3> QED BY <3>2
  <2>5. CASE StartPod(g) BY <2>5 DEF StartPod, Goto
  <2>6. CASE Download(g) BY <2>6 DEF Download, Goto
  <2>7. CASE Exists(g) \/ Create(g) \/ GetOrCreate(g) BY <2>7 DEF Exists, Create, GetOrCreate, Goto
  <2>8. CASE \E last \in 1..Pieces : InsertUpTo(g, last)
    <3>1. PICK last \in 1..Pieces : InsertUpTo(g, last) BY <2>8
    <3> DEFINE New == {VectorOf(g, k) : k \in (inserted[g] + 1)..last}
    <3>2. IsFiniteSet(New)
      <4>1. inserted[g] + 1 \in Int /\ last \in Int OBVIOUS
      <4>2. IsFiniteSet((inserted[g] + 1)..last) BY <4>1, FS_Interval
      <4> DEFINE f == [k \in (inserted[g] + 1)..last |-> VectorOf(g, k)]
      <4>3. f \in Surjection((inserted[g] + 1)..last, New) BY DEF Surjection
      <4> QED BY <4>2, <4>3, FS_Surjection
    <3>3. vectors' = vectors \cup New BY <3>1 DEF InsertUpTo
    <3> HIDE DEF New
    <3>4. IsFiniteSet(vectors') BY <3>2, <3>3, FS_Union
    <3> QED BY <3>1, <3>4 DEF InsertUpTo, Goto
  <2>9. CASE Succeed(g) BY <2>9 DEF Succeed, Goto
  <2>10. CASE PodFails(g) BY <2>10 DEF PodFails, Goto
  <2>11. CASE Expire(g) BY <2>11 DEF Expire
  <2> QED BY <2>2, <2>3, <2>4, <2>5, <2>6, <2>7, <2>8, <2>9, <2>10, <2>11 DEF Cases
<1> QED BY <1>1, <1>2, <1>3 DEF Next

------------------------------------------------------------------------------
\* What is on a page remains there when a message is added below it.
LEMMA AppendedPage ==
  ASSUME NEW ms \in Seq(Message), NEW m \in Message
  PROVE  /\ Append(ms, m) \in Seq(Message)
         /\ Len(Append(ms, m)) = Len(ms) + 1
         /\ \A i \in 1..Len(ms) : Append(ms, m)[i] = ms[i]
         /\ Append(ms, m)[Len(ms) + 1] = m
         /\ \A q : IsAnswered(ms, q) => IsAnswered(Append(ms, m), q)
<1>1. /\ Append(ms, m) \in Seq(Message)
      /\ Len(Append(ms, m)) = Len(ms) + 1
      /\ \A i \in 1..Len(ms) : Append(ms, m)[i] = ms[i]
      /\ Append(ms, m)[Len(ms) + 1] = m
  BY AppendProperties
<1>2. Len(ms) \in Nat BY LenProperties
<1>3. ASSUME NEW q, IsAnswered(ms, q) PROVE IsAnswered(Append(ms, m), q)
  <2>1. PICK j \in 2..Len(ms) : ms[j] = Ai(q) BY <1>3 DEF IsAnswered
  <2>2. j \in 2..Len(Append(ms, m)) /\ Append(ms, m)[j] = Ai(q) BY <1>1, <1>2, <2>1
  <2> QED BY <2>2 DEF IsAnswered
<1> QED BY <1>1, <1>3

LEMMA MessagesAreMessages == \A q \in Nat : Human(q) \in Message /\ Ai(q) \in Message
BY DEF Message, Human, Ai

\* An answer is not a question.
LEMMA RolesDiffer == \A q : Human(q).role = "human" /\ Ai(q).role = "ai" /\ Ai(q).about = q
BY DEF Human, Ai

LEMMA OpenChatInv == ASSUME ChatInv, NEW makes \in BOOLEAN, Open(makes) PROVE ChatInv'
<1> USE DEF ChatInv, Open
<1>1. messages' \in Seq(Message) /\ Len(messages') = 1
  BY MessagesAreMessages DEF Open
<1>2. question = 0 /\ memory = <<>> BY DEF PageOK
<1>3. ChatTypeOK' BY <1>1 DEF ChatTypeOK
<1>4. PageOK' BY <1>1, <1>2 DEF PageOK
<1>5. MemoryOK' BY <1>2 DEF MemoryOK
<1>6. NothingElseIsLost' BY <1>2 DEF NothingElseIsLost
<1> QED BY <1>3, <1>4, <1>5, <1>6

LEMMA SubmitChatInv == ASSUME ChatInv, NEW makes \in BOOLEAN, Submit(makes) PROVE ChatInv'
<1> USE DEF ChatInv, Submit, Running
<1>1. question \in Nat /\ question' = question + 1 /\ UNCHANGED <<messages, memory>>
      /\ script' = "typed" /\ script \in {"idle", "typed", "searched", "shown"}
  BY DEF ChatTypeOK
<1>2. ChatTypeOK' BY <1>1 DEF ChatTypeOK
<1>3. PageOK' BY <1>1 DEF PageOK
<1>4. MemoryOK'
  <2>1. \A i \in 1..Len(memory) : memory[i] \in Nat BY ElementOfSeq DEF ChatTypeOK
  <2> QED BY <1>1, <2>1 DEF MemoryOK
<1>5. NothingElseIsLost'
  <2> SUFFICES ASSUME NEW q \in 1..question'
               PROVE  \/ q \in cut'
                      \/ IsAnswered(messages, q) /\ IsSaved(memory, q)
                      \/ q = question'
    BY <1>1 DEF NothingElseIsLost
  <2>1. cut \subseteq cut' /\ (script # "idle" => question \in cut') BY <1>1
  <2>2. q \in 1..question \/ q = question' BY <1>1
  <2> QED BY <2>1, <2>2 DEF NothingElseIsLost
<1> QED BY <1>2, <1>3, <1>4, <1>5

LEMMA AppendHumanChatInv == ChatInv /\ AppendHuman => ChatInv'
<1> SUFFICES ASSUME ChatInv, AppendHuman PROVE ChatInv' OBVIOUS
<1> USE DEF ChatInv, AppendHuman
<1> DEFINE m == Human(question)
<1>1. question \in Nat /\ m \in Message /\ messages \in Seq(Message)
  BY MessagesAreMessages DEF ChatTypeOK
<1>2. /\ messages' \in Seq(Message)
      /\ Len(messages') = Len(messages) + 1
      /\ \A i \in 1..Len(messages) : messages'[i] = messages[i]
      /\ messages'[Len(messages) + 1] = m
      /\ \A q : IsAnswered(messages, q) => IsAnswered(messages', q)
  BY <1>1, AppendedPage
<1>3. Len(messages) \in Nat /\ Len(messages) >= 1 BY <1>1, LenProperties DEF PageOK
<1>4. m.role = "human" BY RolesDiffer
<1>5. ChatTypeOK' BY <1>2 DEF ChatTypeOK
<1>6. PageOK'
  <2>1. ASSUME NEW i \in 2..Len(messages'), messages'[i].role = "ai"
        PROVE  messages'[i - 1] = Human(messages'[i].about)
    <3>1. i \in 2..Len(messages) BY <1>2, <1>3, <1>4, <2>1
    <3>2. i \in 1..Len(messages) /\ i - 1 \in 1..Len(messages) BY <1>3, <3>1
    <3> QED BY <1>2, <2>1, <3>1, <3>2 DEF PageOK
  <2>2. Len(messages') >= 2 /\ messages'[Len(messages')] = m BY <1>2, <1>3
  <2> QED BY <2>1, <2>2 DEF PageOK
<1>7. MemoryOK' BY <1>2 DEF MemoryOK
<1>8. NothingElseIsLost' BY <1>2 DEF NothingElseIsLost
<1> QED BY <1>5, <1>6, <1>7, <1>8

LEMMA EndsChatInv == ASSUME ChatInv, script # "closed", Ends PROVE ChatInv'
<1> USE DEF ChatInv, Ends
<1>1. ChatTypeOK' BY DEF ChatTypeOK
<1>2. PageOK' BY DEF PageOK
<1>3. MemoryOK' BY DEF MemoryOK
<1>4. NothingElseIsLost'
  <2>1. cut' = cut \cup {question} OBVIOUS
  <2> QED BY <2>1 DEF NothingElseIsLost
<1> QED BY <1>1, <1>2, <1>3, <1>4

LEMMA SearchChatInv == ChatInv /\ Search => ChatInv'
<1> SUFFICES ASSUME ChatInv, Search PROVE ChatInv' OBVIOUS
<1>1. CASE ~collection BY <1>1, EndsChatInv DEF Search
<1>2. CASE collection
  <2>1. /\ script = "asked" /\ script' = "searched" /\ history' = LoadMemory
        /\ UNCHANGED <<question, messages, memory, cut>>
    BY <1>2 DEF Search
  <2>2. LoadMemory' = LoadMemory BY <2>1 DEF LoadMemory
  <2> USE DEF ChatInv
  <2>3. ChatTypeOK' BY <2>1 DEF ChatTypeOK
  <2>4. PageOK' BY <2>1 DEF PageOK
  <2>5. MemoryOK' BY <2>1, <2>2 DEF MemoryOK
  <2>6. NothingElseIsLost' BY <2>1 DEF NothingElseIsLost
  <2> QED BY <2>3, <2>4, <2>5, <2>6
<1> QED BY <1>1, <1>2

LEMMA AnswerShownChatInv == ChatInv /\ AnswerShown => ChatInv'
<1> SUFFICES ASSUME ChatInv, AnswerShown PROVE ChatInv' OBVIOUS
<1> USE DEF ChatInv, AnswerShown
<1> DEFINE m == Ai(question)
<1>1. question \in Nat /\ m \in Message /\ messages \in Seq(Message)
  BY MessagesAreMessages DEF ChatTypeOK
<1>2. /\ messages' \in Seq(Message)
      /\ Len(messages') = Len(messages) + 1
      /\ \A i \in 1..Len(messages) : messages'[i] = messages[i]
      /\ messages'[Len(messages) + 1] = m
      /\ \A q : IsAnswered(messages, q) => IsAnswered(messages', q)
  BY <1>1, AppendedPage
<1>3. Len(messages) \in Nat /\ Len(messages) >= 2 /\ messages[Len(messages)] = Human(question)
  BY <1>1, LenProperties DEF PageOK
<1>4. m.about = question BY RolesDiffer
<1>5. ChatTypeOK' BY <1>2 DEF ChatTypeOK
<1>6. PageOK'
  <2>1. ASSUME NEW i \in 2..Len(messages'), messages'[i].role = "ai"
        PROVE  messages'[i - 1] = Human(messages'[i].about)
    <3>1. CASE i \in 2..Len(messages)
      <4>1. i \in 1..Len(messages) /\ i - 1 \in 1..Len(messages) BY <1>3, <3>1
      <4> QED BY <1>2, <2>1, <3>1, <4>1 DEF PageOK
    <3>2. CASE i = Len(messages) + 1
      <4>1. i - 1 = Len(messages) /\ i - 1 \in 1..Len(messages) BY <1>3, <3>2
      <4>2. messages'[i - 1] = Human(question) BY <1>2, <1>3, <4>1
      <4> QED BY <1>2, <1>4, <3>2, <4>2
    <3> QED BY <1>2, <1>3, <3>1, <3>2
  <2>2. Len(messages') >= 2 /\ messages'[Len(messages')] = m BY <1>2, <1>3
  <2> QED BY <2>1, <2>2 DEF PageOK
<1>7. MemoryOK' BY <1>2 DEF MemoryOK
<1>8. NothingElseIsLost' BY <1>2 DEF NothingElseIsLost
<1> QED BY <1>5, <1>6, <1>7, <1>8

LEMMA SaveContextChatInv == ChatInv /\ SaveContext => ChatInv'
<1> SUFFICES ASSUME ChatInv, SaveContext PROVE ChatInv' OBVIOUS
<1> USE DEF ChatInv, SaveContext
<1>1. question \in Nat /\ memory \in Seq(Nat) /\ messages \in Seq(Message) BY DEF ChatTypeOK
<1>2. /\ memory' \in Seq(Nat)
      /\ Len(memory') = Len(memory) + 1
      /\ \A i \in 1..Len(memory) : memory'[i] = memory[i]
      /\ memory'[Len(memory) + 1] = question
  BY <1>1, AppendProperties
<1>3. Len(memory) \in Nat /\ Len(messages) \in Nat BY <1>1, LenProperties
<1>4. \A i \in 1..Len(memory) : memory[i] \in Nat BY <1>1, ElementOfSeq
<1>5. IsAnswered(messages, question)
  <2>1. Len(messages) \in 2..Len(messages) /\ messages[Len(messages)] = Ai(question)
    BY <1>3 DEF PageOK
  <2> QED BY <2>1 DEF IsAnswered
<1>6. ChatTypeOK' BY <1>2 DEF ChatTypeOK
<1>7. PageOK' BY DEF PageOK
<1>8. MemoryOK'
  <2>1. \A i \in 1..Len(memory) : IsAnswered(messages, memory[i]) /\ memory[i] < question
    BY DEF MemoryOK
  <2>2. \A i \in 1..Len(memory') : i \in 1..Len(memory) \/ i = Len(memory) + 1 BY <1>2, <1>3
  <2>3. \A i \in 1..Len(memory') : IsAnswered(messages, memory'[i]) /\ memory'[i] <= question
    BY <1>1, <1>2, <1>4, <1>5, <2>1, <2>2
  <2>4. \A i, j \in 1..Len(memory') : i < j => memory'[i] < memory'[j]
    <3> SUFFICES ASSUME NEW i \in 1..Len(memory'), NEW j \in 1..Len(memory'), i < j
                 PROVE  memory'[i] < memory'[j]
      OBVIOUS
    <3>1. i \in 1..Len(memory) BY <1>2, <1>3
    <3>2. CASE j \in 1..Len(memory) BY <1>2, <3>1, <3>2 DEF MemoryOK
    <3>3. CASE j = Len(memory) + 1 BY <1>2, <2>1, <3>1, <3>3
    <3> QED BY <2>2, <3>2, <3>3
  <2> QED BY <2>3, <2>4 DEF MemoryOK
<1>9. NothingElseIsLost'
  <2>1. \A q : IsSaved(memory, q) => IsSaved(memory', q)
    <3> SUFFICES ASSUME NEW q, IsSaved(memory, q) PROVE IsSaved(memory', q) OBVIOUS
    <3>1. PICK i \in 1..Len(memory) : memory[i] = q BY DEF IsSaved
    <3>2. i \in 1..Len(memory') /\ memory'[i] = q BY <1>2, <1>3, <3>1
    <3> QED BY <3>2 DEF IsSaved
  <2>2. IsSaved(memory', question)
    <3>1. Len(memory) + 1 \in 1..Len(memory') BY <1>2, <1>3
    <3> QED BY <1>2, <3>1 DEF IsSaved
  <2> QED BY <1>5, <2>1, <2>2 DEF NothingElseIsLost
<1> QED BY <1>6, <1>7, <1>8, <1>9

LEMMA UnchangedChatInv == ChatInv /\ UNCHANGED chatVars => ChatInv'
BY DEF ChatInv, chatVars, ChatTypeOK, PageOK, MemoryOK, LoadMemory, NothingElseIsLost

------------------------------------------------------------------------------
LEMMA InitRagInv == RagInit => RagInv
<1> SUFFICES ASSUME RagInit PROVE RagInv OBVIOUS
<1>1. IInv BY InitIInv DEF RagInit
<1>2. CollectionOK
  <2>1. \A g \in Generations : pod[g] = "none" BY DEF RagInit, Init
  <2>2. done = {} /\ vectors = {} BY DEF RagInit, Init
  <2> QED BY <2>1, <2>2, FS_EmptySet DEF CollectionOK
<1>3. ChatInv
  <2> USE DEF RagInit, ChatInit
  <2>1. messages = <<>> /\ memory = <<>> /\ question = 0 /\ script = "closed" OBVIOUS
  <2>2. ChatTypeOK BY <2>1 DEF ChatTypeOK
  <2>3. PageOK /\ MemoryOK /\ NothingElseIsLost
    BY <2>1 DEF PageOK, MemoryOK, NothingElseIsLost
  <2> QED BY <2>2, <2>3 DEF ChatInv
<1> QED BY <1>1, <1>2, <1>3 DEF RagInv

\* The four programs do the same, but for whether the constructor makes the collection.
LEMMA ChatStepCases == Chat => ChatCases
BY DEF Chat, QdrantChat, PgvectorChat, WeaviateChat, ElasticChat, ChatCases

LEMMA NextRagInv == RagInv /\ [RagNext]_ragVars => RagInv'
<1> SUFFICES ASSUME RagInv, [RagNext]_ragVars PROVE RagInv' OBVIOUS
<1> USE DEF RagInv
<1>1. ASSUME [Next]_docVars, UNCHANGED chatVars PROVE RagInv'
  BY <1>1, NextIInv, DocStepCollection, UnchangedChatInv
<1>2. ASSUME UNCHANGED docVars PROVE IInv' /\ CollectionOK'
  BY <1>2, NextIInv, DocStepCollection
<1>3. CASE Next /\ UNCHANGED chatVars BY <1>1, <1>3
<1>4. CASE UNCHANGED ragVars BY <1>1, <1>4 DEF ragVars
<1>5. CASE Chat
  <2>1. ChatCases BY <1>5, ChatStepCases
  <2>2. CASE \E makes \in BOOLEAN : Open(makes) \/ Submit(makes)
    <3>1. PICK makes \in BOOLEAN : Open(makes) \/ Submit(makes) BY <2>2
    <3>2. Connect(makes) BY <3>1 DEF Open, Submit
    <3> QED BY <3>1, <3>2, ConnectKeepsDocs, OpenChatInv, SubmitChatInv
  <2>3. CASE Run
    <3>1. UNCHANGED docVars BY <2>3 DEF Run, AppendHuman, Search, Ends, AnswerShown, SaveContext
    <3>2. ChatInv'
      BY <2>3, AppendHumanChatInv, SearchChatInv, AnswerShownChatInv, SaveContextChatInv DEF Run
    <3> QED BY <1>2, <3>1, <3>2
  <2>4. CASE Stops
    <3>1. UNCHANGED docVars BY <2>4 DEF Stops, Ends
    <3>2. script # "closed" BY <2>4 DEF Stops, Running
    <3>3. ChatInv' BY <2>4, <3>2, EndsChatInv DEF Stops
    <3> QED BY <1>2, <3>1, <3>3
  <2> QED BY <2>1, <2>2, <2>3, <2>4 DEF ChatCases
<1> QED BY <1>3, <1>4, <1>5 DEF RagNext

\* The inductive invariant of a session beside the embedding service.
THEOREM ChatInvariant == RagSpec => []RagInv
<1>1. RagInit => RagInv BY InitRagInv
<1>2. RagInv /\ [RagNext]_ragVars => RagInv' BY NextRagInv
<1> QED BY <1>1, <1>2, PTL DEF RagSpec

\* On the page of chat.py an answer stands below its own question, whatever stopped or
\* failed before.
THEOREM AnswersFollow == RagSpec => []AnswerFollowsQuestion
<1>1. RagInv => AnswerFollowsQuestion
  BY DEF RagInv, ChatInv, PageOK, AnswerFollowsQuestion
<1> QED BY <1>1, ChatInvariant, PTL

------------------------------------------------------------------------------
LEMMA AnsweredSet ==
  ASSUME ChatTypeOK, NEW q \in Nat, IsAnswered(messages, q)
  PROVE  q \in Answered
<1>1. PICK j \in 2..Len(messages) : messages[j] = Ai(q) BY DEF IsAnswered
<1>2. Ai(q) \in [role : {"ai"}, about : Nat] /\ Ai(q).about = q BY DEF Ai
<1> QED BY <1>1, <1>2 DEF Answered

\* A question is lost only when its run was stopped or failed: every other one is on the
\* page with its answer, and in the memory, once its run is over.
THEOREM QuestionsAreKept == RagSpec => []OnlyCutQuestionsAreLost
<1>1. RagInv => OnlyCutQuestionsAreLost
  <2> SUFFICES ASSUME RagInv, NEW q \in 1..question, q \notin cut,
                      IsAnswered(messages, q) /\ IsSaved(memory, q)
               PROVE  q \in Answered \cap Saved
    BY DEF RagInv, ChatInv, NothingElseIsLost, OnlyCutQuestionsAreLost
  <2>1. q \in Nat BY DEF RagInv, ChatInv, ChatTypeOK
  <2>2. q \in Answered BY <2>1, AnsweredSet DEF RagInv, ChatInv
  <2>3. q \in Saved BY DEF IsSaved, Saved
  <2> QED BY <2>2, <2>3
<1> QED BY <1>1, ChatInvariant, PTL

LEMMA MaxOfTwo == \A a, b \in Int : Max({a, b}) = IF a >= b THEN a ELSE b
<1> SUFFICES ASSUME NEW a \in Int, NEW b \in Int
             PROVE  Max({a, b}) = IF a >= b THEN a ELSE b
  OBVIOUS
<1> DEFINE Largest(x) == x \in {a, b} /\ \A y \in {a, b} : x >= y
<1>1. Max({a, b}) = CHOOSE x \in {a, b} : \A y \in {a, b} : x >= y BY DEF Max
<1>2. CASE a >= b
  <2>1. Largest(a) /\ \A x \in {a, b} : Largest(x) => x = a BY <1>2
  <2> QED BY <1>1, <1>2, <2>1
<1>3. CASE ~(a >= b)
  <2>1. Largest(b) /\ \A x \in {a, b} : Largest(x) => x = b BY <1>3
  <2> QED BY <1>1, <1>3, <2>1
<1> QED BY <1>2, <1>3

\* The prompt holds the last exchanges of the memory, Window of them if there are so many.
LEMMA LoadedMemory ==
  ASSUME ChatTypeOK
  PROVE  LET L == Len(memory)
             m == IF L > Window THEN L - Window + 1 ELSE 1
         IN  /\ L \in Nat /\ m \in 1..(L + 1)
             /\ Len(LoadMemory) = L - m + 1
             /\ \A i \in 1..Len(LoadMemory) : LoadMemory[i] = memory[m + i - 1]
<1> DEFINE L == Len(memory)
           m == IF L > Window THEN L - Window + 1 ELSE 1
<1>1. L \in Nat /\ Window \in Nat BY LenProperties, ChatAssumption DEF ChatTypeOK
<1>2. m \in 1..(L + 1) BY <1>1
<1>3. Max({1, L - Window + 1}) = m
  <2>1. L - Window + 1 \in Int /\ 1 \in Int BY <1>1
  <2>2. Max({1, L - Window + 1}) = IF 1 >= L - Window + 1 THEN 1 ELSE L - Window + 1
    BY <2>1, MaxOfTwo
  <2> QED BY <1>1, <2>2
<1>4. \A i \in m..L : memory[i] \in Nat
  <2>1. \A i \in m..L : i \in 1..L BY <1>1, <1>2
  <2> QED BY <2>1, ElementOfSeq DEF ChatTypeOK
<1>5. LoadMemory = SubSeq(memory, m, L) BY <1>3 DEF LoadMemory
<1> HIDE DEF L, m
<1>6. /\ Len(SubSeq(memory, m, L)) = IF m <= L THEN L - m + 1 ELSE 0
      /\ \A i \in 1..(L - m + 1) : SubSeq(memory, m, L)[i] = memory[m + i - 1]
  <2>1. m \in Int /\ L \in Int BY <1>1, <1>2
  <2> QED BY <1>4, <2>1, SubSeqProperties
<1>7. Len(SubSeq(memory, m, L)) = L - m + 1 BY <1>1, <1>2, <1>6
<1>8. /\ L \in Nat /\ m \in 1..(L + 1)
      /\ Len(LoadMemory) = L - m + 1
      /\ \A i \in 1..Len(LoadMemory) : LoadMemory[i] = memory[m + i - 1]
  BY <1>1, <1>2, <1>5, <1>6, <1>7
<1> QED BY <1>8 DEF L, m

\* The memory is on the page, in the order of the questions, and the prompt has the
\* newest part of it.
THEOREM MemoryIsOfThePage == RagSpec => []MemoryIsFaithful
<1>1. RagInv => MemoryIsFaithful
  <2> SUFFICES ASSUME RagInv PROVE MemoryIsFaithful OBVIOUS
  <2> USE DEF RagInv, ChatInv
  <2> DEFINE L == Len(memory)
             m == IF L > Window THEN L - Window + 1 ELSE 1
             InPrompt == {history[i] : i \in 1..Len(history)}
  <2>1. \A i \in 1..L : memory[i] \in Nat BY ElementOfSeq DEF ChatTypeOK
  <2>2. Saved \subseteq Answered BY <2>1, AnsweredSet DEF Saved, MemoryOK
  <2>3. \A i, j \in 1..L : i < j => memory[i] < memory[j] BY DEF MemoryOK
  <2>4. ASSUME script = "searched"
        PROVE  /\ InPrompt \subseteq Saved /\ Len(history) <= Window
               /\ \A q \in Saved \ InPrompt :
                    Len(history) = Window /\ \A p \in InPrompt : q < p
    <3>1. L \in Nat /\ Window \in Nat /\ m \in 1..(L + 1) BY LoadedMemory, ChatAssumption
    <3>2. Len(history) = L - m + 1 /\ \A i \in 1..Len(history) : history[i] = memory[m + i - 1]
      BY <2>4, LoadedMemory DEF MemoryOK
    <3>3. Len(history) <= Window /\ (m > 1 => Len(history) = Window) BY <3>1, <3>2
    <3> HIDE DEF L, m
    <3>4. \A i \in 1..Len(history) : m + i - 1 \in 1..L BY <3>1, <3>2
    <3>5. InPrompt \subseteq Saved BY <3>2, <3>4 DEF Saved, L
    <3>6. ASSUME NEW q \in Saved \ InPrompt
          PROVE  Len(history) = Window /\ \A p \in InPrompt : q < p
      <4>1. PICK k \in 1..L : memory[k] = q BY DEF Saved, L
      <4>2. k < m
        <5> SUFFICES ASSUME k >= m PROVE FALSE BY <3>1
        <5>1. k - m + 1 \in 1..Len(history) /\ m + (k - m + 1) - 1 = k BY <3>1, <3>2
        <5>2. history[k - m + 1] = q BY <3>2, <4>1, <5>1
        <5> QED BY <5>1, <5>2
      <4>3. m > 1 BY <3>1, <4>2
      <4>4. ASSUME NEW i \in 1..Len(history) PROVE q < history[i]
        <5>1. m + i - 1 \in 1..L /\ k < m + i - 1 BY <3>1, <3>4, <4>2
        <5> QED BY <2>3, <3>2, <4>1, <5>1
      <4> QED BY <3>3, <4>3, <4>4
    <3> QED BY <3>3, <3>5, <3>6
  <2> QED BY <2>2, <2>3, <2>4 DEF MemoryIsFaithful
<1> QED BY <1>1, ChatInvariant, PTL

------------------------------------------------------------------------------
\* A search over some vectors finds some.
LEMMA FoundSomething ==
  ASSUME IsFiniteSet(vectors), vectors # {}, NEW f \in Found
  PROVE  f # {}
<1> DEFINE k == Min({TopK, Cardinality(vectors)})
<1>1. Cardinality(vectors) \in Nat /\ Cardinality(vectors) # 0
  BY FS_CardinalityType, FS_EmptySet
<1>2. k \in {TopK, Cardinality(vectors)}
  <2>1. \E x \in {TopK, Cardinality(vectors)} : \A y \in {TopK, Cardinality(vectors)} : x =< y
    BY <1>1, ChatAssumption
  <2> QED BY <2>1 DEF Min
<1>3. k # 0 BY <1>1, <1>2, ChatAssumption
<1> HIDE DEF k
<1>4. PICK S \in kSubset(k, vectors) : f = {<<v.content, v.piece>> : v \in S} BY DEF Found, k
<1>5. Cardinality(S) = k BY <1>4 DEF kSubset
<1>6. S # {} BY <1>3, <1>5, FS_EmptySet
<1> QED BY <1>4, <1>6

\* After embedding-job.py has reported a document, no search of chat.py fails for want of
\* the collection, and none comes back with nothing.
THEOREM EmbeddedStaysFound == RagSpec => EmbeddedIsFound
<1>1. ASSUME RagInv, Search, done # {} PROVE script' = "searched" /\ context' # {}
  <2>1. collection /\ IsFiniteSet(vectors) BY <1>1 DEF RagInv, CollectionOK
  <2>2. vectors # {}
    <3>1. PICK d \in done : TRUE BY <1>1
    <3>2. Complete(d.content) BY <1>1, <3>1 DEF RagInv, IInv, ReportedIsSearchable
    <3>3. 1 \in 1..Pieces BY EmbedAssumption
    <3> QED BY <3>2, <3>3 DEF Complete
  <2> QED BY <1>1, <2>1, <2>2, FoundSomething DEF Search
<1> QED BY <1>1, ChatInvariant, PTL DEF EmbeddedIsFound

\* A session leaves the documents as they are: the embedding service with the chatbot
\* beside it implements the same index.
THEOREM ChatKeepsTheIndex == RagSpec => ImplementsDocIndex
<1>1. RagInit => DI!Init
  <2>1. Pieces \in 1..Pieces BY EmbedAssumption
  <2> QED BY <2>1 DEF RagInit, Init, DI!Init, Searchable, Complete
<1>2. ASSUME RagInv, [RagNext]_ragVars PROVE [DI!Next]_DI!vars
  <2>1. CASE [Next]_docVars BY <1>2, <2>1, DocStepSimulation DEF RagInv
  <2>2. CASE Chat
    <3>1. UNCHANGED <<uploaded, vectors>>
      BY <2>2, ChatStepCases DEF ChatCases, Open, Submit, Connect, Run, AppendHuman, Search, Ends,
         AnswerShown, SaveContext, Stops, docVars, unchangedOutside
    <3> QED BY <3>1 DEF DI!vars, Searchable, Complete, Generations
  <2> QED BY <1>2, <2>1, <2>2 DEF RagNext, ragVars
<1> QED BY <1>1, <1>2, ChatInvariant, PTL DEF RagSpec, ImplementsDocIndex, DI!Spec
=============================================================================
