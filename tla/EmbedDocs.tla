----------------------------- MODULE EmbedDocs -----------------------------
(***************************************************************************)
(* The embedding services of databases/{qdrant, postgres-pgvector,         *)
(* weaviate, elasticsearch}/docker/embed-docs.  Cloud Storage reports each *)
(* upload by an event; endpoint.py turns an event into a Kubernetes Job    *)
(* named after the object's generation; the pods of the Job run            *)
(* embedding-job.py, which downloads the object, splits it and inserts the *)
(* vectors into the collection.                                            *)
(*                                                                         *)
(* Events may be delivered again, a Job tries its pod again after a        *)
(* failure (backoff_limit) and is deleted a minute after it has ended      *)
(* (ttl_seconds_after_finished), and a pod may fail between any two calls. *)
(* The four programs differ in the namespace they name, in how they make   *)
(* the collection and in whether the vectors come in one transaction.      *)
(***************************************************************************)
EXTENDS Integers, FiniteSets

CONSTANTS
  Settings,        \* the pairs <<database, namespace>> for which a service is built
  N,               \* how many uploads there are; they have generations 1..N
  ObjectOf,        \* ObjectOf[g]: the name of the object of generation g
  Nested,          \* the names with a slash: /documents has no directory for them
  Pieces,          \* a document is inserted in Pieces batches
  BackoffLimit,    \* failed pods that a Job replaces (3 in endpoint.py)
  MaxRedeliveries  \* bound: how often an event is delivered again

Generations == 1..N

Stores == {"qdrant", "pgvector", "weaviate", "elasticsearch"}

Namespaces == {"qdrant", "pg-ns", "weaviate", "elastic", "other"}

ASSUME EmbedAssumption ==
  /\ Settings \subseteq Stores \X Namespaces
  /\ N \in Nat /\ DOMAIN ObjectOf = Generations
  /\ Pieces \in Nat \ {0} /\ BackoffLimit \in Nat /\ MaxRedeliveries \in Nat

VARIABLES
  store,         \* the database this service was built for
  jobNamespace,  \* JOB_NAMESPACE, the namespace the service runs in
  uploaded,      \* the newest generation in the bucket
  event,         \* event[g]: the event of g has not been sent, is pending, acknowledged
  redeliveries,  \* how many events have been delivered again
  job,           \* job[g]: the state of the Job docs-embedder<g>
  run,           \* history: run[g]: how many Jobs of this name there have been
  failures,      \* failures[g]: the failed pods of the Job
  pod,           \* pod[g]: the call that the pod of the Job makes next
  content,       \* content[g]: the generation that the pod has downloaded, or 0
  inserted,      \* inserted[g]: the batches that the pod has inserted
  collection,    \* the collection (index, class) exists
  vectors,       \* the batches in the collection, each under ids of its own
  done           \* history: the pods that printed "was successfully embedded"

docVars == <<store, jobNamespace, uploaded, event, redeliveries, job, run,
             failures, pod, content, inserted, collection, vectors, done>>

jobVars == <<job, run, failures, pod, content, inserted>>

PodStages == {"none", "download", "exists", "create", "insert", "print"}

Attempts == 0..BackoffLimit

Vector == [job : Generations, run : Nat, attempt : Attempts,
           piece : 1..Pieces, content : Generations]

TypeOK ==
  /\ store \in Stores /\ jobNamespace \in Namespaces
  /\ uploaded \in 0..N
  /\ event \in [Generations -> {"none", "pending", "acknowledged"}]
  /\ redeliveries \in 0..MaxRedeliveries
  /\ job \in [Generations -> {"none", "active", "complete", "failed"}]
  /\ run \in [Generations -> Nat]
  /\ failures \in [Generations -> 0..(BackoffLimit + 1)]
  /\ pod \in [Generations -> PodStages]
  /\ content \in [Generations -> 0..N]
  /\ inserted \in [Generations -> 0..Pieces]
  /\ collection \in BOOLEAN
  /\ vectors \subseteq Vector
  /\ done \subseteq [job : Generations, run : Nat, attempt : Attempts, content : Generations]

Init ==
  /\ \E s \in Settings : store = s[1] /\ jobNamespace = s[2]
  /\ uploaded = 0
  /\ event = [g \in Generations |-> "none"]
  /\ redeliveries = 0
  /\ job = [g \in Generations |-> "none"]
  /\ run = [g \in Generations |-> 0]
  /\ failures = [g \in Generations |-> 0]
  /\ pod = [g \in Generations |-> "none"]
  /\ content = [g \in Generations |-> 0]
  /\ inserted = [g \in Generations |-> 0]
  /\ collection = FALSE
  /\ vectors = {}
  /\ done = {}

------------------------------------------------------------------------------
\* Somebody uploads the next document, or a new version of one, and Eventarc
\* sends the event.
Upload ==
  /\ uploaded < N
  /\ uploaded' = uploaded + 1
  /\ event' = [event EXCEPT ![uploaded + 1] = "pending"]
  /\ UNCHANGED <<store, jobNamespace, redeliveries, jobVars, collection, vectors, done>>

\* Eventarc delivers at least once: an acknowledged event comes again.
Redeliver(g) ==
  /\ event[g] = "acknowledged"
  /\ redeliveries < MaxRedeliveries
  /\ redeliveries' = redeliveries + 1
  /\ event' = [event EXCEPT ![g] = "pending"]
  /\ UNCHANGED <<store, jobNamespace, uploaded, jobVars, collection, vectors, done>>

\* A Job begins with no failed pod.
JobCreated(g) ==
  /\ job' = [job EXCEPT ![g] = "active"]
  /\ run' = [run EXCEPT ![g] = @ + 1]
  /\ failures' = [failures EXCEPT ![g] = 0]
  /\ pod' = [pod EXCEPT ![g] = "none"]
  /\ content' = [content EXCEPT ![g] = 0]
  /\ inserted' = [inserted EXCEPT ![g] = 0]

\* create_namespaced_job is accepted: the name is free, and the namespace in the
\* body is that of the call.
Created(g, bodyNamespace) ==
  /\ job[g] = "none"
  /\ bodyNamespace = jobNamespace
  /\ JobCreated(g)

\* bucket(): kube_create_job either creates the Job or catches an ApiException (the
\* name exists, the namespaces differ, the API server refuses) and prints it; "ok"
\* is returned in both cases and acknowledges the event.
Acknowledge(g, bodyNamespace) ==
  /\ event[g] = "pending"
  /\ event' = [event EXCEPT ![g] = "acknowledged"]
  /\ Created(g, bodyNamespace) \/ UNCHANGED jobVars
  /\ UNCHANGED <<store, jobNamespace, uploaded, redeliveries, collection, vectors, done>>

\* The API server creates the Job but its answer is lost, which is no ApiException:
\* Flask answers 500 and the event stays pending.
Unanswered(g, bodyNamespace) ==
  /\ event[g] = "pending"
  /\ redeliveries < MaxRedeliveries
  /\ redeliveries' = redeliveries + 1
  /\ Created(g, bodyNamespace)
  /\ UNCHANGED <<store, jobNamespace, uploaded, event, collection, vectors, done>>

Notify(g, bodyNamespace) == Acknowledge(g, bodyNamespace) \/ Unanswered(g, bodyNamespace)

\* The body names a namespace of its own, except in weaviate/.../endpoint.py:79.
QdrantNotify(g)   == store = "qdrant" /\ Notify(g, "qdrant")
PgvectorNotify(g) == store = "pgvector" /\ Notify(g, "pg-ns")
WeaviateNotify(g) == store = "weaviate" /\ Notify(g, jobNamespace)
ElasticNotify(g)  == store = "elasticsearch" /\ Notify(g, "elastic")

------------------------------------------------------------------------------
Goto(g, stage) == pod' = [pod EXCEPT ![g] = stage]

unchangedOutside == <<store, jobNamespace, uploaded, event, redeliveries>>

\* The Job starts a pod, the first or the next one.
StartPod(g) ==
  /\ job[g] = "active" /\ pod[g] = "none"
  /\ Goto(g, "download")
  /\ content' = [content EXCEPT ![g] = 0]
  /\ inserted' = [inserted EXCEPT ![g] = 0]
  /\ UNCHANGED <<unchangedOutside, job, run, failures, collection, vectors, done>>

\* The newest generation of the object of g.
Newest(g, c) ==
  /\ c <= uploaded /\ ObjectOf[c] = ObjectOf[g]
  /\ \A d \in Generations : d <= uploaded /\ ObjectOf[d] = ObjectOf[g] => d <= c

\* Mistake: the download names the first generation of the object.
Download_first(g) ==
  /\ pod[g] = "download"
  /\ ObjectOf[g] \notin Nested
  /\ \E c \in Generations :
       /\ ObjectOf[c] = ObjectOf[g] /\ \A d \in Generations : ObjectOf[d] = ObjectOf[g] => c <= d
       /\ content' = [content EXCEPT ![g] = c]
  /\ Goto(g, "exists")
  /\ UNCHANGED <<unchangedOutside, job, run, failures, inserted, collection, vectors, done>>

\* download_to_filename names no generation: it gets what the bucket has now.
\* Loading, splitting and the embeddings change nothing that others see.
Download(g) ==
  /\ pod[g] = "download"
  /\ ObjectOf[g] \notin Nested
  /\ \E c \in Generations : Newest(g, c) /\ content' = [content EXCEPT ![g] = c]
  /\ Goto(g, "exists")
  /\ UNCHANGED <<unchangedOutside, job, run, failures, inserted, collection, vectors, done>>

\* The pod asks whether the collection exists ...
Exists(g) ==
  /\ pod[g] = "exists"
  /\ Goto(g, IF collection THEN "insert" ELSE "create")
  /\ UNCHANGED <<unchangedOutside, job, run, failures, content, inserted, collection, vectors, done>>

\* Mistake: the collection is made anew, whoever has made it meanwhile.
Create_recreates(g) ==
  /\ pod[g] = "create"
  /\ collection' = TRUE
  /\ vectors' = {}
  /\ Goto(g, "insert")
  /\ UNCHANGED <<unchangedOutside, job, run, failures, content, inserted, done>>

\* ... and makes it if it does not.  If somebody else has made it meanwhile the
\* database refuses and the program ends with an exception, see PodFails.
Create(g) ==
  /\ pod[g] = "create" /\ ~collection
  /\ collection' = TRUE
  /\ Goto(g, "insert")
  /\ UNCHANGED <<unchangedOutside, job, run, failures, content, inserted, vectors, done>>

\* PGVector gets the collection or makes it, in one call.
GetOrCreate(g) ==
  /\ pod[g] = "exists"
  /\ collection' = TRUE
  /\ Goto(g, "insert")
  /\ UNCHANGED <<unchangedOutside, job, run, failures, content, inserted, vectors, done>>

VectorOf(g, k) == [job |-> g, run |-> run[g], attempt |-> failures[g],
                   piece |-> k, content |-> content[g]]

\* The batches up to `last` are inserted; their ids are random, so that nothing that
\* is already there is replaced.
InsertUpTo(g, last) ==
  /\ pod[g] = "insert"
  /\ vectors' = vectors \cup {VectorOf(g, k) : k \in (inserted[g] + 1)..last}
  /\ inserted' = [inserted EXCEPT ![g] = last]
  /\ Goto(g, IF last = Pieces THEN "print" ELSE "insert")
  /\ UNCHANGED <<unchangedOutside, job, run, failures, content, collection, done>>

InsertBatch(g) == inserted[g] < Pieces /\ InsertUpTo(g, inserted[g] + 1)

\* Mistake: the last batch is left out.
InsertAll_butLast(g) ==
  /\ pod[g] = "insert"
  /\ vectors' = vectors \cup {VectorOf(g, k) : k \in (inserted[g] + 1)..(Pieces - 1)}
  /\ inserted' = [inserted EXCEPT ![g] = Pieces]
  /\ Goto(g, "print")
  /\ UNCHANGED <<unchangedOutside, job, run, failures, content, collection, done>>

\* PGVector inserts all of them in one transaction.
InsertAll(g) == InsertUpTo(g, Pieces)

\* Mistake: the Job does not notice that its pod has ended.
Succeed_unnoticed(g) ==
  /\ pod[g] = "print"
  /\ done' = done \cup {[job |-> g, run |-> run[g], attempt |-> failures[g], content |-> content[g]]}
  /\ Goto(g, "none")
  /\ UNCHANGED <<unchangedOutside, job, run, failures, content, inserted, collection, vectors>>

\* print(filename + " was successfully embedded"): the pod ends, the Job is complete.
Succeed(g) ==
  /\ pod[g] = "print"
  /\ done' = done \cup {[job |-> g, run |-> run[g], attempt |-> failures[g], content |-> content[g]]}
  /\ Goto(g, "none")
  /\ job' = [job EXCEPT ![g] = "complete"]
  /\ UNCHANGED <<unchangedOutside, run, failures, content, inserted, collection, vectors>>

\* What the pod of g does by itself, for each program.
QdrantJob(g) ==
  /\ store = "qdrant"
  /\ Download(g) \/ Exists(g) \/ Create(g) \/ InsertBatch(g) \/ Succeed(g)
PgvectorJob(g) ==
  /\ store = "pgvector"
  /\ Download(g) \/ GetOrCreate(g) \/ InsertAll(g) \/ Succeed(g)
WeaviateJob(g) ==
  /\ store = "weaviate"
  /\ Download(g) \/ Exists(g) \/ Create(g) \/ InsertBatch(g) \/ Succeed(g)
ElasticJob(g) ==
  /\ store = "elasticsearch"
  /\ Download(g) \/ Exists(g) \/ Create(g) \/ InsertBatch(g) \/ Succeed(g)

\* Mistake: the Job replaces its pods without end.
PodFails_forever(g) ==
  /\ pod[g] # "none"
  /\ Goto(g, "none")
  /\ UNCHANGED <<unchangedOutside, job, run, failures, content, inserted, collection, vectors, done>>

\* An exception (no call is inside a try) or the loss of the node.  backoff_limit
\* pods are replaced (restart_policy is Never), then the Job has failed.
PodFails(g) ==
  /\ pod[g] # "none"
  /\ Goto(g, "none")
  /\ failures' = [failures EXCEPT ![g] = @ + 1]
  /\ job' = [job EXCEPT ![g] = IF failures[g] < BackoffLimit THEN "active" ELSE "failed"]
  /\ UNCHANGED <<unchangedOutside, run, content, inserted, collection, vectors, done>>

\* A pod that can only fail: the path has no directory, or the collection that it is
\* about to make exists.
Doomed(g) == \/ pod[g] = "download" /\ ObjectOf[g] \in Nested
             \/ pod[g] = "create" /\ collection

\* ttl_seconds_after_finished: the Job is deleted, and its name is free again.
Expire(g) ==
  /\ job[g] \in {"complete", "failed"}
  /\ job' = [job EXCEPT ![g] = "none"]
  /\ UNCHANGED <<unchangedOutside, run, failures, pod, content, inserted, collection, vectors, done>>

------------------------------------------------------------------------------
Endpoint(g) == QdrantNotify(g) \/ PgvectorNotify(g) \/ WeaviateNotify(g) \/ ElasticNotify(g)

Program(g) == QdrantJob(g) \/ PgvectorJob(g) \/ WeaviateJob(g) \/ ElasticJob(g)

\* What happens to generation g.
Step(g) ==
  \/ Redeliver(g) \/ Endpoint(g)
  \/ StartPod(g) \/ Program(g) \/ PodFails(g) \/ Expire(g)

Next == Upload \/ \E g \in Generations : Step(g)

Spec == Init /\ [][Next]_docVars

\* An event is delivered until it is acknowledged, the Job controller starts pods and
\* counts the failed ones, a pod makes progress, and one that can only fail fails.
\* Nothing else fails for certain, nobody has to upload and a Job need not expire.
Fairness ==
  \A g \in Generations :
    /\ WF_docVars(Endpoint(g) /\ event'[g] = "acknowledged")
    /\ WF_docVars(StartPod(g))
    /\ WF_docVars(Program(g))
    /\ WF_docVars(Doomed(g) /\ PodFails(g))

FairSpec == Spec /\ Fairness

------------------------------------------------------------------------------
\* Every piece of version c can be found.
Complete(c) == \A k \in 1..Pieces : \E v \in vectors : v.content = c /\ v.piece = k

\* What was reported as "successfully embedded" is in the collection, whole, and
\* stays there: no race for making the collection and no later attempt takes
\* anything away.
ReportedIsSearchable == \A d \in done : Complete(d.content)

\* A Job embeds what the bucket has when its pod downloads: never an older version
\* than that of its event, and always of the same object.
NeverOlderThanEvent ==
  \A d \in done : d.job <= d.content /\ ObjectOf[d.content] = ObjectOf[d.job]

\* Vectors are inserted twice only for a reason: within one Job, an attempt follows
\* only attempts that did not report success, and there are at most BackoffLimit + 1.
NoAttemptAfterSuccess ==
  \A d \in done : \A v \in vectors : (v.job = d.job /\ v.run = d.run) => v.attempt <= d.attempt

\* The versions that are searchable, for the abstract specification.
Searchable == {c \in Generations : Complete(c)}

DI == INSTANCE DocIndex WITH searchable <- Searchable

\* The service implements DocIndex: versions become searchable one at a time, after
\* their upload, and are never lost.
ImplementsDocIndex == DI!Spec

\* The Job of g was embedded, or ended without success, or was never created (the
\* namespaces differ, the API server refused).
Settled(g) ==
  /\ event[g] = "acknowledged"
  /\ \/ \E d \in done : d.job = g
     \/ run[g] = 0
     \/ failures[g] = BackoffLimit + 1

\* An upload is embedded in the end, unless its Job was refused or all of its pods
\* failed.
UploadSettled == \A g \in Generations : (event[g] = "pending") ~> Settled(g)
=============================================================================
