# TLA+ models of the GKE samples

The repository is a collection of some two hundred samples for Google Kubernetes
Engine. Most of them are configuration: manifests, Terraform, notebooks. A dozen
contain a program of their own. This directory models those programs one after
the other, the ones with the most at stake in their control flow first, checks
the models with TLC on small instances, and proves their main properties with
TLAPS for instances of every size.

Contents: [inventory](#1-inventory), [modules](#2-modules-and-how-they-correspond-to-the-code),
[runs](#3-runs-what-is-checked-and-what-it-shows), [bounds](#4-bounds),
[fairness](#5-fairness), [proofs](#6-what-is-proved-and-how),
[disagreements](#7-where-code-and-words-disagree), [limits](#8-what-is-not-modelled).

All paths are relative to the root of the repository.

## 1. Inventory

With one exception (the chatbots search what the embedding service inserts) the
programs do not call each other; each component below is a system of its own,
made of its processes, the store they share, and whatever kills or retries them.
`PROJECT.json` lists the components with their sources, and the hazards of the code,
each at its line.

### Redis work queue and batch worker: `batch/aiml-workloads`

*Modelled.* A Kubernetes Job runs several copies of `src/worker.py`. Each loops
over a work queue in Redis (`src/rediswq.py`); each item is the name of a dataset
file, on which the worker trains a model (`src/model_training.py`) and leaves a
checkpoint and a report on a file server. `scripts/queue-jobs.sh` fills the queue.

- State: the Redis lists `datasets` and `datasets:processing`, one lease key per
  item; the file server's output directory, checkpoint files and `report.txt`;
  in each worker, the item, the model and the path of its last checkpoint.
- Operations: `empty` (two LLEN), `lease` (BRPOPLPUSH, SETEX), `complete` (LREM,
  DEL), the load, fit, save and report of the training, the push of a batch.
- Hard: workers interleave between any two commands, die between any two (spot
  nodes), leases expire during training, `os.path.exists` and `os.makedirs` race,
  the queue is filled again while it is being worked on.
- Correct: nothing is lost or handed out twice; a worker stops only when all is
  done; an item leaves the queue only after its results are on disk; no worker
  resumes from a file another worker is writing; the loop ends.

### Cost estimator: `cost-optimization/gke-shift-left-cost`

*Partly modelled.* `main.go` reads a folder of manifests (`api/manifests.go`),
turns each object into a simplified one (`api/types.go`), attaches every HPA to
what it scales, adds up five monthly cost columns (`api/cost.go`), does the same
for a previous version, and writes tables, a Markdown file and a `.diff` file.

- State: the objects in loading order, the maps by which an HPA finds its target,
  the totals of the two folders, the files that were written.
- Hard: the order of loading is the alphabet's; objects are registered under a
  key with and one without apiVersion; zero means "not provided"; percentages
  divide by a column that may be zero; two of the three outputs may have been
  written when creating or encoding the third fails.
- Correct: the estimate depends on the set of objects only; an HPA sizes nothing
  but its target; the columns are ordered as they are named; the summary tells
  which columns rose and fell.

### Hello web server with a Redis cluster: `quickstarts/hello-app-redis`

*Modelled.* `main.go` serves each request in a goroutine: take a slot of the pod's
pool, `INCR hits` in Redis, give the slot back. `/healthz`, the readiness probe,
looks at the pool. `scripts/generate_load.sh` sends requests with curl and
`print_error_rate.sh` evaluates the status codes.

- State: a mutex-protected counter per pod, the Redis counter, the readiness of
  every pod, what each client has seen.
- Hard: errors and refusals that must give back exactly what they took; two
  thresholds that must not cross; repeated INCRs; clients that give up;
  restarts of pods with requests under way.
- Correct: the pool counts its holders; the probe never removes a busy pod;
  counts increase; all slots come back.

### whereami: `quickstarts/whereami`

*Partly modelled.* `app.py` answers HTTP requests with one thread each, or gRPC
requests from a thread pool, with a dictionary that describes the pod, and
optionally the answer of a backend and the headers of the request. All threads
fill in and return **one** dictionary (`whereami_payload.py`).

- State: that dictionary; in each thread, the result of its backend call.
- Hard: threads interleave between any two statements; the backend fails, or
  does not answer; fields of earlier requests stay in the dictionary.
- Correct: what a response says comes from requests that ran at the same time; a
  gRPC reply can be constructed from the dictionary; every request is answered.

### Document embedding service: `databases/{qdrant,postgres-pgvector,weaviate,elasticsearch}/docker/embed-docs`

*Modelled.* Cloud Storage reports every upload by an event. `endpoint.py` turns an event into
a Kubernetes Job named after the generation of the object; the pods of the Job run
`embedding-job.py`, which downloads the object, splits it, makes the collection if
there is none and inserts the vectors. There is one copy of the two programs for each database; they
differ where it matters.

- State: the events (pending, acknowledged), the Jobs and their failed pods, the call a
  pod makes next and the version it has downloaded, the collection and its vectors.
- Hard: events are delivered at least once; a Job's name is free again a minute
  after the Job has ended; pods die between any two calls and are replaced; the download gets whatever
  version is the newest; `exists` and `create` are two calls that race with other pods and the chatbots.
- Correct: what is reported as embedded can be found, whole, for ever; no Job embeds
  an older version than that of its event; no pod embeds again what another pod of its Job
  has reported; every upload is embedded unless its Job was refused or all of its pods failed.

### Chatbots: `databases/*/docker/chatbot`

*Modelled.* A Streamlit page for each database: `chat.py` runs from top to bottom
for each input, searches the collection, asks the model with what it found and with the
last exchanges, shows the answer and remembers the exchange. Sessions share only the
collection, so that one session beside the embedding service is the composition.

- State: the messages on the page, the memory, the prompt, the place in the script.
- Hard: a new input stops the script at any call of Streamlit; a search fails when the
  collection is missing; page and memory are filled by two calls.
- Correct: an answer stands below its own question; page, memory and prompt agree; what was
  reported as embedded is found.

### Metrics exporter and recommendation view: `cost-optimization/gke-vpa-recommendations`

*Partly modelled.* A Cloud Run job (`metrics-exporter/main.py`, `config.py`) copies one
metric after the other for each namespace from Cloud Monitoring to a BigQuery table, each
through a write stream of its own. The view
`container_recommendations.sql` turns the rows of a day into recommended requests and limits.

- State: in each run, its clients, its start time, namespaces, metric and rows; the pending
  stream; the table.
- Hard: runs overlap (schedule, retry of the schedule, retry of Cloud Run); reading that
  breaks off returns what it had; `send` is not awaited; the errors in the answer of the commit
  are not read; a rerun has another `run_date`.
- Correct: a metric appears in the table as a whole or not at all; a failed call costs
  the rows it was about and no others; every row names its controller; all rows of a run have one date; a recommended limit is not below
  the recommended request, as long as both are averages of the same runs.

### Image servers: `ai-ml/gke-ray/rayserve/stable-diffusion`, `ai-ml/maxdiffusion-tpu/build`

*Modelled.* Three servers: a Ray Serve deployment that pads the prompts of
several requests to one batch for a TPU, with a client of several threads that puts the images on
a grid; the same for a GPU with one prompt at a time; and a Flask page in front of a model server.

- State: the queue and the batch of the model, the file that the Flask page writes and
  sends, the client's list and grid.
- Hard: a batch must be padded, sharded and cut back to its callers; a failure hits
  all of a batch; all requests of the Flask page use one file name; images come back in any order.
- Correct: everyone gets the image of the own prompt; a request fails only when a model failed
  or the request was wrong; a small batch does not wait for more.

### Language model servers: `ai-ml/gke-ray/rayserve/llm`

*Modelled.* Four Ray Serve applications over vLLM: streaming or whole
answers (`serve.py`), vLLM's chat server (`serve_chat_completion.py`), several models behind a
router (`model-multiplexing`), a second model that summarizes the first (`model-composition`).

- State: the place of each handler, the chat server, what each engine works on, the outputs
  not yet read, what was streamed.
- Hard: every `await` lets other requests in; the chat server is tested for before one
  and assigned after it; each output repeats the whole text; clients leave; a request may be flawed in
  a way that only the second of two models sees.
- Correct: a stream has no gap and no repetition, an answer is the whole text of the right model, no engine
  works for nobody, every request ends, and none fails for what other requests do.

### Components that are not modelled

| component | state and operations | why there is no model |
|---|---|---|
| Players registry, `databases/hello-app-cloud-spanner` | four handlers with one Spanner transaction each; browsers that keep a list | the table is isolated by Spanner; what can go wrong is the list of one browser until its next reload (section 8) |
| Guestbook, `quickstarts/guestbook` | read the list, append, write it back | some forty lines around one SET and one GET; that the last writer wins is its design (section 8) |
| Pub/Sub echo, `databases/cloud-pubsub` | pull, sleep, acknowledge | nothing is kept that a redelivery could damage |
| Training scripts, a T5 handler and test clients, `ai-ml` | one sequence of library calls | no second actor, no retry, no state of their own |
| Metric exporters and small servers | stateless handlers, endless loops around one call | nothing two actors or a failure could break |
| Scripts, gMSA page | command lines of kubectl, gcloud, psql; three accesses | sequential, no state |
| Manifests, Terraform, notebooks, generated code | configuration of systems that are not in this repository | their behaviour is elsewhere |

## 2. Modules and how they correspond to the code

| module | what it is |
|---|---|
| `WorkQueue` | what any work queue with leases promises: claim, finish, abandon, return |
| `RedisWQ` | `rediswq.py` and the loop of `worker.py`, one action per Redis command |
| `BatchWorker` | extends `RedisWQ` with `model_training.py` and the file server |
| `CostEstimator` | one execution of `main.go` |
| `HelloRedis` | pods, requests, Redis, probe, clients |
| `Whereami` | threads over the shared dictionary |
| `DocIndex` | what an embedding service promises: uploaded versions become searchable and stay so |
| `EmbedDocs` | the four pairs of `endpoint.py` and `embedding-job.py` |
| `RagChat` | extends `EmbedDocs` with a session of `chat.py` |
| `Recommendation` | the arithmetic of the view, as operators |
| `MetricsExporter` | runs of the exporter over one table, and the view of a day |
| `ImageServing` | the three image servers with their clients |
| `LLMServing` | the four text applications |
| `ModelServing` | a cluster that runs one of the two families |
| `*Proofs` | theorems: `BatchWorkerProofs` (for `RedisWQ` and `BatchWorker`), `CostEstimatorProofs`, `HelloRedisProofs`, `WhereamiProofs`, `DocumentProofs` (for `EmbedDocs` and `RagChat`), `MetricsExporterProofs`, `ServingProofs` |
| `SumTheorems` | what the sums over finite sets of the community module `Functions` return |
| `MC*` | the constants of the runs |

In the modules of code, an operator that is preceded by a comment starting with
"Mistake" or "Mutant" is not part of any specification. It is the definition
below it with a plausible bug, and shows that a property can tell the two apart.

**RedisWQ.** `main` and `processing` are the two lists, `lease` the keys with
their values, `pc[s]` the next command of session `s`, `hand[s]` its `item`.
`empty()` is `LLenMain` then `LLenProcessing`; `lease()` is `Pop` or `PopTimeout`,
then `SetLease`; `complete()` is `LRem` then `Del`. Redis executes one command at a time, which
is why a command is one action. `Expire` is the clock of Redis, `Die` the loss of
a process, `Raise` an exception in the work, `Populate` the RPUSH of
`queue-jobs.sh`, `Start` the Job's creation of a worker. `processing` is a set: the
code only measures it against 0 and removes with count 0, neither of which can tell
copies of an item apart. `removed` and `seen` are history variables.

**BatchWorker.** Refines the state "work" into the stages of
`FraudDetectionModelTrainer`: load the checkpoint or start anew, fit, look for the directory, make it, open
(truncates), dump, report. A model is the set of datasets it was fitted
on. Every step is a step of `RedisWQ` or leaves its variables alone; this is
theorem `WorkloadUsesQueue`, so all that is said about the queue holds in the whole
workload. `Line(s)` is the model that `s` has in hand or will load for its next item.

**WorkQueue** is the abstract specification. `RedisWQ` implements its safety half
under the mapping of list membership to a status and of `Holds` to `holders`
(`RefinesWorkQueue`, checked and proved), and not its liveness half
(`AbandonedReturned`, refuted; section 7).

**CostEstimator.** `todo` is what `filepath.Walk` has not reached; each `Load…`
action takes any document of it, since the names that decide the order are the
user's. The three maps of `manifests.go` have disjoint keys and are one function `ref` from keys to
indices of `scalables`. `LinkHPA` is one round of
`prepareForCostEstimation`; `EstimateCost` the rest of that function of `cost.go`
and the turn of `main` to the second folder. `Output` and `OutputDiff` are the tables and the Markdown file,
`CreateDiff` and `EncodeDiff` the `.diff` file; each may fail at the creation of its file or in the writing, which ends the
program and leaves what is there (`markdown`, `diffFile`). Costs are integers: CPU in
millicores, memory in 10^6 bytes, everything times 100.

**HelloRedis.** `alloc`, `release` and `hasResources` hold the mutex from end to
end and are one action each. `net/http` sends a response this small after the
handler has returned, so `Respond` comes after `Release`, and `floor` (history) is
taken at `Send`. `IncrRepeated` is go-redis sending a command again whose reply was
lost. `GiveUp` is curl's `--max-time`; `Restart` kills the handlers of a pod and empties its pool.

**Whereami.** A value of the dictionary is the request that wrote it. `SetHost`,
`CallBackend`, `StoreBackend`, `EchoHeaders` are the statements of `build_payload`
between which threads may switch; `Reply` is the reading of the dictionary by
`home` or `GetPayload`. Flask sorts the items before it writes them, so that they
are read at one moment. A request of HTTP may name one field, and is answered 500 if that
field is `backend_result` and holds None. `environ` is chosen
from `Settings` at the start. `GrpcServe` and `AppRun` are the two ends of `app.py`, from which on the
server is `serving`.

**EmbedDocs.** `event`, `job`, `run` and `failures` are what Kubernetes and Eventarc
keep; `pod`, `content` and `inserted` a pod's program. `Upload` and `Redeliver` are the bucket
and Eventarc. `Notify` is `bucket()` of `endpoint.py`, which prints an `ApiException`
and acknowledges all the same (`Acknowledge`), or does not answer although the Job was
created (`Unanswered`). `Download`, `Exists`, `Create`, `InsertBatch`, `Succeed` are the calls of
`embedding-job.py`, `GetOrCreate` and `InsertAll` those of PGVector, which works in transactions;
`PodFails` may come between any two. `Expire` is `ttl_seconds_after_finished`. Four actions
`QdrantNotify`, … and `QdrantJob`, … say which calls each copy makes, and which namespace its
body names: a service that runs in another one has all of its Jobs refused. Ids of
vectors are random, so that an attempt after a failed one leaves the vectors of both. That
Elasticsearch makes new vectors searchable a moment later is not a step of its own. An
object whose name has a slash cannot be downloaded (`Nested`), as `/documents` has no
such directory. `kube_test_credentials` is never called.

**RagChat.** `Open` is the first run of the script; `Submit` an input, which stops the run
that is under way; then `AppendHuman`, `Search`, `AnswerShown`, `SaveContext`. Between the
question and the end of the search the script calls nothing of Streamlit and is not stopped, but can
fail (`Stops`, which is also the way a failed connection ends). Two databases make the
collection when they connect, two do not look. In the pgvector chatbot a trailing
comma makes the name of the collection a tuple, which is printed nowhere and rendered alike in
every session; it is not modelled.

**MetricsExporter.** One action per call: `Connect`, `ListNamespaces`, `Query`, `CreateStream`,
the append (`AppendArrives` or `AppendLost`), `Finalize`, the commit (`Commit`, `CommitRefused`,
`CommitUnanswered`), `Log`. `Query` and `ListNamespaces` return any part of what there is: an
exception between two pages is caught and the rows so far are returned. `Crash` is an uncaught exception, also
the NameError of a client that was never bound, or the hour after which Cloud Run ends a task; the retries of Cloud Run
and of the schedule are further runs. `Columns` and `LabelsRead` put the labels of
`config.py` beside those `main.py` reads. A row knows its run (the `run_date`), its
day, metric and container. A container without a request or a limit has no series of it (`HasSeries`). `missed`
(history) are the rows that a failed call was to list, to read, to append or to commit.

**Recommendation** translates four columns of the view: the request, the limit, their
roundings, and the zeros that stand for what has no rows.

**ImageServing.** `app` says which of the three servers runs. `TakeBatch` takes what has come,
at most `_MAX_BATCH_SIZE`, and pads it; `Generate` needs a batch that divides among the
devices, and gives the i-th image to the i-th request. `Truncate`, `WriteHalf` and `SendHalf` are
`content.save` and `send_file` of the Flask page: an image has two halves, so that a request can
read half of another one's. `SaveGrid` is `save_pictures` of the client. `shared` (history) are the requests that had the file at
the same time as another.

**LLMServing.** `program` is the application; `VllmSetup`, `ChatSetup`, `MultiSetup`, `ChainSetup`
construct its engines, each deployment at a pace of its own, and a call of a deployment that is not
`loaded` waits, as its handle does. `at[r]` the `await` at which a handler stands.
`Produce` and `Finish` are the engine, which hands out all of the text with each token; a text
is known by its length. `ChatCall` and `ChatServer` are the two sides of
the await in `serve_chat_completion.py`. `StreamResults`, `StreamEnds`, `MayAbortRequest` are the
streaming answer and its background task, which Starlette also runs after a cancelled
stream; `ReadOutput` and `Reply` the other answer, `Remote` the routers. A stream cannot be the result
of a call of another deployment, since its generator cannot be pickled: such a request ends with 500
(`StreamBehindRouter`), whatever its docstring says. What else can be wrong with a request is its `flaw`: no JSON, no prompt or a
parameter that `SamplingParams` refuses, a refused `max_tokens`. `VllmCall`, `Route` and `Remote` raise for it before an engine is asked
(`serve.py:92-95`), FastAPI answers it with 422 in the chat server, and in `model-composition` the assistant takes `max_tokens` out of
the request and hands it on, so that only the summarizer refuses it (`Summarize`). That a client
has left is seen by `serve.py`; in the chat server it is vLLM's affair, and behind the routers Ray's (section 8).

**ModelServing.** A RayService or a Deployment runs one application, so one family takes
steps and the other stays in an initial state.

## 3. Runs: what is checked and what it shows

Distinct states as TLC counts them (with symmetry where the `.cfg` says so).

| run | properties | instance | shows |
|---|---|---|---|
| `work_safety` (2,066,030) | `NothingLost` `OneHolder` `OwnCheckpointIntact` `CompletedIsSaved` `NoRepeatedWork` `ModelsAreLineages` `RefinesWorkQueue` | 3 workers, 3 files in 2 batches | the queue keeps its promises under all interleavings, deaths and expiries; what leaves it is saved and reported once; workers never mix their models |
| `work_liveness` | `CompletedIsReported` `EmptyIsTruthful` `WaitingItemCompleted` `WorkersExit` | 2 workers, 2 files, one pushed twice | what survives when names are not unique; the loop finishes and ends unless a worker dies |
| `queue_gc` | `AbandonedReturned`: **violated** | 2 sessions | nobody returns the item of a dead session |
| `work_makedirs` | `DirectoryCreated`: **violated** | 2 sessions | the race for the output directory |
| `cost_safety` (10,324) | `EstimateIsOfTheSet` `HPAOnItsTarget` `ColumnsOrdered` `SummaryTellsTheTruth` | any two of eleven folders, every order | estimates do not depend on file names; the difference is described truthfully |
| `hello_pool` (1,036,268) | `PoolAccounting` `CountsIncrease` `SlotsComeBack` | 3 requests, 2 pods, 2 of 3 slots | the pool is exact through errors, retries, giving up and restarts |
| `whereami_threads` (354,237) | `FieldsAreRecent` `ErrorsAreBackendFailures` `EveryRequestAnswered` | 3 requests; HTTP with backend and headers, gRPC with backend and 2 threads | the dictionary mixes only requests that overlap; an error 500 is somebody's failed backend call |
| `whereami_headers` | `EchoesOwnHeaders`: **violated** | 2 requests | a response with the headers of another request |
| `embed_docs` (965,727) | `ReportedIsSearchable` `NeverOlderThanEvent` `NoAttemptAfterSuccess` `ImplementsDocIndex` `UploadSettled` | 2 versions of one object, every database | reports are true whatever is redelivered, expires or dies; every upload is settled |
| `rag_chat` (740,571) | `AnswerFollowsQuestion` `OnlyCutQuestionsAreLost` `MemoryIsFaithful` `EmbeddedIsFound` | 3 questions, 2 objects, every database | the page is in order wherever inputs stop the script; what is reported is found |
| `exporter` (1,019,713) | `LimitNotBelowRequest` `OneDatePerRun` `RowsNameTheirController` `OnlyFailedCallsLoseRows` `MetricsAppearWhole` | 2 runs, 2 days, 3 metrics | overlapping runs, midnight and failed calls leave whole metrics only, and cost nothing but what a failed call was about |
| `serving` (196,327) | `OwnImage` `FailuresHaveCauses` `TextsAreWhole` `NothingRunsForNobody` `AllAreAnswered` | all seven servers | nobody gets another one's image or a part of a text, or fails for the sake of others |

Some remarks:

`OneHolder` also says that `complete()` deletes no lease but its own: `DEL` does not look whose lease it is, and is right
only because nobody else can have the item by then.

`ModelsAreLineages` is about the workers, not only about the files: no dataset is in the models of two living workers
(`LinesApart`, each as it is in memory or will be loaded), and every checkpoint is an earlier state of such a model or has
nothing in common with it (`FilesOnLines`).

`PoolAccounting` says that the counter is the number of handlers with a slot and that `/healthz` never answers 503. The second half
rests on the two thresholds, and is lost when `alloc` hands out one slot more.

`EmptyIsTruthful`: `empty()` reads `main` and then `processing`,
at two different moments, and items move between the reads. It is right all the same, because
an item only moves from the list that is read first to the one that is read
second. The order of the two operands in
`rediswq.py:68` is therefore essential, and no unit test shows it. In `work_liveness` the items are
not unique, `LREM` with count 0 removes the copy of another worker, and
`CompletedIsSaved` and `OneHolder` do not hold; what still holds is that everything removed
has been reported by a model fitted on it, and that no worker stops too early.

`FieldsAreRecent` is what can be said of the shared dictionary in general: a
response may carry the fields of others (that is `EchoesOwnHeaders`, refuted), but only of
requests that ran at the same time. A request that runs alone gets its own. One case is excepted:
a gRPC request whose backend call fails answers with the last result that any
request stored, whatever its age.

`ReportedIsSearchable` and `ImplementsDocIndex` also hold against the two calls
`exists` and `create`: of two pods that find no collection, the second fails at `create`
and its replacement finds the collection. It would be otherwise with the usual "delete it if it
exists and make it anew" (the mutant).

`OnlyCutQuestionsAreLost` says what losing means: only a new input or an exception can
leave a question without its answer, on the page and in the memory, and `MemoryIsFaithful` that the
model never remembers what the page does not show.

`OnlyFailedCallsLoseRows` is as much as the exporter promises. The silent failures (a listing
or a query that breaks off, an append that does not arrive, a commit refused in
`stream_errors`) cost the rows they are about, of which nothing in the log tells; but no other row is lost, also not of the metrics
and namespaces that come later.

`LimitNotBelowRequest` excepts the days on which a run has crashed or has lost an amount of the container, and those between whose
runs an amount was set or removed. The view averages request and limit separately, each over the runs that exported it. When a failed call loses the
limit of one of two runs and the amounts have changed in between, the two averages are of different runs, and the recommended
limit can come out below the request. Containers without a limit or a request are within the property.

`FailuresHaveCauses`, for the text servers, goes both ways. A request that ends in 500 met a failing engine, was flawed, or asked
one of the two routers for a stream; and a flawed request is never answered as if it were right. The third cause is the program's fault
and not the client's (section 7).

`EmbeddedIsFound` speaks of the time after the first report. Before it, two of the databases have no collection and a search raises; what this
leaves on the page is the matter of `AnswerFollowsQuestion`.

`OwnImage` excepts, for the Flask page only, the requests that had the file at the
same time as another one. They may get the other's image, or half of it; no document
of the repository says otherwise.

Each property of a passing run is violated when a definition it depends on is
replaced by its "Mistake" or "Mutant" (`PROJECT.json`, "mutants").
Types are not among the properties of the runs: they are proved (section 6).

## 4. Bounds

- Queue and worker: three files and two or three sessions. Two sessions make every race
  between commands; the third is a bystander who must not be misled (it may test
  `empty()` while the second takes over). Two batches let an item arrive after a
  worker has left. Sessions are never reused, as in the code, where every process has a
  fresh uuid. There is no other bound; the lists cannot grow beyond what was pushed.
- Cost: eleven folders that contain every kind, missing namespaces and amounts,
  two HPAs for one target, an HPA without apiVersion, targets over 100 %, objects
  that cannot be decoded and objects that are skipped. Every pair of folders and
  every order of their documents is explored.
- Hello: pool of 3 with a limit of 2 for 50 and 45, which keeps one slot between
  the limit and the size, as little as makes the two thresholds different, so that an off-by-one is visible. Three requests exceed
  the limit of one pod. `MaxRetries` = 1 repeated INCR, `MaxRestarts` = 1. The theorems do not
  depend on any of these numbers.
- whereami: three requests over two threads make one wait; two requests are
  enough for a race, the third observes a mixture of both.
- Embedding: `N` = 2 versions of one object (the older event may find the newer content, the
  two Jobs race for the collection); `Pieces` = 2, so that a pod can die in the middle of
  its inserts; `BackoffLimit` = 1 (3 in the code) gives one replacement; `MaxRedeliveries` = 1, after
  which a Job of the same name can be made again. `Settings` has every database in its own
  namespace and Qdrant in a wrong one.
- Chat: `TopK` = 2 of up to four vectors, `Window` = 1 of three questions, so that a remembered
  exchange is left out of the prompt; objects "a" and "a/b", one of which cannot be downloaded;
  no redelivery (`embed_docs` has it).
- Exporter: two runs and two days, so that runs overlap and one goes on after midnight; one metric
  of each kind that the properties tell apart (of HPA metrics only the theorems speak); a container with request and limit, one with neither (so that two metrics in a row have
  no rows of its namespace), one in an excluded namespace; request and limit are raised between the runs. Of containers with a request only, and
  of those that have ended, whose newest amounts are outside the window, the theorems speak.
- Serving: six requests for a batch of four on two devices with five client threads (a full batch, a
  small one, a grid of three columns); three requests with an empty prompt among
  them for the other two; two callers, two models, and texts of up to three tokens, as a wrong `num_returned`
  shows with the third output only.

Deadlock is checked in `cost_safety` and `hello_pool`. Elsewhere the system may stop:
all workers may have ended or died, all requests may have been answered, all
documents embedded, all runs of the exporter be over.

## 5. Fairness

- Queue and worker: weak fairness of each session's next command (`Step`; in
  `BWFairSpec` the commands and the stages of the work): the process runs, Redis
  answers. Weak fairness of `Start` (the Job creates its workers) and `Populate` (the batches of
  the instance are pushed). Nothing forces `Die`, `Raise`, and the liveness properties
  except runs in which a worker died, because the item of a dead worker is never
  returned. Expiry of leases is fair in `FairSpec` only; nothing waits for it.
- `HelloRedis`: weak fairness of the handler. Goroutines run and go-redis bounds
  each attempt and their number, so INCR ends with an answer or an error. No
  client has to send and no probe has to come.
- `Whereami`: weak fairness of the thread of each request, including the return of the
  backend call. The code has no timeout (`whereami_payload.py:100`), so this part is an
  assumption about the backend: without it `EveryRequestAnswered` is false. Nobody sends a request before
  the server is `serving`, so that the start itself needs no fairness.
- `EmbedDocs`: weak fairness of the acknowledgement (Eventarc delivers an event until it is
  acknowledged), of the start of pods (the Job controller), of a pod's program, and of the failure of a pod that
  can only fail (no directory for the path, the collection it is to make exists). Nobody has to upload,
  no Job has to expire, no other failure has to come.
- `ModelServing`: weak fairness of the setup (`Setup`, `Construct`: Ray starts every
  deployment, the weights load), of the model (batches are taken when
  `batch_wait_timeout_s` is over, an engine makes the next token) and of the handlers, which
  are tasks of one event loop or threads. No client has to send or to leave, no failure has to come.
- `CostEstimator`, `MetricsExporter` and `RagChat` have no liveness property: the first is one
  sequential program, the second may crash at each step, the third is ended by its user.

## 6. What is proved, and how

Every theorem holds for all values of the constants that satisfy the named
assumptions: `BatchesAssumption` (a batch, the expansion of a glob, names no file twice),
`NoneAssumption`, `PoolAssumption` (the limit is below the size of the pool: 45 < 50),
`BoundsAssumption`, `FlagsAssumption`, `EmbedAssumption`, `ChatAssumption`, `ExporterAssumption`
(no metric is listed twice), `LimitsAssumption` (Kubernetes refuses a limit below the request),
`ImageAssumption` (the batch size is a multiple of the devices, as a comment of
`stable_diffusion_tpu.py` asks), `LLMAssumption`, `GoTypes` (fields are integers and slices as their Go types
say, a folder is finite), `NoNegativeAmounts` (no amount, price or configured default is negative). Theorems about the queue beyond its types
(all but `WorkloadUsesQueue` and `CompletedWorkIsReported`) also have the hypothesis `UniqueItems`, which the docstring of `RedisWQ` states ("The
items in the work queue are assumed to have unique values") and `queue-jobs.sh`
meets unless it is run twice.

**Sums** (`SumTheorems`). Totals and averages are `SumFunctionOnSet`, a recursive function on sets, about
which the library has no theorem and induction over which the prover cannot do. The proofs go another way. An
*adder* of `f` over a finite set is a function on its subsets that obeys the recursion; if two adders
differed, or none existed, there would be a smallest subset where that shows (`SmallestSubset`, from the
library's facts on finite sets), and taking the picked element out of it gives a contradiction.
`SumIsAdded` follows, and from it that any index may be taken out (`SumRemove`), that a sequence is added up
element by element (`SumUpTo`), monotonicity, sums of sums, disjoint unions and renamed indices.

**Queue** (`BatchWorkerProofs`, first half). None of the properties is inductive alone. The
invariant `IInv` adds to the types: a session has an item exactly between `Pop`
and `Del`, and what it holds is in `processing` (`HandPlaced`); two sessions never
have the same item (`HandUnique`); a lease names a session that has the item or is dead
(`LeaseOK`); and for the two reads of `empty()`, a session between them has seen
nothing that is still in `main` (`SeenOK`). Two lemmas about sequences, what
popping the last element and appending a batch do to elements and uniqueness, carry `Pop`
and `Populate`. From `IInv`: `NothingIsLost`, `MutualExclusion` (with the lease that `Del` deletes),
`TruthfulEmpty`, `LeasesAreOwn` (whoever lives and has no longer the item leaves no lease of it). `Refinement` proves `Spec => WQ!SafeSpec`: `Populate`
is `Add`, `Pop` is `Claim`, `LRem` is `Finish`, `Die` and `Raise` are `Abandon` or stutter, everything
else stutters.

**Worker** (`BatchWorkerProofs`, second half). `WorkloadUsesQueue` lifts all of that. `WorkInv` says
what the files look like at each stage of an item that somebody holds
(`StageOK`, `HeldWork`), that nothing of an item exists before it is popped, and that
what was removed has its checkpoint and one report (`RemovedSaved`). What makes it
inductive is that nobody else has the item, so nobody else writes its files.
`WorkIsNotRepeated` adds that a stage about to write a report finds none.
`CheckpointStaysIntact` adds `LineageInv`: the checkpoint a worker
resumes from is of a removed item, or of the one it is about to complete; models of
removed items consist of removed items only. A removed item is never popped
again, so its file is never opened again. `WorkersKeepTheirLines` adds `LinesInv`: a saved checkpoint consists of removed items and its own
(`SavedIsOwn`), the path a worker will resume from is that of the item it has just saved (`CheckpointIsHand`), the models of living workers have no dataset in common, and files are earlier states of one of them or of
a dead worker's. `LinesGrow` is about the steps: a living worker's model stays as it is or grows by the dataset it
has in hand, so that it consists of its own batches in the order in which it popped them. `CompletedWorkIsReported` does without `UniqueItems`: when two sessions have copies of
one item, each still reports before its `LREM`, whatever the other does to the files. Its `ReportInv`
says only that the item is in the model from the fit on, and in a report from the report on (`HeldReported`).

**Cost** (`CostEstimatorProofs`). `IInv` is `TypeOK`, `HPAOnItsTarget` and `RefOK`:
each key leads to an object that matches it in all but the apiVersion. `EstimateIgnoresTheOrder` says that the
code's accumulation, in whatever order the documents come, ends with the sum over the set of the documents, each
priced with the HPA that targets it. Its invariant `LoaderInv` has three parts: `Tally`, that the objects in the lists, each
with the HPA that will be its own, cost what the documents read so far cost; `ObjectsAreOfDocuments`, that each object is of one of those, found under both of its
names, and that no two of an unambiguous folder share a name; and `HPAsAreLinked`, that the first
`linked` HPAs are at their targets. With all HPAs linked, `Tally` is about the objects as they are; lists in the order of
loading, appended to each other, and the set of documents are joined by `SumUnion`, `SumReindex` and `SumPlus`. `ColumnsAreOrdered` goes from `RangeOrdered`, for one object, over
`Ordered` sums to the total of a folder: the correction of `postProcessCost` is made for each object, and a
sum of ordered columns is ordered. `SummaryIsTruthful` is about
the comparison, for any two totals; `SummaryTellsIt` adds that the difference on record is that of the
two totals (`DiffOfTheTotals`) and that these are integers (`TotalsOK`).

**Hello** (`HelloRedisProofs`). The pool's counter equals the cardinality of its
holders; each step adds or removes one holder, or, in a restart, all. That healthz never refuses
follows from it and the limit (`PoolIsAccounted` has both). `CountsKeepIncreasing` needs that every count is a past value of
`hits` (`CountsAreHits`) and that counts are distinct.

**whereami** (`WhereamiProofs`). The invariant follows a request through its statements:
once it has stored a field, the field was written by a request of its overlap
(`StoredIsRecent`), since whoever overwrites it runs now and so overlaps, and `Active`
is a subset of the overlap of everyone who runs (`OverlapOK`). `ErrorsHaveCauses` adds
`ErrInv`: the field `backend_result` is None only if the call of the request that wrote it
failed (`BackendIsResult`).

**Documents** (`DocumentProofs`). The invariant of the embedding service: a pod runs only for an active
Job (`PodsAreOfJobs`), a Job only after its upload (`JobsFollowUploads`), what a pod has
downloaded is not older than its event (`ContentIsNewer`), the batches it counts as
inserted are in the collection (`InsertedIsThere`), vectors are of the attempts that have been
(`VectorsAreOfThePast`), and a Job that has reported is over (`DoneIsOver`). `DocRefinement`
maps every step that completes a version to `Index` and shows that no step removes a vector;
`ChatKeepsTheIndex` is the same with a session beside it. For the session, `RagInv` adds `CollectionOK` and
`ChatInv`: `PageOK` (where the newest question stands on the page at each stage),
`MemoryOK` (the memory ascends and is on the page) and `NothingElseIsLost`. What `LoadMemory`
returns, and that `Found` is not empty when there are vectors, are lemmas about sequences and finite sets.

**Exporter** (`MetricsExporterProofs`). `IInv` says that the rows a run holds, and those in its stream, are
of the metric, namespace and day it is at (`RowsAreOfTheMetric`), that rows in the
table are such rows too (`TableIsOfTheRuns`), that the namespace being copied is a monitored one (`NamespaceIsBegun`),
and that all a run has passed is in the table or `missed`
(`NothingIsMissed`, with `HoldsAll` for what it has in hand and `ExportedAll` for what is behind it). A step of one run leaves the others' parts alone (`RunIInv`), which is
what makes overlapping runs harmless. From it, a run that is over and has not missed an amount has exported it if the container has it (`AmountIsExported`), so that request and limit
of a day are averaged over the same runs (`AmountsAreOfTheSameRuns`): this is concluded, not assumed. For `LimitsStayAboveRequests`, the limit of
a row of the view is scaled by the ratio of the averages; averages over the same runs keep the order of what is averaged
(`AveragesKeepTheirOrder`, by `SumMonotone`), rounding too (`RoundDivIsMonotone`), and `LimitKeepsItsOrder` is the
arithmetic that is left.

**Serving** (`ServingProofs`), over `ServingSpec`. `TextInv`: everything an engine has for a request is
consistent with where its handler stands. The outputs not yet read continue what was read
without a gap (`OutputsFollow`, `ReadsOutputs`, `StreamsOutputs`), an engine works for a request only while
its handler reads that engine (`WorksForOne`), a stream closes only at the end or for a client that has
gone (`ClosesAtTheEnd`), the summarizer has the whole text (`SummaryOfAll`), and whoever
is past a check has no flaw that this check finds (`FailedForACause` and the stages of `CallOK`). `PictureInv`: the batch has as
many prompts as members and padding, in their order, with `BatchOK` saying that it
divides among the devices; whoever holds the file alone finds the own halves in it (`FileIsOwn`).
From them: `WholeTexts`, `NobodyIsServedInVain`, `EveryoneHasTheirImage`, `OnlyTheGuiltyFail`.

`PROJECT.json` lists the theorems with the property each one is about.
Some state more than any run: the type theorems, `LeasesAreOwn`, `LinesGrow`,
`RepliesFit`, `WorkloadUsesQueue`, `ChatKeepsTheIndex`, `RangeOrdered`, `SummaryIsTruthful`,
`LimitKeepsItsOrder`.

Model-checked only: the liveness properties (`WaitingItemCompleted`, `WorkersExit`, `SlotsComeBack`,
`EveryRequestAnswered`, `UploadSettled`, `AllAreAnswered`), as fairness and ENABLED are out of the prover's reach. Every
other property of a passing run is also a theorem. What the runs refute (section 7) is not.

## 7. Where code and words disagree

Shown by a run:

1. `rediswq.py:101-102` says that a garbage collection returns the item of a
   crashed session to the main queue, and 81-83 that others may pick it up when the lease
   has expired. There is no such code; `_lease_exists` is never called. One death
   keeps the item in `processing`, `empty()` false and the other workers waiting for ever (`queue_gc`).
2. `model_training.py:102` "Creates the destination directory if it does not
   exist"; between the test and `os.makedirs` another worker may create it, and this
   one fails with `FileExistsError` (`work_makedirs`). Together with 1, its item is stuck.
3. whereami's `README.md:363` promises the headers of the client's request;
   concurrent requests replace them (`whereami_headers`).

Seen while reading, and no run needed:

4. `api/config.go:81` replaces a provided 0 by the default;
   `example-conf.yaml:20` says "200 if not provided".
5. `print_error_rate.sh:32` counts status 500 as Redis errors; `main.go:122` of hello-app-redis
   writes the words "500" with status 200.
6. The exporter logs "Writes to stream … have been committed" (`main.py:156`) also when the
   append was lost, as nobody waits for the future of `send` (141), or when the commit was
   refused in `stream_errors`.
7. The docstrings of `model-multiplexing/serve.py:91` and `model-composition/serve.py:91` offer the field
   `stream`, and lines 101-109 obey it; but the `StreamingResponse` is the result of a call of another deployment, which cannot
   send it back, so that each such request ends with 500. `FailuresHaveCauses` names this as a cause of its own.
8. When a column of the cost estimate was zero, a percentage is not a number, `encoding/json`
   refuses it, and the `.diff` file stays empty (`cost.go:166`, action `EncodeDiff`).

## 8. What is not modelled

Besides the components at the end of section 1: the numerical content of models and the
wording of reports; the selection of SKUs in the price catalog (one step that
succeeds or fails), the three output formats, `ToPriceMaxDiff` and float rounding in the cost
estimator; the Redis cluster behind hello-app-redis, whose failover can lose
acknowledged increments; what whereami does before it serves (metadata server, tracing,
reflection) and the fields that are the same in every response; of the view its percentiles, memory columns,
priority and deduplication; the vLLM engine, Ray's routing and replicas, and what any model
computes; clients that leave the chat server or one of the routers, whose requests vLLM and Ray cancel or not, which depends on their versions and not
on this code; Kubernetes itself, of which only the effects used by the programs appear (processes start, die,
are probed, replaced, expire).

Smaller hazards that no model covers, for whoever maintains the code:

- Probes: the tests `!= "PONG"]` in `quickstarts/hello-app-redis/manifests/redis-configmap.yaml` (lines
  46 and 59) lack a blank, so that the shell takes them for an error and the probe passes
  whatever Redis answers.
- Cost estimator: files are split at every `---`, also inside a string
  (`api/manifests.go:67`), and loading ends with the first object that cannot be decoded (71). The
  volume claims of a StatefulSet are counted once, not once per replica (210).
- whereami: the metadata server is asked once, at the start (`whereami_payload.py:68`);
  a chain of gRPC services that leads back to itself can fill every
  thread pool with callers that wait for each other (`app.py:140`).
- Players registry: the new list in the browser is computed from the one rendered before the await, so that
  what another reply added or removed meanwhile is lost from the page
  (`CreatePlayer.js:39`, `PlayerList.js:29`); `server.js:44` may answer for an attempt of a
  transaction that is then repeated.
- Guestbook: a browser sends the whole list it knows, and overwrites what others added
  (`controllers.js:27`); writes go to the leader and reads to a follower (`guestbook.php:50`).
- View: the deduplication does not partition by `controller_type`, so that two
  controllers of one name and container hide each other (`container_recommendations.sql:20`).
- Image client: an odd number of requests loses the last image of the grid, and a single
  request divides by zero.
- Pub/Sub: a message may be delivered again before it is acknowledged (`cloud-pubsub/main.py:34`).
- Tracing: one request that fails ends the server (`observability/distributed-tracing/main.go:45`).
- Notebooks: that of pgvector never commits its transaction; that of Elasticsearch overwrites
  the `.env` with the endpoint by the one with the user, and its bulk insert without ids duplicates everything when
  it is run again.
