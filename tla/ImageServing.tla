---------------------------- MODULE ImageServing ----------------------------
(***************************************************************************)
(* The servers of generated images under ai-ml, from the request to the    *)
(* picture.                                                                *)
(*                                                                         *)
(*   "tpu": gke-ray/rayserve/stable-diffusion/stable_diffusion_tpu.py,     *)
(*      which pads the prompts of several requests to one batch of a fixed *)
(*      size, with its client stable_diffusion_tpu_req.py, which sends     *)
(*      requests from a pool of threads and puts the images on a grid;     *)
(*   "gpu": stable_diffusion.py next to it, one prompt at a time, with     *)
(*      generate_image.py;                                                 *)
(*   "webapp": maxdiffusion-tpu/build, a Flask page that asks a model      *)
(*      server for the image, saves it in a file and sends the file.       *)
(*                                                                         *)
(* An image is the pair of its halves, each known by the request that it   *)
(* was made for; the file of the web application can hold half an image.   *)
(***************************************************************************)
EXTENDS Integers, Sequences, FiniteSets, SequencesExt

CONSTANTS
  NumRequests,   \* NumRequests[a]: how many requests the server a gets
  EmptyPrompts,  \* the pairs <<server, request>> with an empty prompt
  BatchSize,     \* _MAX_BATCH_SIZE
  Devices,       \* jax.device_count()
  Workers        \* batch_size of the client: its threads

Apps == {"tpu", "gpu", "webapp"}

ASSUME ImageAssumption ==
  /\ NumRequests \in [Apps -> Nat]
  /\ Devices \in Nat \ {0} /\ Workers \in Nat \ {0}
  /\ BatchSize \in Nat \ {0} /\ BatchSize % Devices = 0   \* "Should be a factor of 4"

VARIABLES
  app,      \* the server
  up,       \* the model is loaded and compiled
  stage,    \* stage[r]: how far request r has come
  queue,    \* the requests that wait for the model
  members,  \* the requests of the batch, whose futures await their results
  prompts,  \* the list of prompts of the batch: requests, or 0 for "Scratch request"
  image,    \* image[r]: the halves of the image that r has been given
  file,     \* stable_diffusion_images.jpg: the halves in it, 0 for one not written
  grid,     \* diffusion_results.png: the image in each cell
  faulty,   \* history: the requests that were hit by a failure
  shared    \* history: the requests that had the file at the same time as another

vars == <<app, up, stage, queue, members, prompts, image, file, grid, faulty, shared>>

Requests == 1..NumRequests[app]

Stages == {"new", "sent", "queued", "generated", "truncated", "half", "saved", "sending",
           "answered", "failed"}

Blank == <<0, 0>>

Image(r) == <<r, r>>

TypeOK ==
  /\ app \in Apps /\ up \in BOOLEAN
  /\ stage \in [Requests -> Stages]
  /\ queue \in Seq(Requests) /\ members \in Seq(Requests)
  /\ prompts \in Seq(Requests \cup {0})
  /\ image \in [Requests -> (Requests \cup {0}) \X (Requests \cup {0})]
  /\ file \in (Requests \cup {0}) \X (Requests \cup {0})
  /\ faulty \subseteq Requests /\ shared \subseteq Requests
  /\ Len(members) <= BatchSize

Init ==
  /\ app \in Apps
  /\ up = FALSE
  /\ stage = [r \in Requests |-> "new"]
  /\ queue = <<>> /\ members = <<>> /\ prompts = <<>>
  /\ image = [r \in Requests |-> Blank]
  /\ file = Blank
  /\ grid = <<>>
  /\ faulty = {} /\ shared = {}

------------------------------------------------------------------------------
Goto(r, s) == stage' = [stage EXCEPT ![r] = s]

Ended(r) == stage[r] \in {"answered", "failed"}

model == <<queue, members, prompts>>
result == <<image, file, grid, shared>>

\* Nothing is generated before the model is up.
Loaded == /\ ~up /\ up' = TRUE
          /\ UNCHANGED <<app, stage, model, result, faulty>>

\* __init__: the pipeline is replicated and, if asked, warmed up with a batch.
TpuSetup == app = "tpu" /\ Loaded

\* __init__: the pipeline is moved to the GPU.
GpuSetup == app = "gpu" /\ Loaded

\* The script of the model server loads and compiles before uvicorn serves.
WebappSetup == app = "webapp" /\ Loaded

Sent(r) == /\ stage[r] = "new" /\ Goto(r, "sent")
           /\ UNCHANGED <<app, up, model, result, faulty>>

\* send_requests hands the prompts to its threads in their order.
TpuSend(r) ==
  /\ app = "tpu"
  /\ \A q \in Requests : q < r => stage[q] # "new"
  /\ Cardinality({q \in Requests : stage[q] # "new" /\ ~Ended(q)}) < Workers
  /\ Sent(r)

\* generate_image.py sends one request.
GpuSend(r) == app = "gpu" /\ Sent(r)

\* Somebody submits the form.
WebappSend(r) == app = "webapp" /\ Sent(r)

\* The request waits for the model ...
Enqueue(r) ==
  /\ stage[r] = "sent" /\ Goto(r, "queued")
  /\ queue' = Append(queue, r)
  /\ UNCHANGED <<app, up, members, prompts, result, faulty>>

\* ... or ends with an exception.
Refuse(r) ==
  /\ stage[r] = "sent" /\ Goto(r, "failed")
  /\ UNCHANGED <<app, up, model, result>>

EmptyPrompt(r) == <<app, r>> \in EmptyPrompts

\* APIIngress.generate asserts that there is a prompt and awaits the handle.
TpuIngress(r) ==
  /\ app = "tpu"
  /\ IF EmptyPrompt(r) THEN Refuse(r) /\ UNCHANGED faulty ELSE Enqueue(r)
GpuIngress(r) ==
  /\ app = "gpu"
  /\ IF EmptyPrompt(r) THEN Refuse(r) /\ UNCHANGED faulty ELSE Enqueue(r)

\* get_image posts any prompt, and gets an exception from a server that is not up.
WebappIngress(r) ==
  /\ app = "webapp"
  /\ IF up THEN Enqueue(r) ELSE Refuse(r) /\ faulty' = faulty \cup {r}

\* The model takes n requests, with scratch requests before or after them.
Take(n, before, after) ==
  /\ up /\ members = <<>> /\ queue # <<>>
  /\ members' = SubSeq(queue, 1, n)
  /\ queue' = SubSeq(queue, n + 1, Len(queue))
  /\ prompts' = [i \in 1..before |-> 0] \o members' \o [i \in 1..after |-> 0]
  /\ UNCHANGED <<app, up, stage, result, faulty>>

Limit == IF app = "tpu" THEN BatchSize ELSE 1

\* @serve.batch takes what has come within batch_wait_timeout_s, at most the limit.
Ready == IF Len(queue) < Limit THEN Len(queue) ELSE Limit

\* num_to_pad
Padding(n) == IF app = "tpu" THEN BatchSize - n ELSE 0

\* Mistake: the padding comes first.
TakeBatch_padsFirst == Take(Ready, Padding(Ready), 0)

\* The model is free and takes the next prompts.
TakeBatch == Take(Ready, 0, Padding(Ready))

\* shard() divides the prompts among the devices of the "tpu".
Shardable == app # "tpu" \/ Len(prompts) % Devices = 0

Members == {members[i] : i \in 1..Len(members)}

FreeModel == members' = <<>> /\ prompts' = <<>>

\* The images come in the order of the prompts; those of the padding are cut off, and
\* the i-th result goes to the i-th request.
Generate(next) ==
  /\ members # <<>> /\ Shardable
  /\ image' = [r \in Requests |->
                 IF r \in Members
                   THEN LET i == CHOOSE j \in 1..Len(members) : members[j] = r IN Image(prompts[i])
                   ELSE image[r]]
  /\ stage' = [r \in Requests |-> IF r \in Members THEN next ELSE stage[r]]
  /\ FreeModel
  /\ UNCHANGED <<app, up, queue, file, grid, faulty, shared>>

\* batched_generate_handler; StableDiffusionV2.generate and the ingress, which makes a
\* PNG of the image; generate() of the model server, which returns the first of the
\* images that its devices have made.
TpuGenerate    == app = "tpu" /\ Generate("answered")
GpuGenerate    == app = "gpu" /\ Generate("answered")
WebappGenerate == app = "webapp" /\ Generate("generated")

\* An exception in the model fails all requests of the batch: one that can happen at any
\* time, or that of shard(), for a batch that cannot be divided.
GenerateFails ==
  /\ members # <<>>
  /\ stage' = [r \in Requests |-> IF r \in Members THEN "failed" ELSE stage[r]]
  /\ faulty' = IF Shardable THEN faulty \cup Members ELSE faulty
  /\ FreeModel
  /\ UNCHANGED <<app, up, queue, result>>

------------------------------------------------------------------------------
(* get_image() of the web application, from content.save to the end of send_file.  All *)
(* requests use one file, and Flask runs each in a thread of its own.                  *)

HasFile(r) == stage[r] \in {"truncated", "half", "saved", "sending"}

\* Saving opens the file, which empties it, ...
Truncate(r) ==
  /\ stage[r] = "generated"
  /\ Goto(r, "truncated")
  /\ file' = Blank
  /\ LET others == {q \in Requests \ {r} : HasFile(q)} IN
       shared' = IF others = {} THEN shared ELSE shared \cup others \cup {r}
  /\ UNCHANGED <<app, up, model, image, grid, faulty>>

\* ... and writes the image in pieces.
WriteHalf(r) ==
  /\ stage[r] \in {"truncated", "half"}
  /\ IF stage[r] = "truncated"
       THEN Goto(r, "half") /\ file' = [file EXCEPT ![1] = r]
       ELSE Goto(r, "saved") /\ file' = [file EXCEPT ![2] = r]
  /\ UNCHANGED <<app, up, model, image, grid, faulty, shared>>

\* send_file opens the file again, whatever is in it now, and reads it in pieces.
SendHalf(r) ==
  /\ stage[r] \in {"saved", "sending"}
  /\ IF stage[r] = "saved"
       THEN Goto(r, "sending") /\ image' = [image EXCEPT ![r] = <<file[1], 0>>]
       ELSE Goto(r, "answered") /\ image' = [image EXCEPT ![r][2] = file[2]]
  /\ UNCHANGED <<app, up, model, file, grid, faulty, shared>>

------------------------------------------------------------------------------
(* The end of send_requests, with save_pictures. *)

Cols == NumRequests["tpu"] \div 2

\* image_grid pastes the i-th image, from 0 on, into this cell.
CellOf(i) == <<i % Cols, i \div Cols>>

\* A request that has failed is None in the list, which Image.open refuses; so is a grid
\* of no columns.  What is pasted outside of the two rows is cut off.
SaveGrid ==
  /\ app = "tpu" /\ grid = <<>> /\ Cols > 0
  /\ \A r \in Requests : stage[r] = "answered"
  /\ grid' = [cell \in (0..(Cols - 1)) \X (0..1) |->
                image[CHOOSE r \in Requests : CellOf(r - 1) = cell]]
  /\ UNCHANGED <<app, up, stage, model, image, file, faulty, shared>>

------------------------------------------------------------------------------
Setup == TpuSetup \/ GpuSetup \/ WebappSetup

Model == TakeBatch \/ TpuGenerate \/ GpuGenerate \/ WebappGenerate

Server(r) ==
  \/ TpuIngress(r) \/ GpuIngress(r) \/ WebappIngress(r)
  \/ Truncate(r) \/ WriteHalf(r) \/ SendHalf(r)

Client(r) == TpuSend(r) \/ GpuSend(r) \/ WebappSend(r)

Next == \/ Setup \/ Model \/ GenerateFails \/ SaveGrid
        \/ \E r \in Requests : Client(r) \/ Server(r)

\* The servers come up and go on with what they have been sent, each request in its
\* turn; nobody has to send one.
Fairness == WF_vars(Setup) /\ WF_vars(Model) /\ WF_vars(\E r \in Requests : Server(r))

Spec == Init /\ [][Next]_vars /\ Fairness

------------------------------------------------------------------------------
\* Everybody gets the image of the own prompt, whole, and the grid of the client shows
\* the images, row by row, in the order of the prompts.  In the web application only those
\* get their image who had the file for themselves.
OwnImage ==
  /\ \A r \in Requests : (stage[r] = "answered" /\ r \notin shared) => image[r] = Image(r)
  /\ grid # <<>> => \A i \in 0..(2 * Cols - 1) : grid[<<i % Cols, i \div Cols>>] = Image(i + 1)

\* Requests that come together fail together only if the model fails: the size of a
\* batch is never the reason.
OnlyFaultsFail ==
  \A r \in Requests : stage[r] = "failed" => r \in faulty \/ EmptyPrompt(r)

\* No request is left without an answer, however few the others are that share its batch.
EveryoneIsAnswered ==
  \A r \in UNION {1..NumRequests[a] : a \in Apps} :
    (r \in Requests /\ stage[r] = "sent") ~> (r \in Requests /\ Ended(r))
=============================================================================
