----------------------------- MODULE BatchWorker -----------------------------
(***************************************************************************)
(* The whole batch workload: the queue and the loop of RedisWQ, and what a *)
(* worker does with an item between lease() and complete(), worker.py and  *)
(* model_training.py: load the model of its last checkpoint or make a new  *)
(* one, fit it on the dataset, save it as the checkpoint of the dataset,   *)
(* and append a report.  Workers share the file server, where the output   *)
(* directory, the checkpoints and the report live; the variable            *)
(* checkpoint_path is the worker's own and dies with it.                   *)
(*                                                                         *)
(* A model is the set of datasets it was fitted on.  File names are unique *)
(* per dataset, so a checkpoint is named by its item.                      *)
(***************************************************************************)
EXTENDS RedisWQ

VARIABLES
  stage,       \* stage[s]: what s does next with its item, in state "work"
  checkpoint,  \* checkpoint[s]: checkpoint_path of s, or None
  model,       \* model[s]: the model in memory of s
  outputDir,   \* the output directory exists
  files,       \* files[i]: content of the checkpoint file of i
  reports      \* reports[i]: the models reported for i in report.txt, in order

workVars == <<stage, checkpoint, model, outputDir, files, reports>>
bwVars == <<vars, workVars>>

Stages == {"init", "fit", "makedirs", "open", "dump", "report", "finished"}

\* A checkpoint file: absent, truncated by open(path, 'wb'), or holding a model.
Absent == [state |-> "absent", model |-> {}]
Truncated == [state |-> "truncated", model |-> {}]
Saved(m) == [state |-> "saved", model |-> m]

FileTypeOK ==
  /\ TypeOK
  /\ stage \in [Sessions -> Stages]
  /\ checkpoint \in [Sessions -> Items \cup {None}]
  /\ model \in [Sessions -> SUBSET Items]
  /\ outputDir \in BOOLEAN
  /\ files \in [Items -> [state : {"absent", "truncated", "saved"}, model : SUBSET Items]]
  /\ reports \in [Items -> Seq(SUBSET Items)]

\* The file server starts with or without an output directory.
BWInit ==
  /\ Init
  /\ stage = [s \in Sessions |-> "init"]
  /\ checkpoint = [s \in Sessions |-> None]
  /\ model = [s \in Sessions |-> {}]
  /\ outputDir \in BOOLEAN
  /\ files = [i \in Items |-> Absent]
  /\ reports = [i \in Items |-> <<>>]

\* Session s is at stage `from` of the work on its item and moves to `to`.
Stage(s, from, to) ==
  /\ pc[s] = "work"
  /\ stage[s] = from
  /\ stage' = [stage EXCEPT ![s] = to]
  /\ UNCHANGED vars

\* The work of s at this stage raises; what was written stays.
Fails(s, at) ==
  /\ stage[s] = at
  /\ Raise(s)
  /\ UNCHANGED workVars

------------------------------------------------------------------------------
\* Mistake: the worker resumes from any checkpoint it finds.
InitModel_anyCheckpoint(s) ==
  /\ Stage(s, "init", "fit")
  /\ \/ \E i \in Items : /\ files[i].state = "saved"
                        /\ model' = [model EXCEPT ![s] = files[i].model]
     \/ model' = [model EXCEPT ![s] = {}]
  /\ UNCHANGED <<checkpoint, outputDir, files, reports>>

\* FraudDetectionModelTrainer(...): unpickle the last checkpoint of this
\* process, or start from a new classifier.
InitModel(s) ==
  /\ Stage(s, "init", "fit")
  /\ checkpoint[s] # None => files[checkpoint[s]].state = "saved"
  /\ model' = [model EXCEPT
                 ![s] = IF checkpoint[s] = None THEN {} ELSE files[checkpoint[s]].model]
  /\ UNCHANGED <<checkpoint, outputDir, files, reports>>

\* Unpickling a truncated or missing file raises.
InitModelFails(s) ==
  /\ checkpoint[s] # None
  /\ files[checkpoint[s]].state # "saved"
  /\ Fails(s, "init")

\* partial_fit on the dataset, then os.path.exists of the output directory.
Fit(s) ==
  /\ Stage(s, "fit", IF outputDir THEN "open" ELSE "makedirs")
  /\ model' = [model EXCEPT ![s] = @ \cup {hand[s]}]
  /\ UNCHANGED <<checkpoint, outputDir, files, reports>>

\* os.makedirs of the directory that did not exist when it was looked for.
MakeDirs(s) ==
  /\ ~outputDir
  /\ Stage(s, "makedirs", "open")
  /\ outputDir' = TRUE
  /\ UNCHANGED <<checkpoint, model, files, reports>>

\* os.makedirs raises FileExistsError on a directory that exists by now.
MakeDirsFails(s) ==
  /\ outputDir
  /\ Fails(s, "makedirs")

\* open(path, 'wb') truncates the checkpoint of this dataset.
OpenCheckpoint(s) ==
  /\ Stage(s, "open", "dump")
  /\ files' = [files EXCEPT ![hand[s]] = Truncated]
  /\ UNCHANGED <<checkpoint, model, outputDir, reports>>

\* Mistake: the new checkpoint takes the name of the previous one.
DumpCheckpoint_reusesName(s) ==
  /\ Stage(s, "dump", "report")
  /\ files' = [files EXCEPT
                 ![IF checkpoint[s] = None THEN hand[s] ELSE checkpoint[s]] = Saved(model[s])]
  /\ checkpoint' = [checkpoint EXCEPT ![s] = hand[s]]
  /\ UNCHANGED <<model, outputDir, reports>>

\* pickle.dump of the model; train_and_save returns the path.
DumpCheckpoint(s) ==
  /\ Stage(s, "dump", "report")
  /\ files' = [files EXCEPT ![hand[s]] = Saved(model[s])]
  /\ checkpoint' = [checkpoint EXCEPT ![s] = hand[s]]
  /\ UNCHANGED <<model, outputDir, reports>>

\* generate_report appends one entry to report.txt.
Report(s) ==
  /\ Stage(s, "report", "finished")
  /\ reports' = [reports EXCEPT ![hand[s]] = Append(@, model[s])]
  /\ UNCHANGED <<checkpoint, model, outputDir, files>>

\* Mistake: the item is completed before its report is written.
Finished_unreported(s) ==
  /\ stage[s] = "report"
  /\ Work(s)
  /\ stage' = [stage EXCEPT ![s] = "init"]
  /\ UNCHANGED <<checkpoint, model, outputDir, files, reports>>

\* The work is over: the worker calls complete(item).  The next item starts at
\* the first stage.
Finished(s) ==
  /\ stage[s] = "finished"
  /\ Work(s)
  /\ stage' = [stage EXCEPT ![s] = "init"]
  /\ UNCHANGED <<checkpoint, model, outputDir, files, reports>>

WorkStep(s) ==
  \/ InitModel(s) \/ InitModelFails(s)
  \/ Fit(s)
  \/ MakeDirs(s) \/ MakeDirsFails(s)
  \/ OpenCheckpoint(s) \/ DumpCheckpoint(s)
  \/ Report(s)
  \/ Finished(s)

\* The commands to Redis, which touch no file.
QueueStep(s) ==
  /\ \/ LLenMain(s) \/ LLenProcessing(s)
     \/ Pop(s) \/ PopTimeout(s) \/ SetLease(s)
     \/ LRem(s) \/ Del(s)
  /\ UNCHANGED workVars

BWNext ==
  \/ \E s \in Sessions :
       \/ WorkStep(s) \/ QueueStep(s)
       \/ (Start(s) \/ Die(s)) /\ UNCHANGED workVars
  \/ Populate /\ UNCHANGED workVars
  \/ \E i \in Items : Expire(i) /\ UNCHANGED workVars

BWSpec == BWInit /\ [][BWNext]_bwVars

BWFairSpec ==
  /\ BWSpec
  /\ \A s \in Sessions :
       /\ WF_bwVars(WorkStep(s) \/ QueueStep(s))
       /\ WF_bwVars(Start(s) /\ UNCHANGED workVars)
  /\ WF_bwVars(Populate /\ UNCHANGED workVars)

------------------------------------------------------------------------------
\* The file a worker will load its next model from is complete and holds just
\* the model the worker left there: neither another worker nor a death during
\* somebody's pickle.dump has touched it.
OwnCheckpointIntact ==
  \A s \in Sessions :
     (Live(s) /\ checkpoint[s] # None) =>
        /\ files[checkpoint[s]].state = "saved"
        /\ checkpoint[s] \in files[checkpoint[s]].model
        /\ files[checkpoint[s]].model \subseteq
              removed \cup {i \in Items : Holds(s, i)}

\* What has left the queue is finished for good: its checkpoint is complete and
\* was fitted on it, and report.txt has exactly one entry for it, for that model.
CompletedIsSaved ==
  \A i \in removed :
     /\ files[i].state = "saved"
     /\ i \in files[i].model
     /\ reports[i] = <<files[i].model>>

\* Work is done at most once, whatever dies: no file gets a second report, and
\* only an item somebody held can have left a trace on the file server.
NoRepeatedWork ==
  \A i \in Items :
     /\ Len(reports[i]) <= 1
     /\ files[i] # Absent => i \in removed \cup processing

\* The line of a worker is the model that it has in hand, or will load for its
\* next item.
Mid(s) == pc[s] = "lrem" \/ (pc[s] = "work" /\ stage[s] # "init")

Line(s) == IF Mid(s) THEN model[s]
           ELSE IF checkpoint[s] = None THEN {} ELSE files[checkpoint[s]].model

Alive(s) == pc[s] \notin {"failed", "dead"}

FilesNested ==
  \A i, j \in Items :
     (files[i].state = "saved" /\ files[j].state = "saved") =>
        \/ files[i].model \subseteq files[j].model
        \/ files[j].model \subseteq files[i].model
        \/ files[i].model \cap files[j].model = {}

LinesApart ==
  \A s, t \in Sessions : Alive(s) /\ Alive(t) /\ s # t => Line(s) \cap Line(t) = {}

FilesOnLines ==
  \A s \in Sessions, i \in Items : Alive(s) /\ files[i].state = "saved" =>
     files[i].model \subseteq Line(s) \/ files[i].model \cap Line(s) = {}

\* Two workers never fit the same dataset into two models: what a worker has in hand
\* or will load has no dataset of another worker's, a checkpoint is an earlier state of
\* its worker's model or has nothing in common with it, and those that dead workers
\* left behind are ordered by inclusion or disjoint.
ModelsAreLineages == LinesApart /\ FilesOnLines /\ FilesNested

\* However often a file is queued, what has left the queue has been reported, by
\* a model that was fitted on it, at least once.
CompletedIsReported ==
  \A i \in removed : \E k \in 1..Len(reports[i]) : i \in reports[i][k]

\* _save_model "creates the destination directory if it does not exist": no
\* worker fails because the directory is there.
DirectoryCreated ==
  \A s \in Sessions : pc[s] = "failed" => stage[s] # "makedirs"

==============================================================================
