---------------------------- MODULE MCBatchWorker ----------------------------
(* Instances of BatchWorker. *)
EXTENDS BatchWorker, TLC

CONSTANTS i1, i2, i3

MCItems == {i1, i2, i3}

MCBatches == <<<<i1, i2, i3>>>>

\* One file is pushed late, maybe when a worker has already ended.
MCTwoBatches == <<<<i1, i2>>, <<i3>>>>

\* queue-jobs.sh is run again when a file is new: i1 is pushed a second time.
MCRequeued == <<<<i1>>, <<i2, i1>>>>

SessionSymmetry == Permutations(Sessions)

==============================================================================
