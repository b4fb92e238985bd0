------------------------------ MODULE MCRedisWQ ------------------------------
(* Instances of RedisWQ: three files pushed in two batches. *)
EXTENDS RedisWQ, TLC

CONSTANTS i1, i2, i3

MCItems == {i1, i2, i3}

MCBatches == <<<<i1, i2>>, <<i3>>>>

SessionSymmetry == Permutations(Sessions)

==============================================================================
