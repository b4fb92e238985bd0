--------------------------- MODULE MCModelServing ---------------------------
(* A small instance of ModelServing for TLC. *)
EXTENDS ModelServing

MCNumRequests == [tpu |-> 6, gpu |-> 3, webapp |-> 3]

MCEmptyPrompts == {<<"gpu", 2>>, <<"webapp", 2>>}
=============================================================================
