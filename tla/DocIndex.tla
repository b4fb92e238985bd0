------------------------------ MODULE DocIndex ------------------------------
(***************************************************************************)
(* What the embedding services promise to the chatbots, whatever the       *)
(* database: versions of documents are uploaded, an uploaded version may   *)
(* become searchable as a whole, and what is searchable stays so.          *)
(***************************************************************************)
EXTENDS Naturals

CONSTANT Generations      \* the versions, numbered in the order of upload

VARIABLES uploaded,       \* how many versions have been uploaded
          searchable      \* the versions every piece of which can be found

vars == <<uploaded, searchable>>

Init == uploaded = 0 /\ searchable = {}

Upload == /\ uploaded + 1 \in Generations
          /\ uploaded' = uploaded + 1
          /\ UNCHANGED searchable

Index(c) == /\ c <= uploaded
            /\ searchable' = searchable \cup {c}
            /\ UNCHANGED uploaded

Next == Upload \/ \E c \in Generations : Index(c)

Spec == Init /\ [][Next]_vars
=============================================================================
