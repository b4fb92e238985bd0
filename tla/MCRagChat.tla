---------------------------- MODULE MCRagChat ----------------------------
(* A small instance of RagChat for TLC. *)
EXTENDS RagChat

MCObjects == <<"a", "a/b">>

MCSettings == {<<"qdrant", "qdrant">>, <<"pgvector", "pg-ns">>,
               <<"weaviate", "other">>, <<"elasticsearch", "elastic">>}
=============================================================================
