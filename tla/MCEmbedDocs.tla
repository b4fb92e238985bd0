---------------------------- MODULE MCEmbedDocs ----------------------------
(* A small instance of EmbedDocs for TLC: two versions of one object. *)
EXTENDS EmbedDocs

MCObjects == <<"a", "a">>

\* Each service in its own namespace, and one in another.
MCSettings == {<<"qdrant", "qdrant">>, <<"qdrant", "other">>, <<"pgvector", "pg-ns">>,
               <<"weaviate", "other">>, <<"elasticsearch", "elastic">>}
=============================================================================
