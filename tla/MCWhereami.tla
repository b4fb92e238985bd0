------------------------------ MODULE MCWhereami ------------------------------
(* The settings of the overlays of quickstarts/whereami: HTTP with a       *)
(* backend (and with header echoing), and gRPC with a backend.             *)
EXTENDS Whereami

MCFrontends ==
  {[GRPC_ENABLED |-> g, BACKEND_ENABLED |-> TRUE, ECHO_HEADERS |-> ~g] : g \in BOOLEAN}

\* k8s-echo-headers-overlay-example
MCEcho == {[GRPC_ENABLED |-> FALSE, BACKEND_ENABLED |-> FALSE, ECHO_HEADERS |-> TRUE]}
=============================================================================
