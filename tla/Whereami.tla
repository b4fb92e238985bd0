------------------------------- MODULE Whereami -------------------------------
(***************************************************************************)
(* quickstarts/whereami: one process that answers HTTP requests in a       *)
(* thread each, or gRPC requests in a pool of threads.  All threads fill   *)
(* in and return the one dictionary of the one WhereamiPayload object, and *)
(* Python switches threads between any two statements of build_payload.    *)
(*                                                                         *)
(* A value of the dictionary is represented by the request that wrote it.  *)
(* Fields that are the same for all requests (pod_name, zone, ...) are     *)
(* left out.                                                               *)
(***************************************************************************)
EXTENDS Integers, FiniteSets

CONSTANTS Requests,        \* the requests that may be sent
          Settings,        \* the environment variables it may be started with
          Workers,         \* cpu_count() + 5 under gRPC
          Nil              \* a field that is not there

ASSUME FlagsAssumption ==
  /\ Settings \subseteq [GRPC_ENABLED : BOOLEAN, BACKEND_ENABLED : BOOLEAN, ECHO_HEADERS : BOOLEAN]
  /\ Workers \in Nat \ {0} /\ IsFiniteSet(Requests)
  /\ Nil \notin Requests /\ Nil \notin [by : Requests, is : {"json", "None"}]

VARIABLES
  environ,   \* os.environ
  serving,   \* whether the server answers and reports that it is healthy
  pc,        \* pc[r]: where the thread of r is
  path,      \* path[r]: the last part of the path of r
  payload,   \* self.payload: who wrote host_header, backend_result, headers
  result,    \* result[r]: what the backend call of r returned: "json" or "None"
  response,  \* response[r]: what r was answered
  overlap    \* history: the requests that ran while r ran, r included

vars == <<environ, serving, pc, path, payload, result, response, overlap>>

GRPC_ENABLED == environ.GRPC_ENABLED
BACKEND_ENABLED == environ.BACKEND_ENABLED
ECHO_HEADERS == environ.ECHO_HEADERS

Running == {"host", "call", "store", "echo", "reply"}
PCs == {"idle", "queued", "done"} \cup Running

BackendResults == [by : Requests, is : {"json", "None"}]
Responses == [status  : {"none", "200", "500"}, host : Requests \cup {Nil},
              backend : BackendResults \cup {Nil}, headers : Requests \cup {Nil}]
NoResponse == [status |-> "none", host |-> Nil, backend |-> Nil, headers |-> Nil]

Active == {r \in Requests : pc[r] \in Running}

Goto(r, l) == pc' = [pc EXCEPT ![r] = l]

Init ==
  /\ environ \in Settings /\ serving = FALSE
  /\ pc = [r \in Requests |-> "idle"]
  /\ path \in [Requests -> IF GRPC_ENABLED THEN {""} ELSE {"", "backend_result"}]
  /\ payload = [host |-> Nil, backend |-> Nil, headers |-> Nil]
  /\ result = [r \in Requests |-> "None"]
  /\ response = [r \in Requests |-> NoResponse]
  /\ overlap = [r \in Requests |-> {}]

Begin == ~serving /\ serving' = TRUE /\ UNCHANGED <<pc, path, payload, result, response, overlap>>

\* grpc_serve: the services are added and the server is started before all of them are
\* marked as SERVING.
GrpcServe == GRPC_ENABLED /\ Begin

\* app.run of Flask, with its route for health checks.
AppRun == ~GRPC_ENABLED /\ Begin

\* Kubernetes sends requests to a healthy server.
Send(r) ==
  /\ serving
  /\ pc[r] = "idle" /\ Goto(r, "queued")
  /\ UNCHANGED <<path, payload, result, response, overlap>>

\* A thread of its own (threaded=True), or one of the pool.
Start(r) ==
  /\ pc[r] = "queued"
  /\ GRPC_ENABLED => Cardinality(Active) < Workers
  /\ Goto(r, "host")
  /\ overlap' = [q \in Requests |-> CASE q = r      -> Active \cup {r}
                                      [] q \in Active -> overlap[q] \cup {r}
                                      [] OTHER      -> overlap[q]]
  /\ UNCHANGED <<path, payload, result, response>>

AfterHost == IF BACKEND_ENABLED THEN "call" ELSE "echo"

\* Mutant: the header is captured once, like the metadata of the machine.
SetHost_once(r) ==
  /\ pc[r] = "host" /\ Goto(r, AfterHost)
  /\ payload' = IF GRPC_ENABLED \/ payload.host # Nil THEN payload
                ELSE [payload EXCEPT !.host = r]
  /\ UNCHANGED <<path, result, response, overlap>>

\* Under gRPC request_headers is None, and the except clause goes on.
SetHost(r) ==
  /\ pc[r] = "host" /\ Goto(r, AfterHost)
  /\ payload' = IF GRPC_ENABLED THEN payload ELSE [payload EXCEPT !.host = r]
  /\ UNCHANGED <<path, result, response, overlap>>

\* Mutant: the exception of a failed call is not caught.
CallBackend_raises(r) ==
  /\ pc[r] = "call"
  /\ \/ Goto(r, "store") /\ result' = [result EXCEPT ![r] = "json"] /\ UNCHANGED response
     \/ Goto(r, "done") /\ response' = [response EXCEPT ![r].status = "500"] /\ UNCHANGED result
  /\ UNCHANGED <<path, payload, overlap>>

\* The call returns: with a result, or with None after a status that is not ok
\* or an exception of any kind.  It has no timeout.
CallBackend(r) ==
  /\ pc[r] = "call" /\ Goto(r, "store")
  /\ \E x \in {"json", "None"} : result' = [result EXCEPT ![r] = x]
  /\ UNCHANGED <<path, payload, response, overlap>>

\* Mutant: the call is repeated until there is a result.
StoreBackend_waits(r) ==
  /\ pc[r] = "store" /\ result[r] = "json" /\ Goto(r, "echo")
  /\ payload' = [payload EXCEPT !.backend = [by |-> r, is |-> result[r]]]
  /\ UNCHANGED <<path, result, response, overlap>>

\* Under gRPC a failed call leaves the field as it is.
StoreBackend(r) ==
  /\ pc[r] = "store" /\ Goto(r, "echo")
  /\ payload' = IF GRPC_ENABLED /\ result[r] = "None" THEN payload
                ELSE [payload EXCEPT !.backend = [by |-> r, is |-> result[r]]]
  /\ UNCHANGED <<path, result, response, overlap>>

\* Again without effect under gRPC.
EchoHeaders(r) ==
  /\ pc[r] = "echo" /\ Goto(r, "reply")
  /\ payload' = IF ECHO_HEADERS /\ ~GRPC_ENABLED THEN [payload EXCEPT !.headers = r] ELSE payload
  /\ UNCHANGED <<path, result, response, overlap>>

WholePayload ==
  [status |-> "200", host |-> payload.host, backend |-> payload.backend, headers |-> payload.headers]

\* A view that returns None is a TypeError to Flask, hence 500.
FieldResponse(r) ==
  IF payload.backend.is = "None" THEN [NoResponse EXCEPT !.status = "500"]
  ELSE [NoResponse EXCEPT !.status = "200", !.backend = payload.backend]

\* build_payload returned the shared dictionary; home and GetPayload read it now.
\* Flask sorts the items first, so that they are read at one moment.
Reply(r) ==
  /\ pc[r] = "reply" /\ Goto(r, "done")
  /\ response' = [response EXCEPT ![r] =
        IF path[r] = "backend_result" /\ payload.backend # Nil THEN FieldResponse(r)
        ELSE WholePayload]
  /\ UNCHANGED <<path, payload, result, overlap>>

Serve(r) ==
  \/ Start(r) \/ SetHost(r) \/ CallBackend(r) \/ StoreBackend(r)
  \/ EchoHeaders(r) \/ Reply(r)

Next ==
  /\ \/ GrpcServe \/ AppRun
     \/ \E r \in Requests : (Send(r) \/ Serve(r)) /\ UNCHANGED serving
  /\ UNCHANGED environ

Spec == Init /\ [][Next]_vars

\* Threads get their turns, and every call of the backend returns: requests.get and
\* the stub have no timeout, so that this is an assumption about the backend.
FairSpec == Spec /\ \A r \in Requests : WF_vars(Serve(r) /\ UNCHANGED <<environ, serving>>)

-----------------------------------------------------------------------------
\* Type invariant.
TypeOK ==
  /\ environ \in Settings /\ serving \in BOOLEAN
  /\ pc \in [Requests -> PCs] /\ path \in [Requests -> {"", "backend_result"}]
  /\ payload \in [host : Requests \cup {Nil}, backend : BackendResults \cup {Nil},
                  headers : Requests \cup {Nil}]
  /\ result \in [Requests -> {"json", "None"}]
  /\ response \in [Requests -> Responses]
  /\ overlap \in [Requests -> SUBSET Requests]

Whole(r) == response[r].status = "200" /\ (path[r] = "" \/ ~BACKEND_ENABLED)

\* The shared dictionary mixes requests, but never old ones: what a response says
\* was written by a request that ran at the same time, so that an undisturbed
\* request gets its own values.  (The exception is a failed gRPC backend call.)
FieldsAreRecent ==
  \A r \in Requests : response[r].status = "200" =>
    /\ Whole(r) => /\ ~GRPC_ENABLED => response[r].host \in overlap[r]
                   /\ ~GRPC_ENABLED /\ ECHO_HEADERS => response[r].headers \in overlap[r]
    /\ BACKEND_ENABLED /\ (GRPC_ENABLED => result[r] = "json")
          => response[r].backend # Nil /\ response[r].backend.by \in overlap[r]

\* A gRPC response has no header fields, and its backend result is never None:
\* WhereamiReply has no field for the former and no value for the latter.
FitsWhereamiReply ==
  GRPC_ENABLED => \A r \in Requests :
    /\ response[r].host = Nil /\ response[r].headers = Nil
    /\ response[r].backend # Nil => response[r].backend.is = "json"

\* Only a request for the field backend_result is answered 500, and only if the backend
\* has failed for itself or for a request that ran at the same time: the None that an
\* earlier request left in the dictionary does no harm.
ErrorsAreBackendFailures ==
  \A r \in Requests : response[r].status = "500" =>
    /\ path[r] = "backend_result"
    /\ \E q \in overlap[r] : result[q] = "None" /\ pc[q] \in {"echo", "reply", "done"}

\* Every request is answered, also when there are fewer threads than requests.
EveryRequestAnswered == \A r \in Requests : (pc[r] = "queued") ~> (pc[r] = "done")

\* "populated with the headers included in the client's request".  Refuted: by
\* the time the response is written, another request may have stored its own.
EchoesOwnHeaders ==
  ~GRPC_ENABLED /\ ECHO_HEADERS =>
    \A r \in Requests : Whole(r) => response[r].headers = r

=============================================================================
