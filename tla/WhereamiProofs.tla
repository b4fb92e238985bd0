---------------------------- MODULE WhereamiProofs ----------------------------
(***************************************************************************)
(* Proofs about Whereami, for any number of requests and threads and all   *)
(* environments.                                                           *)
(***************************************************************************)
EXTENDS Whereami, TLAPS

USE DEF GRPC_ENABLED, BACKEND_ENABLED, ECHO_HEADERS

\* Whoever runs now is in the overlap of whoever runs now.
OverlapOK == \A q, r \in Requests : q \in Active /\ r \in Active => q \in overlap[r]

\* What r has stored is still there, or was replaced by a request that overlaps r.
StoredIsRecent ==
  \A r \in Requests :
    /\ pc[r] \in Running \ {"host"} /\ ~GRPC_ENABLED => payload.host \in overlap[r]
    /\ pc[r] \in {"echo", "reply"} /\ BACKEND_ENABLED /\ (GRPC_ENABLED => result[r] = "json")
         => payload.backend # Nil /\ payload.backend.by \in overlap[r]
    /\ pc[r] = "reply" /\ ~GRPC_ENABLED /\ ECHO_HEADERS => payload.headers \in overlap[r]

GRPCPayload ==
  GRPC_ENABLED => /\ payload.host = Nil /\ payload.headers = Nil
                  /\ payload.backend # Nil => payload.backend.is = "json"

NoBackend ==
  ~BACKEND_ENABLED =>
    payload.backend = Nil /\ \A r \in Requests : pc[r] \notin {"call", "store"}

AnsweredAtTheEnd == \A r \in Requests : pc[r] # "done" => response[r] = NoResponse

IInv ==
  /\ TypeOK /\ OverlapOK /\ StoredIsRecent /\ GRPCPayload /\ NoBackend
  /\ AnsweredAtTheEnd /\ FieldsAreRecent /\ FitsWhereamiReply

LEMMA InitIInv == Init => IInv
<1> SUFFICES ASSUME Init PROVE IInv
  OBVIOUS
<1>1. TypeOK
  BY DEF Init, TypeOK, PCs, Running, Responses, NoResponse
<1>2. OverlapOK /\ StoredIsRecent /\ GRPCPayload /\ NoBackend /\ AnsweredAtTheEnd
  BY DEF Init, OverlapOK, Active, Running, StoredIsRecent, GRPCPayload, NoBackend,
         AnsweredAtTheEnd
<1>3. FieldsAreRecent /\ FitsWhereamiReply
  BY DEF Init, FieldsAreRecent, FitsWhereamiReply, Whole, NoResponse
<1>4. QED
  BY <1>1, <1>2, <1>3 DEF IInv

\* A response that has been given stays true: overlaps only grow.
LEMMA AnswersStay ==
  ASSUME IInv, UNCHANGED <<environ, path, response>>,
         \A r \in Requests : overlap[r] \subseteq overlap'[r],
         \A r \in Requests : pc[r] = "done" => result'[r] = result[r]
  PROVE  FieldsAreRecent' /\ FitsWhereamiReply'
<1>1. ASSUME NEW r \in Requests, response[r].status = "200"
      PROVE  pc[r] = "done"
  BY <1>1 DEF IInv, AnsweredAtTheEnd, NoResponse
<1>2. FieldsAreRecent'
  <2> SUFFICES ASSUME NEW r \in Requests, response[r].status = "200"
      PROVE /\ Whole(r) => /\ ~GRPC_ENABLED => response[r].host \in overlap'[r]
                           /\ ~GRPC_ENABLED /\ ECHO_HEADERS => response[r].headers \in overlap'[r]
            /\ BACKEND_ENABLED /\ (GRPC_ENABLED => result[r] = "json")
                 => response[r].backend # Nil /\ response[r].backend.by \in overlap'[r]
    BY <1>1 DEF FieldsAreRecent, Whole
  <2>1. QED
    BY DEF IInv, FieldsAreRecent
<1>3. FitsWhereamiReply'
  BY DEF IInv, FitsWhereamiReply
<1>4. QED
  BY <1>2, <1>3

LEMMA StartKeepsIInv ==
  ASSUME IInv, NEW r \in Requests, Start(r), UNCHANGED <<environ, serving>>
  PROVE  IInv'
<1> USE DEF IInv
<1>1. TypeOK'
  <2>1. overlap' \in [Requests -> SUBSET Requests]
    BY DEF Start, TypeOK, Active
  <2>2. QED
    BY <2>1 DEF Start, Goto, TypeOK, PCs, Running
<1>2. \A q \in Requests : overlap[q] \subseteq overlap'[q] \/ q = r
  BY DEF Start
<1>3. \A q \in Requests : q # r => pc'[q] = pc[q]
  BY DEF Start, Goto, TypeOK
<1>4. pc[r] = "queued" /\ pc'[r] = "host" /\ r \notin Active /\ Active' = Active \cup {r}
  BY DEF Start, Goto, TypeOK, Active, Running
<1>5. OverlapOK'
  BY <1>4 DEF Start, OverlapOK
<1>6. StoredIsRecent' /\ NoBackend'
  BY <1>2, <1>3, <1>4 DEF Start, StoredIsRecent, NoBackend, Running
<1>7. GRPCPayload' /\ AnsweredAtTheEnd'
  BY <1>3, <1>4 DEF Start, GRPCPayload, AnsweredAtTheEnd
<1>8. FieldsAreRecent' /\ FitsWhereamiReply'
  <2>1. response[r] = NoResponse
    BY <1>4 DEF AnsweredAtTheEnd
  <2>2. FieldsAreRecent'
    <3> SUFFICES ASSUME NEW q \in Requests, response[q].status = "200"
        PROVE /\ Whole(q) => /\ ~GRPC_ENABLED => response[q].host \in overlap'[q]
                             /\ ~GRPC_ENABLED /\ ECHO_HEADERS => response[q].headers \in overlap'[q]
              /\ BACKEND_ENABLED /\ (GRPC_ENABLED => result[q] = "json")
                   => response[q].backend # Nil /\ response[q].backend.by \in overlap'[q]
      BY DEF FieldsAreRecent, Whole, Start
    <3>1. q # r /\ overlap[q] \subseteq overlap'[q]
      BY <1>2, <2>1 DEF NoResponse
    <3>2. QED
      BY <3>1 DEF FieldsAreRecent
  <2>3. FitsWhereamiReply'
    BY DEF Start, FitsWhereamiReply
  <2>4. QED
    BY <2>2, <2>3
<1>9. QED
  BY <1>1, <1>5, <1>6, <1>7, <1>8

\* The steps of a thread between its start and its reply.
LEMMA BuildKeepsIInv ==
  ASSUME IInv, NEW r \in Requests,
         SetHost(r) \/ CallBackend(r) \/ StoreBackend(r) \/ EchoHeaders(r),
         UNCHANGED <<environ, serving>>
  PROVE  IInv'
<1> USE DEF IInv
<1>1. /\ UNCHANGED <<path, response, overlap>>
      /\ \A q \in Requests : q # r => pc'[q] = pc[q] /\ result'[q] = result[q]
      /\ pc[r] \in Running /\ pc'[r] \in Running
      /\ pc[r] # "done" /\ pc' \in [Requests -> PCs]
  BY DEF SetHost, CallBackend, StoreBackend, EchoHeaders, Goto, TypeOK, PCs, Running, AfterHost
<1>2. r \in Active /\ Active' = Active
  BY <1>1 DEF Active
<1>3. \A q \in Active : r \in overlap[q]
  BY <1>2 DEF OverlapOK, Active
<1>4. FieldsAreRecent' /\ FitsWhereamiReply'
  BY <1>1, AnswersStay
<1>5. OverlapOK' /\ AnsweredAtTheEnd'
  BY <1>1, <1>2 DEF OverlapOK, AnsweredAtTheEnd, Running
<1>6. TypeOK'
  <2>1. CASE SetHost(r) \/ EchoHeaders(r)
    BY <1>1, <2>1 DEF SetHost, EchoHeaders, TypeOK
  <2>2. CASE CallBackend(r)
    BY <1>1, <2>2 DEF CallBackend, TypeOK
  <2>3. CASE StoreBackend(r)
    <3>1. [by |-> r, is |-> result[r]] \in BackendResults
      BY DEF BackendResults, TypeOK
    <3>2. QED
      BY <1>1, <2>3, <3>1 DEF StoreBackend, TypeOK
  <2>4. QED
    BY <2>1, <2>2, <2>3
<1>7. CASE SetHost(r)
  <2>1. StoredIsRecent'
    BY <1>1, <1>3, <1>7 DEF SetHost, Goto, AfterHost, TypeOK, StoredIsRecent, Active, Running
  <2>2. GRPCPayload' /\ NoBackend'
    BY <1>1, <1>7 DEF SetHost, Goto, AfterHost, TypeOK, GRPCPayload, NoBackend
  <2>3. QED
    BY <1>4, <1>5, <1>6, <2>1, <2>2
<1>8. CASE CallBackend(r)
  <2>1. StoredIsRecent'
    BY <1>1, <1>8 DEF CallBackend, Goto, TypeOK, StoredIsRecent, Running
  <2>2. GRPCPayload' /\ NoBackend'
    BY <1>1, <1>8 DEF CallBackend, Goto, TypeOK, GRPCPayload, NoBackend
  <2>3. QED
    BY <1>4, <1>5, <1>6, <2>1, <2>2
<1>9. CASE StoreBackend(r)
  <2>1. pc[r] = "store" /\ pc'[r] = "echo" /\ result' = result
    BY <1>9 DEF StoreBackend, Goto, TypeOK
  <2>2. CASE GRPC_ENABLED /\ result[r] = "None"
    <3>1. payload' = payload
      BY <1>9, <2>2 DEF StoreBackend
    <3>2. StoredIsRecent'
      BY <1>1, <2>1, <2>2, <3>1 DEF StoredIsRecent, Running
    <3>3. GRPCPayload' /\ NoBackend'
      BY <1>1, <2>1, <3>1 DEF GRPCPayload, NoBackend
    <3>4. QED
      BY <1>4, <1>5, <1>6, <3>2, <3>3
  <2>3. CASE ~(GRPC_ENABLED /\ result[r] = "None")
    <3>1. /\ payload'.host = payload.host /\ payload'.headers = payload.headers
          /\ payload'.backend = [by |-> r, is |-> result[r]]
      BY <1>9, <2>3 DEF StoreBackend, TypeOK
    <3>2. payload'.backend # Nil /\ payload'.backend.by = r /\ payload'.backend.is = result[r]
      <4>1. result[r] \in {"json", "None"}
        BY DEF TypeOK
      <4>2. [by |-> r, is |-> result[r]] \in [by : Requests, is : {"json", "None"}]
        BY <4>1
      <4>3. [by |-> r, is |-> result[r]] # Nil
        BY <4>2, FlagsAssumption
      <4>4. QED
        BY <3>1, <4>3
    <3>3. StoredIsRecent'
      BY <1>1, <1>3, <2>1, <3>1, <3>2 DEF StoredIsRecent, Active, Running
    <3>4. GRPCPayload'
      BY <2>3, <3>1, <3>2 DEF GRPCPayload, TypeOK
    <3>5. NoBackend'
      BY <2>1 DEF NoBackend
    <3>6. QED
      BY <1>4, <1>5, <1>6, <3>3, <3>4, <3>5
  <2>4. QED
    BY <2>2, <2>3
<1>10. CASE EchoHeaders(r)
  <2>1. pc[r] = "echo" /\ pc'[r] = "reply" /\ result' = result
    BY <1>10 DEF EchoHeaders, Goto, TypeOK
  <2>2. /\ payload'.host = payload.host /\ payload'.backend = payload.backend
        /\ payload'.headers = IF ECHO_HEADERS /\ ~GRPC_ENABLED THEN r ELSE payload.headers
    BY <1>10 DEF EchoHeaders, TypeOK
  <2>3. StoredIsRecent'
    BY <1>1, <1>3, <2>1, <2>2 DEF StoredIsRecent, Active, Running
  <2>4. GRPCPayload' /\ NoBackend'
    BY <1>1, <2>1, <2>2 DEF GRPCPayload, NoBackend
  <2>5. QED
    BY <1>4, <1>5, <1>6, <2>3, <2>4
<1>11. QED
  BY <1>7, <1>8, <1>9, <1>10

LEMMA ReplyKeepsIInv ==
  ASSUME IInv, NEW r \in Requests, Reply(r), UNCHANGED <<environ, serving>>
  PROVE  IInv'
<1> USE DEF IInv
<1>1. /\ UNCHANGED <<path, payload, result, overlap>>
      /\ \A q \in Requests : q # r => pc'[q] = pc[q] /\ response'[q] = response[q]
      /\ pc[r] = "reply" /\ pc'[r] = "done" /\ pc' \in [Requests -> PCs]
      /\ Active' \subseteq Active
  BY DEF Reply, Goto, TypeOK, PCs, Running, Active
<1>2. CASE path[r] = "backend_result" /\ payload.backend # Nil
  <2>1. response'[r] = FieldResponse(r)
    BY <1>2 DEF Reply, TypeOK
  <2>2. BACKEND_ENABLED
    BY <1>2 DEF NoBackend
  <2>3. /\ FieldResponse(r).host = Nil /\ FieldResponse(r).headers = Nil
        /\ FieldResponse(r) \in Responses
        /\ FieldResponse(r).backend # Nil => FieldResponse(r).backend = payload.backend
        /\ FieldResponse(r).status = "200" => FieldResponse(r).backend = payload.backend
    BY <1>2 DEF FieldResponse, NoResponse, Responses, TypeOK
  <2>4. FieldsAreRecent' /\ FitsWhereamiReply'
    <3>1. FieldsAreRecent'
      BY <1>1, <1>2, <2>1, <2>2, <2>3
      DEF FieldsAreRecent, Whole, StoredIsRecent
    <3>2. FitsWhereamiReply'
      BY <1>1, <2>1, <2>3 DEF FitsWhereamiReply, GRPCPayload
    <3>3. QED
      BY <3>1, <3>2
  <2>5. TypeOK'
    BY <1>1, <2>1, <2>3 DEF Reply, TypeOK
  <2>6. QED
    BY <1>1, <2>4, <2>5 DEF OverlapOK, StoredIsRecent, GRPCPayload, NoBackend,
                            AnsweredAtTheEnd, Running
<1>3. CASE ~(path[r] = "backend_result" /\ payload.backend # Nil)
  <2>1. response'[r] = WholePayload
    BY <1>3 DEF Reply, TypeOK
  <2>2. /\ WholePayload.host = payload.host /\ WholePayload.headers = payload.headers
        /\ WholePayload.backend = payload.backend /\ WholePayload \in Responses
    BY DEF WholePayload, Responses, TypeOK
  <2>3. FieldsAreRecent'
    BY <1>1, <2>1, <2>2 DEF FieldsAreRecent, Whole, StoredIsRecent, Running
  <2>4. FitsWhereamiReply'
    BY <1>1, <2>1, <2>2 DEF FitsWhereamiReply, GRPCPayload
  <2>5. TypeOK'
    BY <1>1, <2>1, <2>2 DEF Reply, TypeOK
  <2>6. QED
    BY <1>1, <2>3, <2>4, <2>5 DEF OverlapOK, StoredIsRecent, GRPCPayload, NoBackend,
                                  AnsweredAtTheEnd, Running
<1>4. QED
  BY <1>2, <1>3

LEMMA StepIInv == IInv /\ [Next]_vars => IInv'
<1> SUFFICES ASSUME IInv, [Next]_vars PROVE IInv'
  OBVIOUS
<1>1. ASSUME NEW r \in Requests, Send(r), UNCHANGED <<environ, serving>> PROVE IInv'
  <2>1. /\ UNCHANGED <<environ, serving, path, payload, result, response, overlap>>
        /\ pc[r] = "idle" /\ pc' = [pc EXCEPT ![r] = "queued"] /\ Active' = Active
        /\ pc \in [Requests -> PCs]
    BY <1>1 DEF Send, Goto, IInv, TypeOK, Active, Running
  <2>2. FieldsAreRecent' /\ FitsWhereamiReply'
    BY <2>1, AnswersStay
  <2>3. TypeOK' /\ OverlapOK'
    BY <2>1 DEF IInv, TypeOK, PCs, Running, OverlapOK
  <2>4. StoredIsRecent' /\ GRPCPayload' /\ NoBackend' /\ AnsweredAtTheEnd'
    BY <2>1 DEF IInv, StoredIsRecent, GRPCPayload, NoBackend, AnsweredAtTheEnd, Running
  <2>5. QED
    BY <2>2, <2>3, <2>4 DEF IInv
<1>2. CASE UNCHANGED vars \/ (UNCHANGED environ /\ (GrpcServe \/ AppRun))
  <2>1. /\ UNCHANGED <<environ, pc, path, payload, result, response, overlap>>
        /\ serving' = serving \/ serving' = TRUE
    BY <1>2 DEF vars, GrpcServe, AppRun, Begin
  <2>2. FieldsAreRecent' /\ FitsWhereamiReply'
    BY <2>1, AnswersStay
  <2>3. QED
    BY <2>1, <2>2 DEF IInv, TypeOK, OverlapOK, Active, StoredIsRecent, GRPCPayload,
                      NoBackend, AnsweredAtTheEnd
<1>3. QED
  <2>1. ASSUME NEW r \in Requests, Send(r) \/ Serve(r), UNCHANGED <<environ, serving>>
        PROVE  IInv'
    BY <1>1, <2>1, StartKeepsIInv, BuildKeepsIInv, ReplyKeepsIInv DEF Serve
  <2>2. QED
    BY <1>2, <2>1 DEF Next

THEOREM Invariance == Spec => []IInv
<1>1. QED
  BY InitIInv, StepIInv, PTL DEF Spec

-----------------------------------------------------------------------------
\* The variables of the server keep their types.
THEOREM TypeCorrect == Spec => []TypeOK
<1>1. IInv => TypeOK
  BY DEF IInv
<1>2. QED
  BY <1>1, Invariance, PTL

\* Every field of a response was written by a request that ran at the same time.
THEOREM ResponsesAreRecent == Spec => []FieldsAreRecent
<1>1. IInv => FieldsAreRecent
  BY DEF IInv
<1>2. QED
  BY <1>1, Invariance, PTL

\* A gRPC response has only fields and values that WhereamiReply has.
THEOREM RepliesFit == Spec => []FitsWhereamiReply
<1>1. IInv => FitsWhereamiReply
  BY DEF IInv
<1>2. QED
  BY <1>1, Invariance, PTL

-----------------------------------------------------------------------------
\* The backend result in the dictionary is what a request got that has stored it.
Stored(q, is) == result[q] = is /\ pc[q] \in {"echo", "reply", "done"}

BackendIsResult ==
  payload.backend # Nil => Stored(payload.backend.by, payload.backend.is)

ErrInv == BackendIsResult /\ ErrorsAreBackendFailures

\* Only requests that have not stored their result can get another one, and only the one
\* that runs moves.
LEMMA StoredStays ==
  ASSUME IInv, NEW r \in Requests, Send(r) \/ Serve(r)
  PROVE  /\ \A q \in Requests : \A is : Stored(q, is) => Stored(q, is)'
         /\ \A q \in Requests : overlap[q] \subseteq overlap'[q] \/ pc[q] = "queued"
<1>1. pc \in [Requests -> PCs] /\ result \in [Requests -> {"json", "None"}]
      /\ overlap \in [Requests -> SUBSET Requests]
  BY DEF IInv, TypeOK
<1>2. ASSUME NEW q \in Requests, NEW is, Stored(q, is) PROVE Stored(q, is)'
  <2>1. CASE q = r
    BY <1>1, <1>2, <2>1 DEF Send, Serve, Start, SetHost, CallBackend, StoreBackend, EchoHeaders, Reply,
       Goto, Stored
  <2>2. CASE q # r
    <3>1. pc'[q] = pc[q] /\ result'[q] = result[q]
      BY <1>1, <2>2 DEF Send, Serve, Start, SetHost, CallBackend, StoreBackend, EchoHeaders, Reply, Goto
    <3>2. QED
      BY <1>2, <3>1 DEF Stored
  <2>3. QED
    BY <2>1, <2>2
<1>3. ASSUME NEW q \in Requests, pc[q] # "queued" PROVE overlap[q] \subseteq overlap'[q]
  BY <1>1, <1>3 DEF Send, Serve, Start, SetHost, CallBackend, StoreBackend, EchoHeaders, Reply
<1>4. QED
  BY <1>2, <1>3

LEMMA StepErrInv ==
  ASSUME IInv, ErrInv, NEW r \in Requests, Send(r) \/ Serve(r), UNCHANGED <<environ, serving>>
  PROVE  ErrInv'
<1> USE DEF IInv, ErrInv
<1>1. BackendIsResult'
  <2>1. CASE payload'.backend = payload.backend
    <3>1. payload.backend # Nil => payload.backend.by \in Requests
      BY DEF TypeOK, BackendResults
    <3>2. QED
      BY <2>1, <3>1, StoredStays DEF BackendIsResult, Stored
  <2>2. CASE payload'.backend # payload.backend
    <3>1. StoreBackend(r) /\ payload' = [payload EXCEPT !.backend = [by |-> r, is |-> result[r]]]
      BY <2>2 DEF Send, Serve, Start, SetHost, CallBackend, StoreBackend, EchoHeaders, Reply, TypeOK
    <3>2. payload'.backend.by = r /\ payload'.backend.is = result[r]
      BY <3>1 DEF TypeOK
    <3>3. result'[r] = result[r] /\ pc'[r] = "echo"
      BY <3>1 DEF StoreBackend, Goto, TypeOK
    <3>4. QED
      BY <3>2, <3>3 DEF BackendIsResult, Stored
  <2>3. QED
    BY <2>1, <2>2
<1>2. ErrorsAreBackendFailures'
  <2> SUFFICES ASSUME NEW p \in Requests, response'[p].status = "500"
               PROVE  path'[p] = "backend_result" /\ \E q \in overlap'[p] : Stored(q, "None")'
    BY DEF ErrorsAreBackendFailures, Stored
  <2>1. path' = path
    BY DEF Send, Serve, Start, SetHost, CallBackend, StoreBackend, EchoHeaders, Reply
  <2>2. CASE response'[p] = response[p]
    <3>1. path[p] = "backend_result" /\ \E q \in overlap[p] : Stored(q, "None")
      BY <2>2 DEF ErrorsAreBackendFailures, Stored
    <3>2. pc[p] # "queued"
      BY <2>2 DEF AnsweredAtTheEnd, NoResponse
    <3>3. overlap[p] \subseteq Requests
      BY DEF TypeOK
    <3>4. QED
      BY <2>1, <3>1, <3>2, <3>3, StoredStays
  <2>3. CASE response'[p] # response[p]
    <3>1. p = r /\ Reply(r)
      BY <2>3 DEF Send, Serve, Start, SetHost, CallBackend, StoreBackend, EchoHeaders, Reply, TypeOK
    <3>2. WholePayload.status = "200"
      BY DEF WholePayload
    <3>3. path[r] = "backend_result" /\ payload.backend # Nil /\ payload.backend.is = "None"
      BY <3>1, <3>2 DEF Reply, FieldResponse, NoResponse, TypeOK
    <3>4. BACKEND_ENABLED /\ ~GRPC_ENABLED
      BY <3>3 DEF NoBackend, GRPCPayload
    <3>5. payload.backend.by \in overlap[r] /\ overlap'[r] = overlap[r]
      BY <3>1, <3>4 DEF StoredIsRecent, Reply
    <3>6. payload.backend.by \in Requests
      BY <3>3 DEF TypeOK, BackendResults
    <3>7. Stored(payload.backend.by, "None")
      BY <3>3 DEF BackendIsResult
    <3>8. QED
      BY <2>1, <3>1, <3>3, <3>5, <3>6, <3>7, StoredStays
  <2>4. QED
    BY <2>2, <2>3
<1>3. QED
  BY <1>1, <1>2

\* Status 500 is given only for the field backend_result, and only when the backend failed
\* for a request that ran at the same time: a None of an earlier one is always replaced.
THEOREM ErrorsHaveCauses == Spec => []ErrorsAreBackendFailures
<1>1. Init => ErrInv
  <2> SUFFICES ASSUME Init PROVE ErrInv
    OBVIOUS
  <2>1. payload.backend = Nil
    BY DEF Init
  <2>2. \A r \in Requests : response[r].status = "none"
    BY DEF Init, NoResponse
  <2>3. QED
    BY <2>1, <2>2 DEF ErrInv, BackendIsResult, ErrorsAreBackendFailures
<1>2. ASSUME IInv, ErrInv, [Next]_vars PROVE ErrInv'
  <2>1. CASE UNCHANGED vars \/ GrpcServe \/ AppRun
    BY <1>2, <2>1 DEF vars, GrpcServe, AppRun, Begin, ErrInv, BackendIsResult, Stored, ErrorsAreBackendFailures
  <2>2. QED
    BY <1>2, <2>1, StepErrInv DEF Next
<1>3. ErrInv => ErrorsAreBackendFailures
  BY DEF ErrInv
<1>4. QED
  BY <1>1, <1>2, <1>3, Invariance, PTL DEF Spec
=============================================================================
