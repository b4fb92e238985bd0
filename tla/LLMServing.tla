----------------------------- MODULE LLMServing -----------------------------
(***************************************************************************)
(* The text models of ai-ml/gke-ray/rayserve/llm, each a Ray Serve         *)
(* application whose deployments own a vLLM engine:                        *)
(*                                                                         *)
(*   "vllm": serve.py, which streams the text or returns it whole;         *)
(*   "openai": serve_chat_completion.py, which leaves the answer to vLLM's *)
(*      chat server and makes that one when the first request comes;       *)
(*   "multi": model-multiplexing/serve.py, with an engine for each model;  *)
(*   "chain": model-composition/serve.py, where a second model summarizes  *)
(*      the text of the first.                                             *)
(*                                                                         *)
(* An engine works on any number of requests at once and hands out all of  *)
(* the text again with each new token; a text is known by its length.      *)
(***************************************************************************)
EXTENDS Integers, Sequences

CONSTANTS
  Callers,  \* the requests that may be sent
  Models,   \* the models of "multi": MODEL_1_ID and MODEL_2_ID
  Tokens    \* bound: the longest text

Deployments == Models \cup {"llm", "assistant", "summarizer"}

\* What a request names: nothing, a model that is not served, or one that is.
ModelIds == Models \cup {"", "unknown", "llm"}

ASSUME LLMAssumption ==
  /\ Models \cap {"llm", "assistant", "summarizer", "", "unknown"} = {}
  /\ Tokens \in Nat \ {0}

VARIABLES
  program,     \* the application
  loaded,      \* the deployments whose engine has been constructed
  ask,         \* ask[r]: the stream flag, the model id and the flaw of request r
  at,          \* at[r]: where the handler of r is, or how it has ended
  chat,        \* self.openai_serving_chat: the request that made it, if any
  generator,   \* generator[r]: the deployment whose results_generator the handler reads
  engine,      \* the <<deployment, request>> that the engines work on
  produced,    \* produced[m][r]: the tokens that the engine of m has made for r
  outputs,     \* outputs[m][r]: the outputs that the generator has not yielded
  final,       \* final[m][r]: final_output, 0 for None
  numReturned, \* num_returned[r]: num_returned of stream_results
  received,    \* received[r]: the tokens streamed to the client
  gone,        \* the clients that have disconnected
  broken       \* history: the requests that were hit by a failure

serverVars == <<at, chat, generator>>
engineVars == <<engine, produced, outputs>>
textVars == <<final, numReturned, received>>
llmVars == <<program, loaded, ask, serverVars, engineVars, textVars, gone, broken>>

Programs == {"vllm", "openai", "multi", "chain"}

Endings == {"ok", "closed", "400", "422", "499", "500"}

\* What may be wrong with a request besides the model id: the body is no JSON; the prompt is
\* missing or SamplingParams refuses a parameter; SamplingParams refuses max_tokens.
Flaws == {"json", "fields", "max_tokens"}

Over(r) == at[r] \in Endings

Zero == [m \in Deployments |-> [r \in Callers |-> 0]]

LLMTypeOK ==
  /\ program \in Programs /\ loaded \subseteq Deployments
  /\ ask \in [Callers -> [stream : BOOLEAN, model : ModelIds, flaw : Flaws \cup {"none"}]]
  /\ at \in [Callers -> {"new", "sent", "config", "engine", "closing"} \cup Endings]
  /\ chat \in Callers \cup {"None"}
  /\ generator \in [Callers -> Deployments \cup {"None"}]
  /\ engine \subseteq Deployments \X Callers
  /\ produced \in [Deployments -> [Callers -> 0..Tokens]]
  /\ outputs \in [Deployments -> [Callers -> Seq(1..Tokens)]]
  /\ final \in [Deployments -> [Callers -> 0..Tokens]]
  /\ numReturned \in [Callers -> 0..Tokens]
  /\ received \in [Callers -> Seq(1..Tokens)]
  /\ gone \subseteq Callers /\ broken \subseteq Callers

LLMInit ==
  /\ program \in Programs /\ loaded = {}
  /\ ask = [r \in Callers |-> [stream |-> FALSE, model |-> "", flaw |-> "none"]]
  /\ at = [r \in Callers |-> "new"]
  /\ chat = "None" /\ generator = [r \in Callers |-> "None"]
  /\ engine = {}
  /\ produced = Zero /\ final = Zero
  /\ outputs = [m \in Deployments |-> [r \in Callers |-> <<>>]]
  /\ numReturned = [r \in Callers |-> 0]
  /\ received = [r \in Callers |-> <<>>]
  /\ gone = {} /\ broken = {}

------------------------------------------------------------------------------
Advance(r, place) == at' = [at EXCEPT ![r] = place]

\* AsyncLLMEngine.from_engine_args returns when the weights of m are loaded.
Loads(m) ==
  /\ m \notin loaded /\ loaded' = loaded \cup {m}
  /\ UNCHANGED <<program, ask, serverVars, engineVars, textVars, gone, broken>>

\* VLLMDeployment.__init__ of serve.py.
VllmSetup == program = "vllm" /\ Loads("llm")

\* The same of serve_chat_completion.py, which leaves the chat server to the first request.
ChatSetup == program = "openai" /\ Loads("llm")

\* One deployment for each model, each in a replica and at a pace of its own.
MultiSetup == program = "multi" /\ \E m \in Models : Loads(m)

\* VLLMDeployment and VLLMSummarizerDeployment; the assistant may answer before the
\* summarizer is there.
ChainSetup == program = "chain" /\ \E m \in {"assistant", "summarizer"} : Loads(m)

\* Only "openai" and "multi" look at the model that a request asks for.
Named == CASE program = "openai" -> {"llm", "unknown"}
           [] program = "multi"  -> Models \cup {"", "unknown"}
           [] OTHER              -> {""}

\* The flaws that each application tells apart: "vllm" and "openai" do all with the body
\* in one place, and only "chain" looks at max_tokens later than at the rest.
Flawed == CASE program = "multi" -> {"json", "fields"}
            [] program = "chain" -> Flaws
            [] OTHER             -> {"fields"}

\* A client sends a request.
Ask(r) ==
  /\ at[r] = "new" /\ Advance(r, "sent")
  /\ \E s \in BOOLEAN, m \in Named, f \in Flawed \cup {"none"} :
       ask' = [ask EXCEPT ![r] = [stream |-> s, model |-> m, flaw |-> f]]
  /\ UNCHANGED <<program, loaded, chat, generator, engineVars, textVars, gone, broken>>

\* The client closes the connection.  Only serve.py takes notice.
Disconnect(r) ==
  /\ program = "vllm" /\ at[r] \in {"sent", "engine"}
  /\ gone' = gone \cup {r}
  /\ UNCHANGED <<program, loaded, ask, serverVars, engineVars, textVars, broken>>

\* self.engine.generate, and the first step of the generator it returns.  Until the
\* replica of m is constructed, the handle that sends it the request waits.
Enter(m, r) ==
  /\ m \in loaded
  /\ Advance(r, "engine")
  /\ generator' = [generator EXCEPT ![r] = m]
  /\ engine' = engine \cup {<<m, r>>}

\* The handler goes on, or ends, without an engine.
Answer(r, place) == Advance(r, place) /\ UNCHANGED <<generator, engine>>

unchangedByCall == <<program, loaded, ask, produced, outputs, textVars, gone>>

\* __call__ of serve.py.  request.json(), pop("prompt") and SamplingParams raise before
\* there is a generator, and an exception of a replica is answered with 500.
VllmCall(r) ==
  /\ program = "vllm" /\ at[r] = "sent" /\ "llm" \in loaded
  /\ IF ask[r].flaw = "none" THEN Enter("llm", r) ELSE Answer(r, "500")
  /\ UNCHANGED <<unchangedByCall, chat, broken>>

\* create_chat_completion of vLLM answers a model that is not served with an
\* ErrorResponse.
ChatCompletion(r) == IF ask[r].model = "llm" THEN Enter("llm", r) ELSE Answer(r, "400")

\* Mistake: the test is for the beginning of the making, not for its end.
ChatCall_begun(r) ==
  /\ program = "openai" /\ at[r] = "sent" /\ "llm" \in loaded
  /\ IF ask[r].flaw # "none" THEN Answer(r, "422")
     ELSE IF chat # "None" THEN ChatCompletion(r)
     ELSE IF \E q \in Callers : at[q] = "config" THEN Answer(r, "500")
     ELSE Answer(r, "config")
  /\ UNCHANGED <<unchangedByCall, chat, broken>>

\* FastAPI refuses what is no ChatCompletionRequest.  Without a chat server, the
\* configuration is awaited first; other requests come in meanwhile, and find none either.
ChatCall(r) ==
  /\ program = "openai" /\ at[r] = "sent" /\ "llm" \in loaded
  /\ IF ask[r].flaw # "none" THEN Answer(r, "422")
     ELSE IF chat = "None" THEN Answer(r, "config") ELSE ChatCompletion(r)
  /\ UNCHANGED <<unchangedByCall, chat, broken>>

\* Mistake: a request that has been overtaken drops its server and keeps waiting.
ChatServer_first(r) ==
  /\ at[r] = "config" /\ chat = "None"
  /\ chat' = r /\ ChatCompletion(r)
  /\ UNCHANGED <<unchangedByCall, broken>>

\* get_model_config has answered: a chat server is made, perhaps in place of another
\* one that was made during the await, and used at once.
ChatServer(r) ==
  /\ at[r] = "config"
  /\ chat' = r /\ ChatCompletion(r)
  /\ UNCHANGED <<unchangedByCall, broken>>

\* It has failed: the next request tries again.
ChatServerFails(r) ==
  /\ at[r] = "config"
  /\ Answer(r, "500")
  /\ broken' = broken \cup {r}
  /\ UNCHANGED <<unchangedByCall, chat>>

\* The call of another deployment: a flaw that it sees is an exception, which the handle
\* raises again in the router.  A StreamingResponse, which __call__ returns for a stream,
\* cannot be the result of such a call, as its generator cannot be pickled.
Remote(m, r) ==
  /\ m \in loaded
  /\ IF ask[r].flaw = "fields" \/ ask[r].stream THEN Answer(r, "500") ELSE Enter(m, r)

\* `await request.json()` of a router, before it calls anyone.
NoJson(r) == ask[r].flaw = "json" /\ Answer(r, "500")

\* The model id decides who is called.
Route(r) ==
  \/ ask[r].model \in Models /\ Remote(ask[r].model, r)
  \/ ask[r].model = "" /\ \E m \in Models : Remote(m, r)   \* random.choice
  \/ ask[r].model = "unknown" /\ Answer(r, "400")

\* MultiModelDeployment of model-multiplexing.
MultiCall(r) ==
  /\ program = "multi" /\ at[r] = "sent"
  /\ \/ NoJson(r)
     \/ ask[r].flaw # "json" /\ Route(r)
  /\ UNCHANGED <<unchangedByCall, chat, broken>>

\* MultiModelDeployment of model-composition: the assistant first.
ChainCall(r) ==
  /\ program = "chain" /\ at[r] = "sent"
  /\ \/ NoJson(r)
     \/ ask[r].flaw # "json" /\ Remote("assistant", r)
  /\ UNCHANGED <<unchangedByCall, chat, broken>>

------------------------------------------------------------------------------
unchangedByEngine == <<program, loaded, ask, serverVars, textVars, gone, broken>>

\* vLLM: a token more, with all of the text in the output ...
Produce(m, r) ==
  /\ <<m, r>> \in engine /\ produced[m][r] < Tokens
  /\ produced' = [produced EXCEPT ![m][r] = @ + 1]
  /\ outputs' = [outputs EXCEPT ![m][r] = Append(@, produced[m][r] + 1)]
  /\ UNCHANGED <<engine, unchangedByEngine>>

\* ... or the end of the text.
Finish(m, r) ==
  /\ <<m, r>> \in engine /\ produced[m][r] > 0
  /\ engine' = engine \ {<<m, r>>}
  /\ UNCHANGED <<produced, outputs, unchangedByEngine>>

\* The engine fails, and the exception ends the handler.
EngineFails(r) ==
  /\ at[r] = "engine"
  /\ Advance(r, "500")
  /\ engine' = engine \ (Deployments \X {r})
  /\ broken' = broken \cup {r}
  /\ UNCHANGED <<program, loaded, ask, chat, generator, produced, outputs, textVars, gone>>

Streams(r) == program = "vllm" /\ ask[r].stream

\* The generator has yielded all.
Exhausted(m, r) == <<m, r>> \notin engine /\ outputs[m][r] = <<>>

Yield(m, r) == outputs[m][r] # <<>> /\ outputs' = [outputs EXCEPT ![m][r] = Tail(@)]

\* Mistake: num_returned is set to the length of the piece instead of moved by it.
StreamResults_set(r) ==
  /\ Streams(r) /\ at[r] = "engine" /\ r \notin gone
  /\ Yield("llm", r)
  /\ LET n == Head(outputs["llm"][r]) - numReturned[r] IN
       /\ received' = [received EXCEPT ![r] = @ \o [i \in 1..n |-> numReturned[r] + i]]
       /\ numReturned' = [numReturned EXCEPT ![r] = n]
  /\ UNCHANGED <<program, loaded, ask, serverVars, engine, produced, final, gone, broken>>

\* stream_results sends what is new in the output.
StreamResults(r) ==
  /\ Streams(r) /\ at[r] = "engine" /\ r \notin gone
  /\ Yield("llm", r)
  /\ LET n == Head(outputs["llm"][r]) - numReturned[r] IN
       /\ received' = [received EXCEPT ![r] = @ \o [i \in 1..n |-> numReturned[r] + i]]
       /\ numReturned' = [numReturned EXCEPT ![r] = @ + n]
  /\ UNCHANGED <<program, loaded, ask, serverVars, engine, produced, final, gone, broken>>

\* The stream is over, or is cancelled because the client has gone.
StreamEnds(r) ==
  /\ Streams(r) /\ at[r] = "engine"
  /\ Exhausted("llm", r) \/ r \in gone
  /\ Advance(r, "closing")
  /\ UNCHANGED <<program, loaded, ask, chat, generator, engineVars, textVars, gone, broken>>

\* may_abort_request, the background task of the response, which runs in both cases.
MayAbortRequest(r) ==
  /\ at[r] = "closing"
  /\ Advance(r, "closed")
  /\ engine' = engine \ {<<"llm", r>>}
  /\ UNCHANGED <<program, loaded, ask, chat, generator, produced, outputs, textVars, gone, broken>>

\* Mistake: the request is not aborted.
Leave_running(m, r) == Advance(r, "499") /\ UNCHANGED engine

\* `if await request.is_disconnected()`, in the loop of serve.py.
Leave(m, r) == Advance(r, "499") /\ engine' = engine \ {<<m, r>>}

\* final_output = request_output
ReadOutput(m, r) ==
  /\ at[r] = "engine" /\ generator[r] = m /\ ~Streams(r)
  /\ Yield(m, r)
  /\ IF r \in gone THEN Leave(m, r) /\ UNCHANGED final
     ELSE final' = [final EXCEPT ![m][r] = Head(outputs[m][r])] /\ UNCHANGED <<at, engine>>
  /\ UNCHANGED <<program, loaded, ask, chat, generator, produced, numReturned, received, gone,
                 broken>>

\* The loop over the generator has ended.
LoopEnds(m, r) == final[m][r] > 0 /\ Exhausted(m, r)

\* The text is the prompt of the summarizer.  The assistant has only passed max_tokens on:
\* it is the summarizer that gives it to SamplingParams.
Summarize(r) ==
  /\ "summarizer" \in loaded
  /\ IF ask[r].flaw = "max_tokens" THEN Answer(r, "500") ELSE Enter("summarizer", r)

\* The text is the answer, but for that of the assistant.
Reply(m, r) ==
  /\ at[r] = "engine" /\ generator[r] = m /\ ~Streams(r)
  /\ LoopEnds(m, r)
  /\ IF m = "assistant" THEN Summarize(r) ELSE Answer(r, "ok")
  /\ UNCHANGED <<unchangedByCall, chat, broken>>

------------------------------------------------------------------------------
Handler(r) ==
  \/ VllmCall(r) \/ ChatCall(r) \/ ChatServer(r) \/ MultiCall(r) \/ ChainCall(r)
  \/ StreamResults(r) \/ StreamEnds(r) \/ MayAbortRequest(r)
  \/ \E m \in Deployments : ReadOutput(m, r) \/ Reply(m, r)

Engine(r) == \E m \in Deployments : Produce(m, r) \/ Finish(m, r)

Construct == VllmSetup \/ ChatSetup \/ MultiSetup \/ ChainSetup

Failure(r) == ChatServerFails(r) \/ EngineFails(r)

LLMNext ==
  \/ Construct
  \/ \E r \in Callers : Ask(r) \/ Disconnect(r) \/ Handler(r) \/ Engine(r) \/ Failure(r)

\* Each replica is started until its engine is there; each handler is a task of the event
\* loop, and an engine works on all its requests.
LLMFairness ==
  /\ WF_llmVars(Construct)
  /\ \A r \in Callers : WF_llmVars(Handler(r)) /\ WF_llmVars(Engine(r))

LLMSpec == LLMInit /\ [][LLMNext]_llmVars /\ LLMFairness

------------------------------------------------------------------------------
\* A stream has no gap and no repetition, though each output of the engine holds all of
\* the text; unless the client has gone, all of it has come when the stream closes.
StreamIsTheText ==
  \A r \in Callers :
    /\ \A i \in 1..Len(received[r]) : received[r][i] = i
    /\ at[r] = "closed" /\ r \notin gone => Len(received[r]) = produced["llm"][r]

\* An answer is the whole text of the model that was asked for; a summary is made of the
\* whole text of the assistant.
AnswerIsTheText ==
  \A r \in Callers :
    /\ at[r] = "ok" =>
         \E m \in Deployments :
           /\ final[m][r] > 0 /\ final[m][r] = produced[m][r] /\ <<m, r>> \notin engine
           /\ program = "multi" => ask[r].model \in {"", m}
           /\ program = "chain" => m = "summarizer"
    /\ (<<"summarizer", r>> \in engine) =>
         final["assistant"][r] = produced["assistant"][r] /\ <<"assistant", r>> \notin engine

\* Streamed or not, a client that stays gets the text of its model, all of it, once.
TextsAreWhole == StreamIsTheText /\ AnswerIsTheText

\* No engine works for a request that is over, also when its client has left early.
NothingRunsForNobody == \A r \in Callers : Over(r) => \A m \in Deployments : <<m, r>> \notin engine

\* A request without any flaw that cannot succeed all the same: the docstrings of
\* model-multiplexing/serve.py:91 and model-composition/serve.py:91 offer the field
\* "stream", and lines 101-109 obey it, but what they return does not reach the router.
StreamBehindRouter(r) == program \in {"multi", "chain"} /\ ask[r].stream

\* A request ends with 500 for one of three reasons: an engine failed while it worked for
\* this request, or the making of its chat server did; the request has a flaw; or it asks
\* for a stream behind a router, which is the code's doing and not the client's.  It is
\* never what other requests do, however many of them are the first.  Conversely, a request
\* with a flaw is never answered as if it had none, not even if the flaw is seen by the second
\* of two models only.
FailedCallsHaveCauses ==
  \A r \in Callers :
    /\ at[r] = "500" => r \in broken \/ ask[r].flaw # "none" \/ StreamBehindRouter(r)
    /\ at[r] \in {"ok", "closed"} => ask[r].flaw = "none" /\ ~StreamBehindRouter(r)

\* Every request is over in the end.
EveryCallEnds == \A r \in Callers : (at[r] = "sent") ~> Over(r)
=============================================================================
