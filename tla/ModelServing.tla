---------------------------- MODULE ModelServing ----------------------------
(***************************************************************************)
(* The model servers of ai-ml.  A cluster runs one of them: an image       *)
(* server (ImageServing) or a text server (LLMServing); the one that is    *)
(* not running takes no step.                                              *)
(***************************************************************************)
EXTENDS ImageServing, LLMServing

VARIABLE family   \* which of the two is deployed

servingVars == <<family, vars, llmVars>>

\* The family that does not run stays in one of its initial states.
ServingInit ==
  /\ Init /\ LLMInit
  /\ \/ family = "images" /\ program = "vllm"
     \/ family = "text" /\ app = "gpu"

ServingNext ==
  \/ family = "images" /\ Next /\ UNCHANGED <<family, llmVars>>
  \/ family = "text" /\ LLMNext /\ UNCHANGED <<family, vars>>

\* The fairness of the family that runs.
ImageFairness ==
  /\ WF_vars(family = "images" /\ Setup)
  /\ WF_vars(family = "images" /\ Model)
  /\ WF_vars(family = "images" /\ \E r \in Requests : Server(r))

TextFairness ==
  /\ WF_llmVars(family = "text" /\ Construct)
  /\ \A r \in Callers : /\ WF_llmVars(family = "text" /\ Handler(r))
                       /\ WF_llmVars(family = "text" /\ Engine(r))

ServingSpec == ServingInit /\ [][ServingNext]_servingVars /\ ImageFairness /\ TextFairness

------------------------------------------------------------------------------
\* A request that fails was hit by a failure of a model or server, or was wrong, or asked for
\* the stream that the routers of the text servers cannot return: it is never the size of a batch,
\* nor that other first requests are making the chat server.  A wrong request to a text server is
\* not answered as if it was right.
FailuresHaveCauses == OnlyFaultsFail /\ FailedCallsHaveCauses

\* Everyone is answered, also whose batch stays small or whose chat server is replaced.
AllAreAnswered == EveryoneIsAnswered /\ EveryCallEnds
=============================================================================
