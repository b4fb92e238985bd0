------------------------------ MODULE RagChat ------------------------------
(***************************************************************************)
(* A session of the chatbots databases/*/docker/chatbot/chat.py, beside    *)
(* the embedding service that fills the collection they search.            *)
(*                                                                         *)
(* Streamlit runs chat.py from its first line for the page and again for   *)
(* each input.  An input that arrives while the script runs stops it at    *)
(* the next call of the library, wherever that is, and the script begins   *)
(* again with the new input; an exception ends it.  What was done by then  *)
(* remains in the session.  Another session shares only the collection.    *)
(***************************************************************************)
EXTENDS EmbedDocs, Sequences, FiniteSetsExt

CONSTANTS
  TopK,         \* how many pieces similarity_search returns (4)
  Window,       \* how many exchanges ConversationBufferWindowMemory returns (k=3)
  MaxQuestions  \* bound: the inputs of the session, which are 1..MaxQuestions

ASSUME ChatAssumption == TopK \in Nat \ {0} /\ Window \in Nat /\ MaxQuestions \in Nat

VARIABLES
  script,    \* the stage that the script has reached
  question,  \* chat_input of the newest run
  messages,  \* st.session_state.messages: what the page shows
  memory,    \* st.session_state.memory: the exchanges saved, by their question
  context,   \* the <<version, piece>> in the newest prompt
  history,   \* the exchanges in the newest prompt
  cut        \* history: the questions whose run was stopped or failed

chatVars == <<script, question, messages, memory, context, history, cut>>

ragVars == <<docVars, chatVars>>

Human(q) == [role |-> "human", about |-> q]
Ai(q)    == [role |-> "ai", about |-> q]     \* Ai(0) is "How can I help you?"

ChatInit ==
  /\ script = "closed" /\ question = 0
  /\ messages = <<>> /\ memory = <<>>
  /\ context = {} /\ history = <<>>
  /\ cut = {}

------------------------------------------------------------------------------
\* Mistake: the constructor makes the collection anew (pre_delete_collection).
Connect_anew(makes) ==
  /\ collection' = (collection \/ makes)
  /\ vectors' = IF makes THEN {} ELSE vectors
  /\ UNCHANGED <<unchangedOutside, jobVars, done>>

\* The first lines of the script connect to the database; `makes` says whether the
\* constructor makes the collection if it is missing.
Connect(makes) ==
  /\ collection' = (collection \/ makes)
  /\ UNCHANGED <<unchangedOutside, jobVars, vectors, done>>

\* The first run of the script gives the session its messages and its memory.
Open(makes) ==
  /\ script = "closed"
  /\ Connect(makes)
  /\ script' = "idle"
  /\ messages' = <<Ai(0)>>
  /\ UNCHANGED <<question, memory, context, history, cut>>

Running == script \in {"typed", "searched", "shown"}

\* Mistake: a run that has begun goes on, and reads the new input.
Submit_noStop(makes) ==
  /\ script = "idle" \/ Running
  /\ question < MaxQuestions
  /\ Connect(makes)
  /\ question' = question + 1
  /\ script' = IF script = "idle" THEN "typed" ELSE script
  /\ cut' = IF Running THEN cut \cup {question} ELSE cut
  /\ UNCHANGED <<messages, memory, context, history>>

\* An input begins a run and stops the one that is under way.  Between "asked" and
\* "searched" the script does not call Streamlit, so that it cannot be stopped there.
Submit(makes) ==
  /\ script = "idle" \/ Running
  /\ question < MaxQuestions
  /\ Connect(makes)
  /\ question' = question + 1
  /\ script' = "typed"
  /\ cut' = IF Running THEN cut \cup {question} ELSE cut
  /\ UNCHANGED <<messages, memory, context, history>>

\* st.session_state.messages.append({"role": "human", ...})
AppendHuman ==
  /\ script = "typed"
  /\ messages' = Append(messages, Human(question))
  /\ script' = "asked"
  /\ UNCHANGED <<docVars, question, memory, context, history, cut>>

\* memory.load_memory_variables: the last `Window` exchanges.
LoadMemory == SubSeq(memory, Max({1, Len(memory) - Window + 1}), Len(memory))

\* The results of similarity_search: any TopK vectors, or all if there are fewer.
Found == {{<<v.content, v.piece>> : v \in S} : S \in kSubset(Min({TopK, Cardinality(vectors)}), vectors)}

\* The run ends before its last line.
Ends == /\ script' = "idle"
        /\ cut' = cut \cup {question}
        /\ UNCHANGED <<docVars, question, messages, memory, context, history>>

\* Mistake: the question is remembered before it has an answer.
Search_remembers ==
  /\ script = "asked"
  /\ IF collection
       THEN /\ context' \in Found
            /\ history' = LoadMemory
            /\ memory' = Append(memory, question)
            /\ script' = "searched"
            /\ UNCHANGED <<docVars, question, messages, cut>>
       ELSE Ends

\* similarity_search, then the prompt.  A collection that is missing is an exception.
Search ==
  /\ script = "asked"
  /\ IF collection
       THEN /\ context' \in Found
            /\ history' = LoadMemory
            /\ script' = "searched"
            /\ UNCHANGED <<docVars, question, messages, memory, cut>>
       ELSE Ends

\* Mistake: the run ends here.
AnswerShown_ends ==
  /\ script = "searched"
  /\ messages' = Append(messages, Ai(question))
  /\ script' = "idle"
  /\ UNCHANGED <<docVars, question, memory, context, history, cut>>

\* The model has streamed its answer, which the page keeps.
AnswerShown ==
  /\ script = "searched"
  /\ messages' = Append(messages, Ai(question))
  /\ script' = "shown"
  /\ UNCHANGED <<docVars, question, memory, context, history, cut>>

\* memory.save_context, the last line.
SaveContext ==
  /\ script = "shown"
  /\ memory' = Append(memory, question)
  /\ script' = "idle"
  /\ UNCHANGED <<docVars, question, messages, context, history, cut>>

\* The database or Vertex AI fails, or the page is run again without an input.
Stops == (script = "asked" \/ Running) /\ Ends

Run == AppendHuman \/ Search \/ AnswerShown \/ SaveContext

\* The programs.  Qdrant(client, ...) and ElasticsearchStore(...) do not look whether
\* the collection exists; PGVector(...) and WeaviateVectorStore(...) make it.
QdrantChat   == store = "qdrant" /\ (Open(FALSE) \/ Submit(FALSE) \/ Run \/ Stops)
PgvectorChat == store = "pgvector" /\ (Open(TRUE) \/ Submit(TRUE) \/ Run \/ Stops)
WeaviateChat == store = "weaviate" /\ (Open(TRUE) \/ Submit(TRUE) \/ Run \/ Stops)
ElasticChat  == store = "elasticsearch" /\ (Open(FALSE) \/ Submit(FALSE) \/ Run \/ Stops)

Chat == QdrantChat \/ PgvectorChat \/ WeaviateChat \/ ElasticChat

RagInit == Init /\ ChatInit

RagNext == (Next /\ UNCHANGED chatVars) \/ Chat

RagSpec == RagInit /\ [][RagNext]_ragVars

------------------------------------------------------------------------------
\* On the page an answer stands right below the question it answers, also after runs
\* that were stopped or failed and left their question without one.
AnswerFollowsQuestion ==
  \A i \in 2..Len(messages) :
    messages[i].role = "ai" => messages[i - 1] = Human(messages[i].about)

Answered == {m.about : m \in {messages[i] : i \in 2..Len(messages)} \cap [role : {"ai"}, about : Nat]}

Saved == {memory[i] : i \in 1..Len(memory)}

\* Only a new input or an exception can lose a question: every other one is answered
\* on the page and remembered, once the run has ended.
OnlyCutQuestionsAreLost ==
  \A q \in 1..question : q \in cut \/ q \in Answered \cap Saved \/ (q = question /\ script # "idle")

\* The page and the model agree: what the model remembers is on the page, in the same
\* order, and a remembered exchange that the prompt leaves out is older than all of
\* those in it.
MemoryIsFaithful ==
  LET InPrompt == {history[i] : i \in 1..Len(history)} IN
  /\ Saved \subseteq Answered
  /\ \A i, j \in 1..Len(memory) : i < j => memory[i] < memory[j]
  /\ script = "searched" =>
       /\ InPrompt \subseteq Saved /\ Len(history) <= Window
       /\ \A q \in Saved \ InPrompt : Len(history) = Window /\ \A p \in InPrompt : q < p

\* Once a document has been reported as "successfully embedded", a search neither fails
\* for want of the collection nor comes back with nothing.
EmbeddedIsFound ==
  [][(Search /\ done # {}) => (script' = "searched" /\ context' # {})]_ragVars

=============================================================================
