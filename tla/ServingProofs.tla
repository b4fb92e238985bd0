---------------------------- MODULE ServingProofs ----------------------------
(***************************************************************************)
(* Proofs about the model servers, for any number of requests, models,     *)
(* tokens, devices and any size of a batch.                                *)
(***************************************************************************)
EXTENDS ModelServing, SequenceTheorems, TLAPS

------------------------------------------------------------------------------
(* The text servers: what is true of one request at a time. *)

\* s ends with p and goes up by one.
Follows(s, p) == Len(s) <= p /\ \A i \in 1..Len(s) : s[i] = p - Len(s) + i

\* s counts from 1 to n.
Counts(s, n) == Len(s) = n /\ \A i \in 1..Len(s) : s[i] = i

\* The outputs that have not been read are the newest ones, each one token longer.
OutputsFollow(r) == \A m \in Deployments : Follows(outputs[m][r], produced[m][r])

\* Only the engine whose generator the handler reads works for it, and not after it.
WorksForOne(r) ==
  \A m \in Deployments :
    <<m, r>> \in engine => at[r] \in {"engine", "closing"} /\ generator[r] = m

NothingYet(r) ==
  at[r] \in {"new", "sent", "config"} =>
    /\ at[r] = "config" => program = "openai"
    /\ generator[r] = "None" /\ numReturned[r] = 0
    /\ \A m \in Deployments : produced[m][r] = 0 /\ final[m][r] = 0

\* What has been read is what has been produced but for the outputs that wait.
ReadsOutputs(r) ==
  ~Streams(r) /\ at[r] # "499" =>
    \A m \in Deployments : final[m][r] + Len(outputs[m][r]) = produced[m][r]

StreamsOutputs(r) ==
  /\ Counts(received[r], numReturned[r])
  /\ Streams(r) => numReturned[r] + Len(outputs["llm"][r]) = produced["llm"][r]

ClosesAtTheEnd(r) ==
  at[r] \in {"closing", "closed"} => Streams(r) /\ (r \notin gone => Exhausted("llm", r))

\* Nothing that the request says is against the model m.
AsksFor(r, m) == ask[r].model \in {"", m}

RightModel(r) ==
  at[r] \in {"engine", "closing", "ok"} =>
    /\ generator[r] \in Deployments
    /\ program \in {"vllm", "openai"} => generator[r] = "llm"
    /\ program = "multi" => generator[r] \in Models /\ AsksFor(r, generator[r])
    /\ program = "chain" => generator[r] \in {"assistant", "summarizer"}

SummaryOfAll(r) ==
  generator[r] = "summarizer" => final["assistant"][r] = produced["assistant"][r]

AnsweredWhole(r) ==
  at[r] = "ok" =>
    /\ final[generator[r]][r] > 0 /\ final[generator[r]][r] = produced[generator[r]][r]
    /\ generator[r] # "assistant"

\* Only a request that nothing is wrong with gets as far as the end of an answer; the
\* assistant also works for one whose max_tokens the summarizer will refuse.
FailedForACause(r) ==
  /\ at[r] = "500" => r \in broken \/ ask[r].flaw # "none" \/ StreamBehindRouter(r)
  /\ at[r] \in {"engine", "closing", "closed", "ok"} =>
       /\ ~StreamBehindRouter(r)
       /\ ask[r].flaw # "none" =>
            /\ program = "chain" /\ ask[r].flaw = "max_tokens"
            /\ at[r] = "engine" /\ generator[r] = "assistant"
  /\ at[r] = "config" => ask[r].flaw = "none"
  /\ ask[r].flaw \in Flawed \cup {"none"}

CallOK(r) ==
  /\ OutputsFollow(r) /\ WorksForOne(r) /\ NothingYet(r) /\ ReadsOutputs(r)
  /\ StreamsOutputs(r) /\ ClosesAtTheEnd(r) /\ RightModel(r) /\ SummaryOfAll(r)
  /\ AnsweredWhole(r) /\ FailedForACause(r)

TextInv == LLMTypeOK /\ \A r \in Callers : CallOK(r)

\* "llm", "assistant" and "summarizer" are deployments, and no model is one of them.
LEMMA DeploymentFacts ==
  /\ "llm" \in Deployments /\ "assistant" \in Deployments /\ "summarizer" \in Deployments
  /\ Models \subseteq Deployments
  /\ \A m \in Models : m \notin {"llm", "assistant", "summarizer"}
BY LLMAssumption DEF Deployments

LEMMA FollowsFacts ==
  ASSUME NEW T \in Nat, NEW s \in Seq(1..T), NEW p \in 0..T, Follows(s, p)
  PROVE  /\ Follows(Append(s, p + 1), p + 1) /\ Len(Append(s, p + 1)) = Len(s) + 1
         /\ p = 0 => Len(s) = 0
         /\ s # <<>> => /\ Len(s) \in 1..p /\ Head(s) = p - Len(s) + 1 /\ Head(s) \in 1..T
                        /\ Tail(s) \in Seq(1..T) /\ Len(Tail(s)) = Len(s) - 1 /\ Follows(Tail(s), p)
<1>1. Len(s) \in Nat /\ p \in Nat /\ Len(s) <= p
  BY DEF Follows
<1>2. \A i \in 1..Len(s) : s[i] = p - Len(s) + i
  BY DEF Follows
<1>3. Follows(Append(s, p + 1), p + 1) /\ Len(Append(s, p + 1)) = Len(s) + 1
  <2> DEFINE t == Append(s, p + 1)
  <2>1. /\ Len(t) = Len(s) + 1 /\ t[Len(s) + 1] = p + 1
        /\ \A i \in 1..Len(s) : t[i] = s[i]
    BY <1>1
  <2> HIDE DEF t
  <2>2. \A i \in 1..(Len(s) + 1) : t[i] = (p + 1) - (Len(s) + 1) + i
    <3>1. \A i \in 1..(Len(s) + 1) : i \in 1..Len(s) \/ i = Len(s) + 1
      BY <1>1
    <3>2. \A i \in 1..Len(s) : t[i] = p - Len(s) + i /\ i \in Int
      BY <1>1, <1>2, <2>1
    <3> QED
      BY <1>1, <2>1, <3>1, <3>2
  <2>3. Follows(t, p + 1)
    BY <1>1, <2>1, <2>2 DEF Follows
  <2> QED
    BY <2>1, <2>3 DEF t
<1>4. ASSUME s # <<>>
      PROVE  /\ Len(s) \in 1..p /\ Head(s) = p - Len(s) + 1 /\ Head(s) \in 1..T
             /\ Tail(s) \in Seq(1..T) /\ Len(Tail(s)) = Len(s) - 1 /\ Follows(Tail(s), p)
  <2> DEFINE t == Tail(s)
  <2>1. Len(s) \in 1..p /\ Head(s) = s[1] /\ Head(s) \in 1..T
    BY <1>1, <1>4
  <2>2. /\ t \in Seq(1..T) /\ Len(t) = Len(s) - 1
        /\ \A i \in 1..(Len(s) - 1) : t[i] = s[i + 1]
    BY <1>1, <1>4
  <2> HIDE DEF t
  <2>3. \A i \in 1..(Len(s) - 1) : t[i] = p - (Len(s) - 1) + i
    <3>1. \A i \in 1..(Len(s) - 1) : i + 1 \in 1..Len(s) /\ i \in Int
      BY <1>1
    <3>2. \A i \in 1..(Len(s) - 1) : t[i] = p - Len(s) + (i + 1)
      BY <1>2, <2>2, <3>1
    <3> QED
      BY <1>1, <3>1, <3>2
  <2>4. Follows(t, p)
    BY <1>1, <2>1, <2>2, <2>3 DEF Follows
  <2>5. Head(s) = p - Len(s) + 1
    BY <1>1, <1>2, <2>1
  <2> QED
    BY <2>1, <2>2, <2>4, <2>5 DEF t
<1> QED
  BY <1>1, <1>3, <1>4

LEMMA CountsOn ==
  ASSUME NEW T \in Nat, NEW s \in Seq(1..T), NEW n \in Nat, Counts(s, n)
  PROVE  Counts(s \o <<n + 1>>, n + 1)
<1> DEFINE t == s \o <<n + 1>>
<1>1. /\ Len(t) = Len(s) + 1 /\ t[Len(s) + 1] = n + 1
      /\ \A i \in 1..Len(s) : t[i] = s[i]
  OBVIOUS
<1>2. Len(s) = n /\ \A i \in 1..n : s[i] = i
  BY DEF Counts
<1> HIDE DEF t
<1>3. Len(t) = n + 1 /\ \A i \in 1..(n + 1) : t[i] = i
  BY <1>1, <1>2
<1>4. Counts(t, n + 1)
  BY <1>3 DEF Counts
<1> QED
  BY <1>4 DEF t

LEMMA InitTextInv == LLMInit => TextInv
<1> SUFFICES ASSUME LLMInit PROVE TextInv
  OBVIOUS
<1>1. LLMTypeOK
  <2>1. /\ program \in Programs /\ loaded = {} /\ chat = "None"
        /\ engine = {} /\ gone = {} /\ broken = {}
        /\ at \in [Callers -> {"new", "sent", "config", "engine", "closing"} \cup Endings]
    BY DEF LLMInit
  <2>6. generator \in [Callers -> Deployments \cup {"None"}]
    BY DEF LLMInit
  <2>8. 0 \in 0..Tokens
    <3>1. Tokens \in Nat
      BY LLMAssumption, Zenon
    <3> QED
      BY <3>1
  <2>7. numReturned \in [Callers -> 0..Tokens]
    BY <2>8, Zenon DEF LLMInit
  <2>2. ask \in [Callers -> [stream : BOOLEAN, model : ModelIds, flaw : Flaws \cup {"none"}]]
    BY DEF LLMInit, ModelIds
  <2>3. Zero \in [Deployments -> [Callers -> 0..Tokens]]
    BY <2>8, Zenon DEF Zero
  <2>4. produced = Zero /\ final = Zero
    BY DEF LLMInit
  <2>5. /\ outputs \in [Deployments -> [Callers -> Seq(1..Tokens)]]
        /\ received \in [Callers -> Seq(1..Tokens)]
    <3>1. <<>> \in Seq(1..Tokens)
      OBVIOUS
    <3> QED
      BY <3>1 DEF LLMInit
  <2> QED
    BY <2>1, <2>2, <2>3, <2>4, <2>5, <2>6, <2>7 DEF LLMTypeOK
<1>2. ASSUME NEW r \in Callers PROVE CallOK(r)
  <2>1. /\ at[r] = "new" /\ generator[r] = "None" /\ numReturned[r] = 0 /\ received[r] = <<>>
        /\ engine = {} /\ ~ask[r].stream /\ ask[r].flaw = "none"
        /\ \A m \in Deployments : produced[m][r] = 0 /\ final[m][r] = 0 /\ outputs[m][r] = <<>>
    BY DEF LLMInit, Zero
  <2>2. /\ OutputsFollow(r) /\ WorksForOne(r) /\ NothingYet(r) /\ ReadsOutputs(r)
        /\ StreamsOutputs(r)
    <3>1. Len(received[r]) = 0 /\ \A m \in Deployments : Len(outputs[m][r]) = 0
      BY <2>1
    <3>2. OutputsFollow(r) /\ ReadsOutputs(r)
      <4>1. Follows(<<>>, 0)
        BY DEF Follows
      <4>2. OutputsFollow(r)
        BY <2>1, <4>1 DEF OutputsFollow
      <4>3. \A m \in Deployments : final[m][r] = 0 /\ produced[m][r] = 0 /\ Len(outputs[m][r]) = 0
        BY <2>1, <3>1, Zenon
      <4>4. 0 + 0 = 0
        OBVIOUS
      <4>5. ReadsOutputs(r)
        BY <4>3, <4>4, Zenon DEF ReadsOutputs
      <4> QED
        BY <4>2, <4>5
    <3>3. WorksForOne(r) /\ NothingYet(r)
      BY <2>1 DEF WorksForOne, NothingYet
    <3>4. StreamsOutputs(r)
      BY <2>1, <3>1 DEF StreamsOutputs, Streams, Counts
    <3> QED
      BY <3>2, <3>3, <3>4
  <2>3. /\ ClosesAtTheEnd(r) /\ RightModel(r) /\ SummaryOfAll(r) /\ AnsweredWhole(r)
        /\ FailedForACause(r)
    BY <2>1 DEF ClosesAtTheEnd, RightModel, SummaryOfAll, AnsweredWhole, FailedForACause
  <2> QED
    BY <2>2, <2>3 DEF CallOK
<1> QED
  BY <1>1, <1>2 DEF TextInv

\* Nothing of request q changes.
SameCall(q) ==
  /\ at'[q] = at[q] /\ generator'[q] = generator[q] /\ ask'[q] = ask[q]
  /\ numReturned'[q] = numReturned[q] /\ received'[q] = received[q]
  /\ (q \in gone' <=> q \in gone) /\ (q \in broken => q \in broken')
  /\ \A m \in Deployments :
       /\ produced'[m][q] = produced[m][q] /\ outputs'[m][q] = outputs[m][q]
       /\ final'[m][q] = final[m][q]
       /\ <<m, q>> \in engine' <=> <<m, q>> \in engine

LEMMA FrameCall ==
  ASSUME TextInv, UNCHANGED program, NEW q \in Callers, SameCall(q)
  PROVE  CallOK(q)'
<1>1. CallOK(q)
  BY DEF TextInv
<1>2. Streams(q)' = Streams(q) /\ Exhausted("llm", q)' = Exhausted("llm", q)
  BY DeploymentFacts DEF SameCall, Streams, Exhausted
<1>3. OutputsFollow(q)' /\ WorksForOne(q)' /\ NothingYet(q)'
  BY <1>1 DEF CallOK, SameCall, OutputsFollow, WorksForOne, NothingYet
<1>4. ReadsOutputs(q)' /\ StreamsOutputs(q)' /\ ClosesAtTheEnd(q)'
  BY <1>1, <1>2, DeploymentFacts DEF CallOK, SameCall, ReadsOutputs, StreamsOutputs, ClosesAtTheEnd
<1>6. \A m : AsksFor(q, m)' <=> AsksFor(q, m)
  BY DEF SameCall, AsksFor
<1>5. RightModel(q)' /\ SummaryOfAll(q)' /\ AnsweredWhole(q)' /\ FailedForACause(q)'
  BY <1>1, <1>6, DeploymentFacts
     DEF CallOK, SameCall, RightModel, SummaryOfAll, AnsweredWhole, FailedForACause,
         StreamBehindRouter, Flawed
<1> QED
  BY <1>3, <1>4, <1>5 DEF CallOK

\* A step of request r: it is enough to look at r.
LEMMA OneCall ==
  ASSUME TextInv, UNCHANGED program, NEW r \in Callers, LLMTypeOK', CallOK(r)',
         \A q \in Callers \ {r} : SameCall(q)
  PROVE  TextInv'
BY FrameCall DEF TextInv

------------------------------------------------------------------------------
LEMMA AskTextInv == ASSUME TextInv, NEW r \in Callers, Ask(r) PROVE TextInv'
<1>1. /\ at[r] = "new" /\ at' = [at EXCEPT ![r] = "sent"]
      /\ UNCHANGED <<program, loaded, chat, generator, engine, produced, outputs, final, numReturned,
                     received, gone, broken>>
  BY DEF Ask, Advance, engineVars, textVars
<1>2. PICK s \in BOOLEAN, n \in Named, f \in Flawed \cup {"none"} :
        ask' = [ask EXCEPT ![r] = [stream |-> s, model |-> n, flaw |-> f]]
  BY DEF Ask
<1>3. n \in ModelIds /\ f \in Flaws \cup {"none"}
  BY DEF Named, ModelIds, Flawed, Flaws
<1>4. LLMTypeOK /\ CallOK(r)
  BY DEF TextInv
<1>5. LLMTypeOK'
  BY <1>1, <1>2, <1>3, <1>4 DEF LLMTypeOK
<1>6. \A q \in Callers \ {r} : SameCall(q)
  BY <1>1, <1>2, <1>4 DEF SameCall, LLMTypeOK
<1>7. at'[r] = "sent"
  BY <1>1, <1>4 DEF LLMTypeOK
<1>8. /\ generator[r] = "None" /\ numReturned[r] = 0
      /\ \A m \in Deployments : produced[m][r] = 0 /\ final[m][r] = 0 /\ Len(outputs[m][r]) = 0
                                /\ <<m, r>> \notin engine
  <2>1. \A m \in Deployments : Len(outputs[m][r]) \in Nat
    BY <1>4 DEF LLMTypeOK
  <2> QED
    BY <1>1, <1>4, <2>1 DEF CallOK, OutputsFollow, Follows, NothingYet, WorksForOne
<1>9. OutputsFollow(r)' /\ WorksForOne(r)' /\ NothingYet(r)' /\ ReadsOutputs(r)' /\ StreamsOutputs(r)'
  BY <1>1, <1>4, <1>7, <1>8, DeploymentFacts
     DEF CallOK, OutputsFollow, WorksForOne, NothingYet, ReadsOutputs, StreamsOutputs
<1>10. ClosesAtTheEnd(r)' /\ RightModel(r)' /\ SummaryOfAll(r)' /\ AnsweredWhole(r)'
  BY <1>1, <1>7, <1>8
     DEF ClosesAtTheEnd, RightModel, SummaryOfAll, AnsweredWhole
<1>11. FailedForACause(r)'
  BY <1>1, <1>2, <1>4, <1>7 DEF LLMTypeOK, FailedForACause, Flawed
<1> QED
  BY <1>1, <1>5, <1>6, <1>9, <1>10, <1>11, OneCall DEF CallOK

LEMMA DisconnectTextInv == ASSUME TextInv, NEW r \in Callers, Disconnect(r) PROVE TextInv'
<1>1. /\ at[r] \in {"sent", "engine"} /\ gone' = gone \cup {r}
      /\ UNCHANGED <<program, loaded, ask, at, chat, generator, engine, produced, outputs, final,
                     numReturned, received, broken>>
  BY DEF Disconnect, serverVars, engineVars, textVars
<1>2. LLMTypeOK /\ CallOK(r)
  BY DEF TextInv
<1>3. LLMTypeOK'
  BY <1>1, <1>2 DEF LLMTypeOK
<1>4. \A q \in Callers \ {r} : SameCall(q)
  BY <1>1 DEF SameCall
<1>5. OutputsFollow(r)' /\ WorksForOne(r)' /\ NothingYet(r)' /\ ReadsOutputs(r)' /\ StreamsOutputs(r)'
  BY <1>1, <1>2
     DEF CallOK, OutputsFollow, WorksForOne, NothingYet, ReadsOutputs, StreamsOutputs, Streams
<1>7. \A m : AsksFor(r, m)' <=> AsksFor(r, m)
  BY <1>1 DEF AsksFor
<1>6. ClosesAtTheEnd(r)' /\ RightModel(r)' /\ SummaryOfAll(r)' /\ AnsweredWhole(r)' /\ FailedForACause(r)'
  BY <1>1, <1>2, <1>7
     DEF CallOK, ClosesAtTheEnd, RightModel, SummaryOfAll, AnsweredWhole, FailedForACause,
         StreamBehindRouter, Flawed
<1> QED
  BY <1>1, <1>3, <1>4, <1>5, <1>6, OneCall DEF CallOK

------------------------------------------------------------------------------
\* A request that no engine has seen: what its handler does first.
Begins(r) ==
  /\ at[r] \in {"sent", "config"} /\ UNCHANGED unchangedByCall
  /\ chat' \in Callers \cup {"None"} /\ broken' \subseteq Callers /\ broken \subseteq broken'

\* It has left no trace.
LEMMA NoTrace ==
  ASSUME TextInv, NEW r \in Callers, at[r] \in {"new", "sent", "config"}
  PROVE  /\ generator[r] = "None" /\ numReturned[r] = 0
         /\ \A m \in Deployments : produced[m][r] = 0 /\ final[m][r] = 0 /\ Len(outputs[m][r]) = 0
                                   /\ <<m, r>> \notin engine
<1>1. LLMTypeOK /\ CallOK(r)
  BY DEF TextInv
<1>2. \A m \in Deployments : Len(outputs[m][r]) \in Nat
  BY <1>1 DEF LLMTypeOK
<1> QED
  BY <1>1, <1>2 DEF CallOK, OutputsFollow, Follows, NothingYet, WorksForOne

\* It goes to an engine ...
LEMMA EnterTextInv ==
  ASSUME TextInv, NEW r \in Callers, Begins(r), NEW m \in Deployments, Enter(m, r),
         program \in {"vllm", "openai"} => m = "llm",
         program = "multi" => m \in Models /\ AsksFor(r, m),
         program = "chain" => m = "assistant",
         ~StreamBehindRouter(r),
         ask[r].flaw # "none" => program = "chain" /\ ask[r].flaw = "max_tokens"
  PROVE  TextInv'
<1>1. /\ at[r] \in {"sent", "config"} /\ at' = [at EXCEPT ![r] = "engine"]
      /\ generator' = [generator EXCEPT ![r] = m] /\ engine' = engine \cup {<<m, r>>}
      /\ broken' \subseteq Callers /\ broken \subseteq broken'
      /\ UNCHANGED <<program, loaded, ask, produced, outputs, final, numReturned, received, gone>>
  BY DEF Begins, Enter, Advance, unchangedByCall, textVars
<1>2. LLMTypeOK /\ CallOK(r)
  BY DEF TextInv
<1>3. LLMTypeOK'
  <2>1. /\ at' \in [Callers -> {"new", "sent", "config", "engine", "closing"} \cup Endings]
        /\ generator' \in [Callers -> Deployments \cup {"None"}]
        /\ engine' \subseteq Deployments \X Callers
    BY <1>1, <1>2 DEF LLMTypeOK
  <2>2. chat' \in Callers \cup {"None"}
    BY DEF Begins
  <2> QED
    BY <1>1, <1>2, <2>1, <2>2 DEF LLMTypeOK
<1>4. \A q \in Callers \ {r} : SameCall(q)
  BY <1>1, <1>2 DEF SameCall, LLMTypeOK
<1>5. at'[r] = "engine" /\ generator'[r] = m
  BY <1>1, <1>2 DEF LLMTypeOK
<1>6. OutputsFollow(r)' /\ WorksForOne(r)' /\ NothingYet(r)' /\ ReadsOutputs(r)' /\ StreamsOutputs(r)'
  <2>1. WorksForOne(r)' /\ NothingYet(r)'
    BY <1>1, <1>5, NoTrace DEF WorksForOne, NothingYet
  <2>2. OutputsFollow(r)' /\ ReadsOutputs(r)' /\ StreamsOutputs(r)'
    BY <1>1, <1>2, NoTrace, DeploymentFacts
       DEF CallOK, OutputsFollow, ReadsOutputs, StreamsOutputs, Streams
  <2> QED
    BY <2>1, <2>2
<1>8. FailedForACause(r)'
  BY <1>1, <1>5 DEF TextInv, CallOK, FailedForACause, StreamBehindRouter, Flawed
<1>7. ClosesAtTheEnd(r)' /\ RightModel(r)' /\ SummaryOfAll(r)' /\ AnsweredWhole(r)'
  <2>1. program = "multi" => m \in Models /\ AsksFor(r, m)'
    BY <1>1, Zenon DEF AsksFor
  <2> QED
    BY <1>1, <1>2, <1>5, <2>1, DeploymentFacts
       DEF LLMTypeOK, Programs, ClosesAtTheEnd, RightModel, SummaryOfAll, AnsweredWhole
<1> QED
  BY <1>1, <1>3, <1>4, <1>6, <1>7, <1>8, OneCall DEF CallOK

\* ... or on, or ends, without one.
LEMMA AnswerTextInv ==
  ASSUME TextInv, NEW r \in Callers, Begins(r),
         NEW place \in {"config", "400", "422", "500"}, Answer(r, place),
         place = "config" => program = "openai" /\ ask[r].flaw = "none",
         place = "500" => r \in broken' \/ ask[r].flaw # "none" \/ StreamBehindRouter(r)
  PROVE  TextInv'
<1>1. /\ at[r] \in {"sent", "config"} /\ at' = [at EXCEPT ![r] = place]
      /\ broken' \subseteq Callers /\ broken \subseteq broken'
      /\ UNCHANGED <<program, loaded, ask, generator, engine, produced, outputs, final, numReturned,
                     received, gone>>
  BY DEF Begins, Answer, Advance, unchangedByCall, textVars
<1>2. LLMTypeOK /\ CallOK(r)
  BY DEF TextInv
<1>3. LLMTypeOK'
  BY <1>1, <1>2 DEF LLMTypeOK, Begins, Endings
<1>4. \A q \in Callers \ {r} : SameCall(q)
  BY <1>1, <1>2 DEF SameCall, LLMTypeOK
<1>5. at'[r] = place
  BY <1>1, <1>2 DEF LLMTypeOK
<1>6. OutputsFollow(r)' /\ WorksForOne(r)' /\ NothingYet(r)' /\ ReadsOutputs(r)' /\ StreamsOutputs(r)'
  BY <1>1, <1>2, <1>5, NoTrace, DeploymentFacts
     DEF CallOK, OutputsFollow, WorksForOne, NothingYet, ReadsOutputs, StreamsOutputs, Streams
<1>7. ClosesAtTheEnd(r)' /\ RightModel(r)' /\ SummaryOfAll(r)' /\ AnsweredWhole(r)' /\ FailedForACause(r)'
  BY <1>1, <1>2, <1>5, NoTrace
     DEF CallOK, ClosesAtTheEnd, RightModel, SummaryOfAll, AnsweredWhole, FailedForACause,
         StreamBehindRouter, Flawed
<1> QED
  BY <1>1, <1>3, <1>4, <1>6, <1>7, OneCall DEF CallOK

LEMMA CallsTextInv ==
  ASSUME TextInv, NEW r \in Callers,
         VllmCall(r) \/ ChatCall(r) \/ ChatServer(r) \/ ChatServerFails(r)
           \/ MultiCall(r) \/ ChainCall(r)
  PROVE  TextInv'
<1>1. LLMTypeOK /\ NothingYet(r) /\ FailedForACause(r)
  BY DEF TextInv, CallOK
<1>2. chat \in Callers \cup {"None"} /\ broken \subseteq Callers
  BY <1>1 DEF LLMTypeOK
<1>3. CASE VllmCall(r)
  <2>1. Begins(r) /\ program = "vllm"
    BY <1>2, <1>3 DEF VllmCall, Begins, unchangedByCall
  <2>2. \/ ask[r].flaw = "none" /\ Enter("llm", r)
        \/ ask[r].flaw # "none" /\ Answer(r, "500")
    BY <1>3 DEF VllmCall
  <2> QED
    BY <2>1, <2>2, EnterTextInv, AnswerTextInv, DeploymentFacts DEF StreamBehindRouter
<1>4. ASSUME Begins(r), program = "openai", ask[r].flaw = "none", ChatCompletion(r) PROVE TextInv'
  BY <1>4, EnterTextInv, AnswerTextInv, DeploymentFacts DEF ChatCompletion, StreamBehindRouter
<1>5. CASE ChatCall(r)
  <2>1. Begins(r) /\ program = "openai"
    BY <1>2, <1>5 DEF ChatCall, Begins, unchangedByCall
  <2>2. \/ Answer(r, "422")
        \/ ask[r].flaw = "none" /\ (Answer(r, "config") \/ ChatCompletion(r))
    BY <1>5 DEF ChatCall
  <2> QED
    BY <1>4, <2>1, <2>2, AnswerTextInv
<1>6. CASE ChatServer(r)
  <2>1. Begins(r) /\ program = "openai" /\ ask[r].flaw = "none" /\ ChatCompletion(r)
    BY <1>1, <1>2, <1>6 DEF ChatServer, Begins, unchangedByCall, NothingYet, FailedForACause
  <2> QED
    BY <1>4, <2>1
<1>7. CASE ChatServerFails(r)
  <2>1. Begins(r) /\ Answer(r, "500") /\ r \in broken'
    BY <1>2, <1>7 DEF ChatServerFails, Begins, unchangedByCall
  <2> QED
    BY <2>1, AnswerTextInv
<1>8. ASSUME Begins(r), NoJson(r) PROVE TextInv'
  BY <1>8, AnswerTextInv DEF NoJson
<1>9. CASE MultiCall(r)
  <2>1. Begins(r) /\ program = "multi" /\ ask[r].flaw \in {"none", "json", "fields"}
    BY <1>1, <1>2, <1>9 DEF MultiCall, Begins, unchangedByCall, FailedForACause, Flawed
  <2>2. ASSUME NEW m \in Models, Remote(m, r), AsksFor(r, m), ask[r].flaw # "json" PROVE TextInv'
    <3>1. \/ ask[r].flaw = "none" /\ ~StreamBehindRouter(r) /\ Enter(m, r)
          \/ (ask[r].flaw # "none" \/ StreamBehindRouter(r)) /\ Answer(r, "500")
      BY <2>1, <2>2 DEF Remote, StreamBehindRouter
    <3> QED
      BY <2>1, <2>2, <3>1, EnterTextInv, AnswerTextInv, DeploymentFacts
  <2>3. \/ NoJson(r)
        \/ \E m \in Models : Remote(m, r) /\ AsksFor(r, m) /\ ask[r].flaw # "json"
        \/ Answer(r, "400")
    BY <1>9, Zenon DEF MultiCall, Route, AsksFor
  <2> QED
    BY <1>8, <2>1, <2>2, <2>3, AnswerTextInv
<1>10. CASE ChainCall(r)
  <2>1. Begins(r) /\ program = "chain"
    BY <1>2, <1>10 DEF ChainCall, Begins, unchangedByCall
  <2>2. \/ NoJson(r)
        \/ /\ ask[r].flaw \in {"none", "max_tokens"} /\ ~StreamBehindRouter(r)
           /\ Enter("assistant", r)
        \/ (ask[r].flaw # "none" \/ StreamBehindRouter(r)) /\ Answer(r, "500")
    BY <1>1, <1>10, <2>1 DEF ChainCall, Remote, StreamBehindRouter, FailedForACause, Flawed, Flaws
  <2> QED
    BY <1>8, <2>1, <2>2, EnterTextInv, AnswerTextInv, DeploymentFacts
<1> QED
  BY <1>3, <1>5, <1>6, <1>7, <1>9, <1>10

------------------------------------------------------------------------------
\* A step that leaves the handler of r and its choice of a model alone.
LEMMA SameChoice ==
  ASSUME TextInv, NEW r \in Callers, UNCHANGED <<program, loaded, ask, generator>>,
         at'[r] \in {"engine", "closing"}, at[r] = "engine" \/ at'[r] = at[r],
         at'[r] = at[r] \/ Streams(r)
  PROVE  RightModel(r)' /\ NothingYet(r)' /\ AnsweredWhole(r)' /\ FailedForACause(r)'
<1>1. RightModel(r)
  BY DEF TextInv, CallOK
<1>2. \A m : AsksFor(r, m)' <=> AsksFor(r, m)
  BY DEF AsksFor
<1>3. RightModel(r)'
  BY <1>1, <1>2 DEF RightModel
<1>4. NothingYet(r)' /\ AnsweredWhole(r)'
  BY DEF NothingYet, AnsweredWhole
<1>5. FailedForACause(r)'
  BY DEF TextInv, CallOK, FailedForACause, StreamBehindRouter, Flawed, Streams
<1> QED
  BY <1>3, <1>4, <1>5

LEMMA ProduceTextInv ==
  ASSUME TextInv, NEW r \in Callers, NEW m \in Deployments, Produce(m, r) PROVE TextInv'
<1>1. /\ <<m, r>> \in engine /\ produced[m][r] < Tokens
      /\ produced' = [produced EXCEPT ![m][r] = @ + 1]
      /\ outputs' = [outputs EXCEPT ![m][r] = Append(@, produced[m][r] + 1)]
      /\ UNCHANGED <<program, loaded, ask, at, chat, generator, engine, final, numReturned, received,
                     gone, broken>>
  BY DEF Produce, unchangedByEngine, serverVars, textVars
<1>2. LLMTypeOK /\ CallOK(r)
  BY DEF TextInv
<1>3. at[r] \in {"engine", "closing"} /\ generator[r] = m
  BY <1>1, <1>2 DEF CallOK, WorksForOne
<1>4. /\ Tokens \in Nat /\ produced[m][r] \in Nat /\ produced[m][r] + 1 \in 1..Tokens
      /\ outputs[m][r] \in Seq(1..Tokens) /\ Len(outputs[m][r]) \in Nat
  <2>1. Tokens \in Nat
    BY LLMAssumption, Zenon
  <2> QED
    BY <1>1, <1>2, <2>1 DEF LLMTypeOK
<1>5. LLMTypeOK'
  <2>1. produced[m][r] + 1 \in 0..Tokens
    BY <1>4
  <2>2. produced' \in [Deployments -> [Callers -> 0..Tokens]]
    BY <1>1, <1>2, <2>1 DEF LLMTypeOK
  <2>3. Append(outputs[m][r], produced[m][r] + 1) \in Seq(1..Tokens)
    BY <1>4
  <2>4. outputs' \in [Deployments -> [Callers -> Seq(1..Tokens)]]
    BY <1>1, <1>2, <2>3 DEF LLMTypeOK
  <2> QED
    BY <1>1, <1>2, <2>2, <2>4 DEF LLMTypeOK
<1>6. \A q \in Callers \ {r} : SameCall(q)
  BY <1>1, <1>2 DEF SameCall, LLMTypeOK
<1>7. /\ produced'[m][r] = produced[m][r] + 1
      /\ outputs'[m][r] = Append(outputs[m][r], produced[m][r] + 1)
      /\ \A d \in Deployments \ {m} : produced'[d][r] = produced[d][r] /\ outputs'[d][r] = outputs[d][r]
  BY <1>1, <1>2 DEF LLMTypeOK
<1>8. Len(outputs'[m][r]) = Len(outputs[m][r]) + 1
  BY <1>4, <1>7
<1>15. Follows(outputs'[m][r], produced'[m][r])
  <2>1. Follows(outputs[m][r], produced[m][r]) /\ produced[m][r] \in 0..Tokens
    BY <1>2 DEF CallOK, OutputsFollow, LLMTypeOK
  <2>2. Follows(Append(outputs[m][r], produced[m][r] + 1), produced[m][r] + 1)
    BY <1>4, <2>1, FollowsFacts
  <2> QED
    BY <1>7, <2>2
<1>9. OutputsFollow(r)'
  BY <1>2, <1>7, <1>15 DEF CallOK, OutputsFollow
<1>10. ReadsOutputs(r)' /\ StreamsOutputs(r)'
  <2>1. Streams(r) => m = "llm"
    BY <1>2, <1>3 DEF CallOK, RightModel, Streams
  <2>2. \A d \in Deployments : final[d][r] \in Nat
    BY <1>2, <1>4 DEF LLMTypeOK
  <2>3. numReturned[r] \in Nat
    BY <1>2, <1>4 DEF LLMTypeOK
  <2>4. ReadsOutputs(r)'
    BY <1>1, <1>2, <1>4, <1>7, <1>8, <2>2 DEF CallOK, ReadsOutputs, Streams
  <2>5. StreamsOutputs(r)'
    BY <1>1, <1>2, <1>4, <1>7, <1>8, <2>1, <2>3 DEF CallOK, StreamsOutputs, Streams
  <2> QED
    BY <2>4, <2>5
<1>11. WorksForOne(r)'
  BY <1>1, <1>2 DEF CallOK, WorksForOne
<1>12. ClosesAtTheEnd(r)'
  <2>1. at[r] = "closing" => m = "llm" /\ Streams(r)
    BY <1>2, <1>3 DEF CallOK, ClosesAtTheEnd, RightModel, Streams
  <2> QED
    BY <1>1, <1>2, <1>3, <2>1 DEF CallOK, ClosesAtTheEnd, Exhausted, Streams
<1>13. SummaryOfAll(r)'
  BY <1>1, <1>2, <1>3, <1>7, DeploymentFacts DEF CallOK, SummaryOfAll
<1>14. RightModel(r)' /\ NothingYet(r)' /\ AnsweredWhole(r)' /\ FailedForACause(r)'
  BY <1>1, <1>3, SameChoice
<1> QED
  BY <1>1, <1>5, <1>6, <1>9, <1>10, <1>11, <1>12, <1>13, <1>14, OneCall DEF CallOK

LEMMA FinishTextInv ==
  ASSUME TextInv, NEW r \in Callers, NEW m \in Deployments, Finish(m, r) PROVE TextInv'
<1>1. /\ <<m, r>> \in engine /\ engine' = engine \ {<<m, r>>}
      /\ UNCHANGED <<program, loaded, ask, at, chat, generator, produced, outputs, final, numReturned,
                     received, gone, broken>>
  BY DEF Finish, unchangedByEngine, serverVars, textVars
<1>2. LLMTypeOK /\ CallOK(r)
  BY DEF TextInv
<1>3. at[r] \in {"engine", "closing"}
  BY <1>1, <1>2 DEF CallOK, WorksForOne
<1>4. LLMTypeOK'
  BY <1>1, <1>2 DEF LLMTypeOK
<1>5. \A q \in Callers \ {r} : SameCall(q)
  BY <1>1 DEF SameCall
<1>6. OutputsFollow(r)' /\ WorksForOne(r)' /\ ReadsOutputs(r)' /\ StreamsOutputs(r)' /\ SummaryOfAll(r)'
  BY <1>1, <1>2
     DEF CallOK, OutputsFollow, WorksForOne, ReadsOutputs, StreamsOutputs, SummaryOfAll, Streams
<1>7. ClosesAtTheEnd(r)'
  BY <1>1, <1>2 DEF CallOK, ClosesAtTheEnd, Exhausted, Streams
<1>8. RightModel(r)' /\ NothingYet(r)' /\ AnsweredWhole(r)' /\ FailedForACause(r)'
  BY <1>1, <1>3, SameChoice
<1> QED
  BY <1>1, <1>4, <1>5, <1>6, <1>7, <1>8, OneCall DEF CallOK

\* The handler of r ends, and no engine works for r any more.
LEMMA EndTextInv ==
  ASSUME TextInv, NEW r \in Callers, at[r] \in {"engine", "closing"},
         NEW place \in {"closed", "499", "500"}, Advance(r, place),
         engine' \subseteq engine, \A m \in Deployments : <<m, r>> \notin engine',
         \A q \in Callers \ {r}, m \in Deployments : <<m, q>> \in engine => <<m, q>> \in engine',
         broken \subseteq broken', broken' \subseteq Callers,
         UNCHANGED <<program, loaded, ask, chat, generator, produced, final, numReturned, received, gone>>,
         outputs' \in [Deployments -> [Callers -> Seq(1..Tokens)]], OutputsFollow(r)',
         place = "closed" => at[r] = "closing",
         place = "500" => r \in broken' \/ ask[r].flaw # "none",
         \A q \in Callers, m \in Deployments :
           (q # r \/ place # "499") => outputs'[m][q] = outputs[m][q],
         place = "499" => ~Streams(r)
  PROVE  TextInv'
<1>1. LLMTypeOK /\ CallOK(r)
  BY DEF TextInv
<1>2. at' = [at EXCEPT ![r] = place] /\ at'[r] = place
  BY <1>1 DEF Advance, LLMTypeOK
<1>3. LLMTypeOK'
  BY <1>1, <1>2 DEF LLMTypeOK, Endings
<1>4. \A q \in Callers \ {r} : SameCall(q)
  BY <1>1, <1>2 DEF SameCall, LLMTypeOK
<1>5. WorksForOne(r)' /\ NothingYet(r)' /\ RightModel(r)' /\ SummaryOfAll(r)'
      /\ AnsweredWhole(r)' /\ FailedForACause(r)'
  BY <1>1, <1>2
     DEF CallOK, WorksForOne, NothingYet, RightModel, SummaryOfAll, AnsweredWhole, FailedForACause,
         StreamBehindRouter, Flawed
<1>6. ReadsOutputs(r)' /\ StreamsOutputs(r)'
  BY <1>1, <1>2, DeploymentFacts DEF CallOK, ReadsOutputs, StreamsOutputs, Streams
<1>7. ClosesAtTheEnd(r)'
  BY <1>1, <1>2, DeploymentFacts DEF CallOK, ClosesAtTheEnd, Exhausted, Streams
<1> QED
  BY <1>3, <1>4, <1>5, <1>6, <1>7, OneCall DEF CallOK

\* What the generator yields is one token longer than what it has yielded before.
LEMMA YieldFacts ==
  ASSUME TextInv, NEW r \in Callers, NEW m \in Deployments, Yield(m, r), UNCHANGED produced
  PROVE  /\ produced[m][r] \in 0..Tokens /\ Len(outputs[m][r]) \in 1..produced[m][r]
         /\ Head(outputs[m][r]) = produced[m][r] - Len(outputs[m][r]) + 1
         /\ Head(outputs[m][r]) \in 1..Tokens
         /\ outputs' \in [Deployments -> [Callers -> Seq(1..Tokens)]]
         /\ outputs'[m][r] = Tail(outputs[m][r])
         /\ Len(outputs'[m][r]) = Len(outputs[m][r]) - 1
         /\ \A q \in Callers, d \in Deployments :
              (q # r \/ d # m) => outputs'[d][q] = outputs[d][q]
         /\ OutputsFollow(r)'
<1>1. LLMTypeOK /\ CallOK(r)
  BY DEF TextInv
<1>2. outputs[m][r] # <<>> /\ outputs' = [outputs EXCEPT ![m][r] = Tail(@)]
  BY DEF Yield
<1>3. Tokens \in Nat
  BY LLMAssumption, Zenon
<1>4. produced[m][r] \in 0..Tokens /\ outputs[m][r] \in Seq(1..Tokens)
  BY <1>1 DEF LLMTypeOK
<1>5. Follows(outputs[m][r], produced[m][r])
  BY <1>1 DEF CallOK, OutputsFollow
<1>6. /\ Len(outputs[m][r]) \in 1..produced[m][r]
      /\ Head(outputs[m][r]) = produced[m][r] - Len(outputs[m][r]) + 1
      /\ Head(outputs[m][r]) \in 1..Tokens
      /\ Tail(outputs[m][r]) \in Seq(1..Tokens)
      /\ Len(Tail(outputs[m][r])) = Len(outputs[m][r]) - 1
      /\ Follows(Tail(outputs[m][r]), produced[m][r])
  BY <1>2, <1>3, <1>4, <1>5, FollowsFacts
<1>7. outputs' \in [Deployments -> [Callers -> Seq(1..Tokens)]]
  BY <1>1, <1>2, <1>6 DEF LLMTypeOK
<1>8. /\ outputs'[m][r] = Tail(outputs[m][r])
      /\ \A q \in Callers, d \in Deployments :
           (q # r \/ d # m) => outputs'[d][q] = outputs[d][q]
  BY <1>1, <1>2 DEF LLMTypeOK
<1>9. OutputsFollow(r)'
  BY <1>1, <1>6, <1>8 DEF CallOK, OutputsFollow
<1> QED
  BY <1>4, <1>6, <1>7, <1>8, <1>9

LEMMA StreamResultsTextInv ==
  ASSUME TextInv, NEW r \in Callers, StreamResults(r) PROVE TextInv'
<1> DEFINE n == Head(outputs["llm"][r]) - numReturned[r]
<1>1. /\ Streams(r) /\ at[r] = "engine" /\ r \notin gone /\ Yield("llm", r)
      /\ received' = [received EXCEPT ![r] = @ \o [i \in 1..n |-> numReturned[r] + i]]
      /\ numReturned' = [numReturned EXCEPT ![r] = @ + n]
      /\ UNCHANGED <<program, loaded, ask, at, chat, generator, engine, produced, final, gone, broken>>
  BY DEF StreamResults, serverVars
<1>2. LLMTypeOK /\ CallOK(r) /\ "llm" \in Deployments
  BY DeploymentFacts DEF TextInv
<1>3. /\ produced["llm"][r] \in 0..Tokens /\ Len(outputs["llm"][r]) \in 1..produced["llm"][r]
      /\ Head(outputs["llm"][r]) = produced["llm"][r] - Len(outputs["llm"][r]) + 1
      /\ Head(outputs["llm"][r]) \in 1..Tokens
      /\ outputs' \in [Deployments -> [Callers -> Seq(1..Tokens)]]
      /\ Len(outputs'["llm"][r]) = Len(outputs["llm"][r]) - 1
      /\ \A q \in Callers, d \in Deployments :
           (q # r \/ d # "llm") => outputs'[d][q] = outputs[d][q]
      /\ OutputsFollow(r)'
  BY <1>1, <1>2, YieldFacts
<1>4. numReturned[r] \in Nat /\ n = 1 /\ numReturned[r] + 1 \in 1..Tokens
  <2>1. Tokens \in Nat
    BY LLMAssumption, Zenon
  <2>2. numReturned[r] \in 0..Tokens
    BY <1>2 DEF LLMTypeOK
  <2>3. numReturned[r] + Len(outputs["llm"][r]) = produced["llm"][r]
    BY <1>1, <1>2 DEF CallOK, StreamsOutputs
  <2>4. /\ produced["llm"][r] \in Int /\ Len(outputs["llm"][r]) \in Int /\ numReturned[r] \in Nat
        /\ Head(outputs["llm"][r]) \in 1..Tokens
    BY <1>3, <2>1, <2>2
  <2>5. Head(outputs["llm"][r]) = produced["llm"][r] - Len(outputs["llm"][r]) + 1
    BY <1>3
  <2>6. Head(outputs["llm"][r]) = numReturned[r] + 1
    BY <2>3, <2>4, <2>5
  <2> QED
    BY <2>1, <2>4, <2>6
<1>5. [i \in 1..n |-> numReturned[r] + i] = <<numReturned[r] + 1>>
  BY <1>4
<1>6. /\ received' = [received EXCEPT ![r] = @ \o <<numReturned[r] + 1>>]
      /\ numReturned' = [numReturned EXCEPT ![r] = @ + 1]
  BY <1>1, <1>4, <1>5
<1> HIDE DEF n
<1>7. received[r] \in Seq(1..Tokens)
  BY <1>2 DEF LLMTypeOK
<1>8. LLMTypeOK'
  <2>1. received[r] \o <<numReturned[r] + 1>> \in Seq(1..Tokens)
    BY <1>4, <1>7
  <2>2. received' \in [Callers -> Seq(1..Tokens)]
    BY <1>2, <1>6, <2>1 DEF LLMTypeOK
  <2>3. numReturned[r] + 1 \in 0..Tokens
    BY <1>4
  <2>4. numReturned' \in [Callers -> 0..Tokens]
    BY <1>2, <1>6, <2>3 DEF LLMTypeOK
  <2> QED
    BY <1>1, <1>2, <1>3, <2>2, <2>4 DEF LLMTypeOK
<1>9. \A q \in Callers \ {r} : SameCall(q)
  BY <1>1, <1>2, <1>3, <1>6 DEF SameCall, LLMTypeOK
<1>10. StreamsOutputs(r)'
  <2>1. received'[r] = received[r] \o <<numReturned[r] + 1>> /\ numReturned'[r] = numReturned[r] + 1
    BY <1>2, <1>6 DEF LLMTypeOK
  <2>2. Counts(received'[r], numReturned'[r])
    <3>1. Counts(received[r], numReturned[r]) /\ Tokens \in Nat
      BY <1>2, LLMAssumption, Zenon DEF CallOK, StreamsOutputs
    <3> QED
      BY <1>4, <1>7, <2>1, <3>1, CountsOn
  <2>5. numReturned'[r] + Len(outputs'["llm"][r]) = produced'["llm"][r]
    BY <1>1, <1>2, <1>3, <1>4, <2>1 DEF CallOK, StreamsOutputs
  <2> QED
    BY <2>2, <2>5 DEF StreamsOutputs
<1>11. WorksForOne(r)' /\ ReadsOutputs(r)' /\ ClosesAtTheEnd(r)' /\ SummaryOfAll(r)'
  BY <1>1, <1>2
     DEF CallOK, WorksForOne, ReadsOutputs, ClosesAtTheEnd, SummaryOfAll, Streams
<1>12. RightModel(r)' /\ NothingYet(r)' /\ AnsweredWhole(r)' /\ FailedForACause(r)'
  BY <1>1, SameChoice
<1> QED
  BY <1>1, <1>3, <1>8, <1>9, <1>10, <1>11, <1>12, OneCall DEF CallOK

LEMMA StreamEndsTextInv == ASSUME TextInv, NEW r \in Callers, StreamEnds(r) PROVE TextInv'
<1>1. /\ Streams(r) /\ at[r] = "engine" /\ (Exhausted("llm", r) \/ r \in gone)
      /\ at' = [at EXCEPT ![r] = "closing"]
      /\ UNCHANGED <<program, loaded, ask, chat, generator, engine, produced, outputs, final,
                     numReturned, received, gone, broken>>
  BY DEF StreamEnds, Advance, engineVars, textVars
<1>2. LLMTypeOK /\ CallOK(r)
  BY DEF TextInv
<1>3. LLMTypeOK'
  BY <1>1, <1>2 DEF LLMTypeOK
<1>4. \A q \in Callers \ {r} : SameCall(q)
  BY <1>1, <1>2 DEF SameCall, LLMTypeOK
<1>5. at'[r] = "closing"
  BY <1>1, <1>2 DEF LLMTypeOK
<1>6. OutputsFollow(r)' /\ WorksForOne(r)' /\ ReadsOutputs(r)' /\ StreamsOutputs(r)' /\ SummaryOfAll(r)'
  BY <1>1, <1>2, <1>5
     DEF CallOK, OutputsFollow, WorksForOne, ReadsOutputs, StreamsOutputs, SummaryOfAll, Streams
<1>7. ClosesAtTheEnd(r)'
  BY <1>1, <1>5 DEF ClosesAtTheEnd, Exhausted, Streams
<1>8. RightModel(r)' /\ NothingYet(r)' /\ AnsweredWhole(r)' /\ FailedForACause(r)'
  BY <1>1, <1>5, SameChoice
<1> QED
  BY <1>1, <1>3, <1>4, <1>6, <1>7, <1>8, OneCall DEF CallOK

LEMMA MayAbortTextInv == ASSUME TextInv, NEW r \in Callers, MayAbortRequest(r) PROVE TextInv'
<1>1. /\ at[r] = "closing" /\ Advance(r, "closed") /\ engine' = engine \ {<<"llm", r>>}
      /\ UNCHANGED <<program, loaded, ask, chat, generator, produced, outputs, final, numReturned,
                     received, gone, broken>>
  BY DEF MayAbortRequest, textVars
<1>2. LLMTypeOK /\ CallOK(r)
  BY DEF TextInv
<1>3. generator[r] = "llm"
  BY <1>1, <1>2 DEF CallOK, ClosesAtTheEnd, RightModel, Streams
<1>4. \A m \in Deployments : <<m, r>> \notin engine'
  BY <1>1, <1>2, <1>3 DEF CallOK, WorksForOne
<1>5. outputs \in [Deployments -> [Callers -> Seq(1..Tokens)]] /\ broken \subseteq Callers
  BY <1>2 DEF LLMTypeOK
<1>6. OutputsFollow(r)'
  BY <1>1, <1>2 DEF CallOK, OutputsFollow
<1> QED
  BY <1>1, <1>4, <1>5, <1>6, EndTextInv

LEMMA EngineFailsTextInv == ASSUME TextInv, NEW r \in Callers, EngineFails(r) PROVE TextInv'
<1>1. /\ at[r] = "engine" /\ Advance(r, "500") /\ engine' = engine \ (Deployments \X {r})
      /\ broken' = broken \cup {r}
      /\ UNCHANGED <<program, loaded, ask, chat, generator, produced, outputs, final, numReturned,
                     received, gone>>
  BY DEF EngineFails, textVars
<1>2. LLMTypeOK /\ CallOK(r)
  BY DEF TextInv
<1>3. outputs \in [Deployments -> [Callers -> Seq(1..Tokens)]] /\ broken' \subseteq Callers
  BY <1>1, <1>2 DEF LLMTypeOK
<1>4. OutputsFollow(r)'
  BY <1>1, <1>2 DEF CallOK, OutputsFollow
<1> QED
  BY <1>1, <1>3, <1>4, EndTextInv

LEMMA ReadOutputTextInv ==
  ASSUME TextInv, NEW r \in Callers, NEW m \in Deployments, ReadOutput(m, r) PROVE TextInv'
<1>1. /\ at[r] = "engine" /\ generator[r] = m /\ ~Streams(r) /\ Yield(m, r)
      /\ UNCHANGED <<program, loaded, ask, chat, generator, produced, numReturned, received, gone, broken>>
  BY DEF ReadOutput
<1>2. LLMTypeOK /\ CallOK(r)
  BY DEF TextInv
<1>3. /\ produced[m][r] \in 0..Tokens /\ Len(outputs[m][r]) \in 1..produced[m][r]
      /\ Head(outputs[m][r]) = produced[m][r] - Len(outputs[m][r]) + 1
      /\ Head(outputs[m][r]) \in 1..Tokens
      /\ outputs' \in [Deployments -> [Callers -> Seq(1..Tokens)]]
      /\ Len(outputs'[m][r]) = Len(outputs[m][r]) - 1
      /\ \A q \in Callers, d \in Deployments :
           (q # r \/ d # m) => outputs'[d][q] = outputs[d][q]
      /\ OutputsFollow(r)'
  BY <1>1, YieldFacts
<1>4. Tokens \in Nat
  BY LLMAssumption, Zenon
<1>5. CASE r \in gone
  <2>1. Advance(r, "499") /\ engine' = engine \ {<<m, r>>} /\ UNCHANGED final
    BY <1>5 DEF ReadOutput, Leave
  <2>2. \A d \in Deployments : <<d, r>> \notin engine'
    BY <1>1, <1>2, <2>1 DEF CallOK, WorksForOne
  <2>3. broken \subseteq Callers
    BY <1>2 DEF LLMTypeOK
  <2> QED
    BY <1>1, <1>3, <2>1, <2>2, <2>3, EndTextInv
<1>6. CASE r \notin gone
  <2>1. final' = [final EXCEPT ![m][r] = Head(outputs[m][r])] /\ UNCHANGED <<at, engine>>
    BY <1>6 DEF ReadOutput
  <2>2. Head(outputs[m][r]) \in 0..Tokens
    BY <1>3, <1>4
  <2>3. /\ final' \in [Deployments -> [Callers -> 0..Tokens]]
        /\ final'[m][r] = Head(outputs[m][r])
        /\ \A q \in Callers, d \in Deployments : (q # r \/ d # m) => final'[d][q] = final[d][q]
    BY <1>2, <2>1, <2>2 DEF LLMTypeOK
  <2>4. LLMTypeOK'
    BY <1>1, <1>2, <1>3, <2>1, <2>3 DEF LLMTypeOK
  <2>5. \A q \in Callers \ {r} : SameCall(q)
    BY <1>1, <1>3, <2>1, <2>3 DEF SameCall
  <2>6. final'[m][r] + Len(outputs'[m][r]) = produced[m][r]
    <3>1. produced[m][r] \in Int /\ Len(outputs[m][r]) \in Int
      BY <1>3, <1>4
    <3>2. final'[m][r] = produced[m][r] - Len(outputs[m][r]) + 1
      BY <1>3, <2>3
    <3>3. Len(outputs'[m][r]) = Len(outputs[m][r]) - 1
      BY <1>3
    <3> QED
      BY <3>1, <3>2, <3>3
  <2>7. ReadsOutputs(r)'
    BY <1>1, <1>2, <1>3, <2>1, <2>3, <2>6 DEF CallOK, ReadsOutputs, Streams
  <2>8. WorksForOne(r)' /\ StreamsOutputs(r)' /\ ClosesAtTheEnd(r)'
    BY <1>1, <1>2, <2>1 DEF CallOK, WorksForOne, StreamsOutputs, ClosesAtTheEnd, Streams
  <2>9. SummaryOfAll(r)'
    BY <1>1, <1>2, <2>3, DeploymentFacts DEF CallOK, SummaryOfAll
  <2>10. RightModel(r)' /\ NothingYet(r)' /\ AnsweredWhole(r)' /\ FailedForACause(r)'
    BY <1>1, <2>1, SameChoice
  <2> QED
    BY <1>1, <1>3, <2>4, <2>5, <2>7, <2>8, <2>9, <2>10, OneCall DEF CallOK
<1> QED
  BY <1>5, <1>6

LEMMA ReplyTextInv ==
  ASSUME TextInv, NEW r \in Callers, NEW m \in Deployments, Reply(m, r) PROVE TextInv'
<1>1. /\ at[r] = "engine" /\ generator[r] = m /\ ~Streams(r) /\ final[m][r] > 0
      /\ <<m, r>> \notin engine /\ outputs[m][r] = <<>>
      /\ UNCHANGED <<program, loaded, ask, chat, produced, outputs, final, numReturned, received, gone,
                     broken>>
  BY DEF Reply, LoopEnds, Exhausted, unchangedByCall, textVars
<1>2. LLMTypeOK /\ CallOK(r)
  BY DEF TextInv
<1>3. \A d \in Deployments : <<d, r>> \notin engine
  BY <1>1, <1>2 DEF CallOK, WorksForOne
<1>4. final[m][r] = produced[m][r]
  <2>1. final[m][r] + Len(outputs[m][r]) = produced[m][r] /\ Len(outputs[m][r]) = 0
    BY <1>1, <1>2 DEF CallOK, ReadsOutputs
  <2>2. Tokens \in Nat
    BY LLMAssumption, Zenon
  <2>3. final[m][r] \in Nat
    BY <1>2, <2>2 DEF LLMTypeOK
  <2> QED
    BY <2>1, <2>3
<1>7. CASE m = "assistant" /\ ask[r].flaw = "max_tokens"
  <2>1. Advance(r, "500") /\ UNCHANGED <<generator, engine>>
    BY <1>7 DEF Reply, Summarize, Answer
  <2>2. OutputsFollow(r)'
    BY <1>1, <1>2 DEF CallOK, OutputsFollow
  <2>3. outputs \in [Deployments -> [Callers -> Seq(1..Tokens)]] /\ broken \subseteq Callers
    BY <1>2 DEF LLMTypeOK
  <2> QED
    BY <1>1, <1>3, <1>7, <2>1, <2>2, <2>3, EndTextInv
<1>5. CASE m = "assistant" /\ ask[r].flaw # "max_tokens"
  <2>1. /\ at' = [at EXCEPT ![r] = "engine"]
        /\ generator' = [generator EXCEPT ![r] = "summarizer"]
        /\ engine' = engine \cup {<<"summarizer", r>>}
    BY <1>5 DEF Reply, Summarize, Enter, Advance
  <2>2. at'[r] = "engine" /\ generator'[r] = "summarizer" /\ at \in [Callers -> {"new", "sent", "config", "engine", "closing"} \cup Endings]
    BY <1>2, <2>1 DEF LLMTypeOK
  <2>3. /\ at' \in [Callers -> {"new", "sent", "config", "engine", "closing"} \cup Endings]
        /\ generator' \in [Callers -> Deployments \cup {"None"}]
        /\ engine' \subseteq Deployments \X Callers
    <3>1. "summarizer" \in Deployments
      BY DeploymentFacts
    <3>2. engine' \subseteq Deployments \X Callers
      BY <1>2, <2>1, <3>1 DEF LLMTypeOK
    <3>3. generator' \in [Callers -> Deployments \cup {"None"}]
      BY <1>2, <2>1, <3>1 DEF LLMTypeOK
    <3> QED
      BY <2>1, <2>2, <3>2, <3>3
  <2>4. LLMTypeOK'
    BY <1>1, <1>2, <2>3 DEF LLMTypeOK
  <2>5. \A q \in Callers \ {r} : SameCall(q)
    BY <1>1, <1>2, <2>1 DEF SameCall, LLMTypeOK
  <2>6. program = "chain"
    <3>1. program \in Programs
      BY <1>2 DEF LLMTypeOK
    <3> QED
      BY <1>1, <1>2, <1>5, <3>1, DeploymentFacts DEF CallOK, RightModel, Programs
  <2>7. OutputsFollow(r)' /\ ReadsOutputs(r)' /\ StreamsOutputs(r)'
    BY <1>1, <1>2, <2>2 DEF CallOK, OutputsFollow, ReadsOutputs, StreamsOutputs, Streams
  <2>8. WorksForOne(r)'
    BY <1>3, <2>1, <2>2 DEF WorksForOne
  <2>9. RightModel(r)' /\ SummaryOfAll(r)'
    BY <1>1, <1>4, <1>5, <2>2, <2>6, DeploymentFacts DEF RightModel, SummaryOfAll
  <2>10. NothingYet(r)' /\ ClosesAtTheEnd(r)' /\ AnsweredWhole(r)' /\ FailedForACause(r)'
    BY <1>1, <1>2, <1>5, <2>2
       DEF CallOK, NothingYet, ClosesAtTheEnd, AnsweredWhole, FailedForACause,
           StreamBehindRouter, Flawed
  <2> QED
    BY <1>1, <2>4, <2>5, <2>7, <2>8, <2>9, <2>10, OneCall DEF CallOK
<1>6. CASE m # "assistant"
  <2>1. at' = [at EXCEPT ![r] = "ok"] /\ UNCHANGED <<generator, engine>>
    BY <1>6 DEF Reply, Answer, Advance
  <2>2. at'[r] = "ok"
    BY <1>2, <2>1 DEF LLMTypeOK
  <2>3. LLMTypeOK'
    BY <1>1, <1>2, <2>1 DEF LLMTypeOK, Endings
  <2>4. \A q \in Callers \ {r} : SameCall(q)
    BY <1>1, <1>2, <2>1 DEF SameCall, LLMTypeOK
  <2>5. OutputsFollow(r)' /\ ReadsOutputs(r)' /\ StreamsOutputs(r)' /\ WorksForOne(r)'
    BY <1>1, <1>2, <1>3, <2>1, <2>2
       DEF CallOK, OutputsFollow, ReadsOutputs, StreamsOutputs, WorksForOne, Streams
  <2>6. \A d : AsksFor(r, d)' <=> AsksFor(r, d)
    BY <1>1 DEF AsksFor
  <2>7. RightModel(r)' /\ SummaryOfAll(r)'
    BY <1>1, <1>2, <2>1, <2>2, <2>6 DEF CallOK, RightModel, SummaryOfAll
  <2>8. NothingYet(r)' /\ ClosesAtTheEnd(r)' /\ AnsweredWhole(r)' /\ FailedForACause(r)'
    BY <1>1, <1>2, <1>4, <1>6, <2>1, <2>2
       DEF CallOK, NothingYet, ClosesAtTheEnd, AnsweredWhole, FailedForACause,
           StreamBehindRouter, Flawed
  <2> QED
    BY <1>1, <2>3, <2>4, <2>5, <2>7, <2>8, OneCall DEF CallOK
<1> QED
  BY <1>5, <1>6, <1>7

LEMMA LLMNextTextInv == ASSUME TextInv, [LLMNext]_llmVars PROVE TextInv'
<1>1. CASE UNCHANGED llmVars
  <2>1. LLMTypeOK' /\ UNCHANGED program
    BY <1>1 DEF TextInv, LLMTypeOK, llmVars, serverVars, engineVars, textVars
  <2>2. \A q \in Callers : SameCall(q)
    BY <1>1 DEF SameCall, llmVars, serverVars, engineVars, textVars
  <2> QED
    BY <2>1, <2>2, FrameCall DEF TextInv
<1>3. CASE Construct
  <2>1. /\ loaded' \subseteq Deployments
        /\ UNCHANGED <<program, ask, serverVars, engineVars, textVars, gone, broken>>
    BY <1>3 DEF TextInv, LLMTypeOK, Construct, VllmSetup, ChatSetup, MultiSetup, ChainSetup,
                Loads, Deployments
  <2>2. LLMTypeOK' /\ \A q \in Callers : SameCall(q)
    BY <2>1 DEF TextInv, LLMTypeOK, SameCall, serverVars, engineVars, textVars
  <2> QED
    BY <2>1, <2>2, FrameCall DEF TextInv
<1>2. ASSUME NEW r \in Callers,
             Ask(r) \/ Disconnect(r) \/ Handler(r) \/ Engine(r) \/ Failure(r)
      PROVE  TextInv'
  <2>1. CASE Ask(r) \/ Disconnect(r)
    BY <2>1, AskTextInv, DisconnectTextInv
  <2>2. CASE Handler(r)
    BY <2>2, CallsTextInv, StreamResultsTextInv, StreamEndsTextInv, MayAbortTextInv,
       ReadOutputTextInv, ReplyTextInv, Zenon DEF Handler
  <2>3. CASE Engine(r)
    BY <2>3, ProduceTextInv, FinishTextInv DEF Engine
  <2>4. CASE Failure(r)
    BY <2>4, CallsTextInv, EngineFailsTextInv DEF Failure
  <2> QED
    BY <1>2, <2>1, <2>2, <2>3, <2>4
<1> QED
  BY <1>1, <1>2, <1>3 DEF LLMNext

\* Whether the text servers are deployed or not.
LEMMA ServingTextInv == ServingSpec => []TextInv
<1>1. ServingInit => TextInv
  BY InitTextInv DEF ServingInit
<1>2. TextInv /\ [ServingNext]_servingVars => TextInv'
  BY LLMNextTextInv DEF ServingNext, servingVars
<1> QED
  BY <1>1, <1>2, PTL DEF ServingSpec

\* Streamed or not, a client that stays gets all the text of the model it has asked for,
\* whatever the engines and the other clients do.
THEOREM WholeTexts == ServingSpec => []TextsAreWhole
<1>1. TextInv => TextsAreWhole
  <2> SUFFICES ASSUME TextInv PROVE StreamIsTheText /\ AnswerIsTheText
    BY DEF TextsAreWhole
  <2>1. LLMTypeOK /\ \A r \in Callers : CallOK(r)
    BY DEF TextInv
  <2>2. StreamIsTheText
    <3> SUFFICES ASSUME NEW r \in Callers
                 PROVE  /\ \A i \in 1..Len(received[r]) : received[r][i] = i
                        /\ at[r] = "closed" /\ r \notin gone => Len(received[r]) = produced["llm"][r]
      BY DEF StreamIsTheText
    <3>1. Len(received[r]) = numReturned[r] /\ \A i \in 1..Len(received[r]) : received[r][i] = i
      BY <2>1 DEF CallOK, StreamsOutputs, Counts
    <3>2. ASSUME at[r] = "closed", r \notin gone PROVE Len(received[r]) = produced["llm"][r]
      <4>1. Streams(r) /\ outputs["llm"][r] = <<>>
        BY <2>1, <3>2 DEF CallOK, ClosesAtTheEnd, Exhausted
      <4>2. numReturned[r] + Len(outputs["llm"][r]) = produced["llm"][r]
        BY <2>1, <4>1 DEF CallOK, StreamsOutputs
      <4>3. Tokens \in Nat
        BY LLMAssumption, Zenon
      <4>4. numReturned[r] \in Nat
        BY <2>1, <4>3 DEF LLMTypeOK
      <4> QED
        BY <3>1, <4>1, <4>2, <4>4
    <3> QED
      BY <3>1, <3>2
  <2>3. ASSUME NEW r \in Callers, at[r] = "ok"
        PROVE  \E m \in Deployments :
                 /\ final[m][r] > 0 /\ final[m][r] = produced[m][r] /\ <<m, r>> \notin engine
                 /\ program = "multi" => AsksFor(r, m)
                 /\ program = "chain" => m = "summarizer"
    <3>1. generator[r] \in Deployments
      BY <2>1, <2>3 DEF CallOK, RightModel
    <3>2. /\ final[generator[r]][r] > 0 /\ final[generator[r]][r] = produced[generator[r]][r]
          /\ <<generator[r], r>> \notin engine
          /\ program = "multi" => AsksFor(r, generator[r])
          /\ program = "chain" => generator[r] = "summarizer"
      BY <2>1, <2>3, <3>1 DEF CallOK, RightModel, AnsweredWhole, WorksForOne
    <3> QED
      BY <3>1, <3>2
  <2>4. ASSUME NEW r \in Callers, <<"summarizer", r>> \in engine
        PROVE  final["assistant"][r] = produced["assistant"][r] /\ <<"assistant", r>> \notin engine
    BY <2>1, <2>4, DeploymentFacts DEF CallOK, WorksForOne, SummaryOfAll
  <2>5. AnswerIsTheText
    BY <2>3, <2>4, Zenon DEF AnswerIsTheText, AsksFor
  <2> QED
    BY <2>2, <2>5
<1> QED
  BY <1>1, ServingTextInv, PTL

\* No engine goes on working for a request that is over, aborted or not.
THEOREM NobodyIsServedInVain == ServingSpec => []NothingRunsForNobody
<1>1. TextInv => NothingRunsForNobody
  BY DEF TextInv, CallOK, WorksForOne, NothingRunsForNobody, Over, Endings
<1> QED
  BY <1>1, ServingTextInv, PTL

------------------------------------------------------------------------------
(* The image servers. *)

\* The first prompts of a batch are those of its members; a batch of the "tpu" is full.
BatchOK ==
  /\ Len(members) <= Len(prompts)
  /\ \A i \in 1..Len(members) : prompts[i] = members[i]
  /\ members # <<>> /\ app = "tpu" => Len(prompts) = BatchSize

\* What the web application has done for r, if nobody came in between.
FileIsOwn(r) ==
  r \notin shared =>
    /\ HasFile(r) => \A q \in Requests \ {r} : ~HasFile(q)
    /\ stage[r] = "half" => file[1] = r
    /\ stage[r] \in {"saved", "sending"} => file = Image(r)
    /\ stage[r] = "sending" => image[r][1] = r
    /\ stage[r] = "answered" => image[r] = Image(r)

\* Only the web application has a file.
NoFile == app = "tpu" => shared = {} /\ \A r \in Requests : stage[r] # "generated" /\ ~HasFile(r)

GridInOrder ==
  grid # <<>> => \A i \in 0..(2 * Cols - 1) : grid[<<i % Cols, i \div Cols>>] = Image(i + 1)

PictureInv ==
  /\ TypeOK /\ BatchOK /\ NoFile /\ GridInOrder /\ OnlyFaultsFail
  /\ \A r \in Requests : FileIsOwn(r)

LEMMA InitPictureInv == Init => PictureInv
<1> SUFFICES ASSUME Init PROVE PictureInv
  OBVIOUS
<1>1. /\ app \in Apps /\ up = FALSE /\ stage = [r \in Requests |-> "new"]
      /\ queue = <<>> /\ members = <<>> /\ prompts = <<>> /\ grid = <<>>
      /\ image = [r \in Requests |-> <<0, 0>>] /\ file = <<0, 0>> /\ faulty = {} /\ shared = {}
  BY DEF Init, Blank
<1>2. BatchSize \in Nat
  BY ImageAssumption
<1>3. TypeOK
  <2>1. <<>> \in Seq(Requests) /\ <<>> \in Seq(Requests \cup {0}) /\ Len(<<>>) <= BatchSize
    BY <1>2
  <2>2. <<0, 0>> \in (Requests \cup {0}) \X (Requests \cup {0})
    OBVIOUS
  <2>3. image \in [Requests -> (Requests \cup {0}) \X (Requests \cup {0})]
    BY <1>1, <2>2
  <2>4. stage \in [Requests -> Stages]
    BY <1>1 DEF Stages
  <2> QED
    BY <1>1, <2>1, <2>2, <2>3, <2>4 DEF TypeOK
<1>4. BatchOK /\ NoFile /\ GridInOrder /\ OnlyFaultsFail
  BY <1>1 DEF BatchOK, NoFile, GridInOrder, OnlyFaultsFail, HasFile
<1>5. \A r \in Requests : FileIsOwn(r)
  BY <1>1 DEF FileIsOwn, HasFile
<1> QED
  BY <1>3, <1>4, <1>5 DEF PictureInv

\* A step that does not touch images or files.
LEMMA QuietStep ==
  ASSUME PictureInv, UNCHANGED <<app, image, file, grid, shared>>, TypeOK', BatchOK', OnlyFaultsFail',
         \A r \in Requests : stage'[r] = stage[r] \/ stage'[r] \in {"sent", "queued", "failed"}
  PROVE  PictureInv'
<1>1. NoFile /\ GridInOrder /\ Requests' = Requests /\ \A r \in Requests : FileIsOwn(r)
  BY DEF PictureInv, Requests
<1>2. \A r \in Requests : HasFile(r)' => HasFile(r) /\ stage'[r] = stage[r]
  BY DEF HasFile
<1>3. NoFile'
  BY <1>1, <1>2 DEF NoFile
<1>4. GridInOrder'
  BY <1>1 DEF GridInOrder
<1>5. ASSUME NEW r \in Requests PROVE FileIsOwn(r)'
  BY <1>1, <1>2, <1>5 DEF FileIsOwn
<1> QED
  BY <1>1, <1>3, <1>4, <1>5 DEF PictureInv

\* The steps of one request outside of the model and the file.
LEMMA RequestPictureInv ==
  ASSUME PictureInv, NEW r \in Requests, NEW s \in {"sent", "queued", "failed"}, Goto(r, s),
         UNCHANGED <<app, members, prompts, image, file, grid, shared>>, up' \in BOOLEAN,
         queue' \in Seq(Requests), faulty \subseteq faulty', faulty' \subseteq Requests,
         s = "failed" => r \in faulty' \/ EmptyPrompt(r)
  PROVE  PictureInv'
<1>1. TypeOK /\ BatchOK /\ OnlyFaultsFail /\ Requests' = Requests
  BY DEF PictureInv, Requests
<1>2. stage' = [stage EXCEPT ![r] = s] /\ stage \in [Requests -> Stages]
  BY <1>1 DEF Goto, TypeOK
<1>3. TypeOK'
  <2>1. stage' \in [Requests -> Stages]
    BY <1>2 DEF Stages
  <2> QED
    BY <1>1, <2>1 DEF TypeOK
<1>4. BatchOK'
  BY <1>1 DEF BatchOK
<1>5. OnlyFaultsFail'
  BY <1>1, <1>2 DEF OnlyFaultsFail, EmptyPrompt
<1>6. \A q \in Requests : stage'[q] = stage[q] \/ stage'[q] \in {"sent", "queued", "failed"}
  BY <1>2
<1> QED
  BY <1>3, <1>4, <1>5, <1>6, QuietStep

LEMMA BeforeTheModel ==
  ASSUME PictureInv, NEW r \in Requests,
         Client(r) \/ TpuIngress(r) \/ GpuIngress(r) \/ WebappIngress(r)
  PROVE  PictureInv'
<1>1. up \in BOOLEAN /\ queue \in Seq(Requests) /\ faulty \subseteq Requests
  BY DEF PictureInv, TypeOK
<1>2. CASE Client(r)
  <2>1. Sent(r)
    BY <1>2 DEF Client, TpuSend, GpuSend, WebappSend
  <2> QED
    BY <1>1, <2>1, RequestPictureInv DEF Sent, model, result
<1>3. ASSUME Enqueue(r) PROVE PictureInv'
  <2>1. Append(queue, r) \in Seq(Requests)
    BY <1>1
  <2> QED
    BY <1>1, <1>3, <2>1, RequestPictureInv DEF Enqueue, result
<1>4. ASSUME Refuse(r), faulty \subseteq faulty', faulty' \subseteq Requests,
             r \in faulty' \/ EmptyPrompt(r)
      PROVE  PictureInv'
  BY <1>1, <1>4, RequestPictureInv DEF Refuse, model, result
<1>5. CASE TpuIngress(r)
  BY <1>1, <1>3, <1>4, <1>5 DEF TpuIngress
<1>6. CASE GpuIngress(r)
  BY <1>1, <1>3, <1>4, <1>6 DEF GpuIngress
<1>7. CASE WebappIngress(r)
  BY <1>1, <1>3, <1>4, <1>7 DEF WebappIngress
<1> QED
  BY <1>2, <1>5, <1>6, <1>7

LEMMA SetupPictureInv == ASSUME PictureInv, Setup PROVE PictureInv'
<1>1. up' = TRUE /\ UNCHANGED <<app, stage, queue, members, prompts, image, file, grid, shared, faulty>>
  BY DEF Setup, TpuSetup, GpuSetup, WebappSetup, Loaded, model, result
<1>2. TypeOK' /\ BatchOK' /\ OnlyFaultsFail'
  BY <1>1 DEF PictureInv, TypeOK, BatchOK, OnlyFaultsFail, Requests, EmptyPrompt
<1> QED
  BY <1>1, <1>2, QuietStep

\* The prompts of the members come first, whatever is filled up behind them.
LEMMA PaddedPrompts ==
  ASSUME NEW S, NEW q \in Seq(S), NEW n \in 0..Len(q), NEW k \in Nat,
         NEW p, p = [i \in 1..0 |-> 0] \o SubSeq(q, 1, n) \o [i \in 1..k |-> 0]
  PROVE  /\ SubSeq(q, 1, n) \in Seq(S) /\ Len(SubSeq(q, 1, n)) = n
         /\ p \in Seq(S \cup {0}) /\ Len(p) = n + k
         /\ \A i \in 1..n : p[i] = SubSeq(q, 1, n)[i]
<1> DEFINE b == SubSeq(q, 1, n)
           z == [i \in 1..k |-> 0]
<1>1. b \in Seq(S) /\ Len(b) = n
  OBVIOUS
<1>2. z \in Seq(S \cup {0}) /\ Len(z) = k
  OBVIOUS
<1>3. [i \in 1..0 |-> 0] = <<>>
  OBVIOUS
<1> HIDE DEF b, z
<1>4. b \in Seq(S \cup {0})
  BY <1>1
<1>5. <<>> \o b = b
  BY <1>4
<1>6. p = b \o z
  BY <1>3, <1>5 DEF b, z
<1>7. p \in Seq(S \cup {0}) /\ Len(p) = n + k /\ \A i \in 1..n : p[i] = b[i]
  <2>1. b \o z \in Seq(S \cup {0})
    BY <1>2, <1>4
  <2>2. /\ Len(b \o z) = Len(b) + Len(z)
        /\ \A i \in 1..(Len(b) + Len(z)) :
             (b \o z)[i] = IF i <= Len(b) THEN b[i] ELSE z[i - Len(b)]
    BY <1>2, <1>4, ConcatProperties, Zenon
  <2>4. n \in Nat /\ k \in Nat /\ Len(b) = n /\ Len(z) = k
    BY <1>1, <1>2
  <2>3. \A i \in 1..n : (b \o z)[i] = b[i]
    BY <2>2, <2>4
  <2> QED
    BY <1>6, <2>1, <2>2, <2>3, <2>4
<1> QED
  BY <1>1, <1>7 DEF b

LEMMA TakeBatchPictureInv == ASSUME PictureInv, TakeBatch PROVE PictureInv'
<1> DEFINE n == Ready
           k == Padding(Ready)
<1>1. /\ members = <<>> /\ queue # <<>>
      /\ members' = SubSeq(queue, 1, n) /\ queue' = SubSeq(queue, n + 1, Len(queue))
      /\ prompts' = [i \in 1..0 |-> 0] \o members' \o [i \in 1..k |-> 0]
      /\ UNCHANGED <<app, up, stage, image, file, grid, shared, faulty>>
  BY DEF TakeBatch, Take, result
<1>2. TypeOK /\ OnlyFaultsFail /\ Requests' = Requests
  BY <1>1 DEF PictureInv, Requests
<1>3. BatchSize \in Nat \ {0} /\ queue \in Seq(Requests) /\ Len(queue) \in Nat
  BY <1>2, ImageAssumption DEF TypeOK
<1>4. n \in 0..Len(queue) /\ n <= BatchSize /\ k \in Nat /\ (app = "tpu" => n + k = BatchSize)
  <2>1. Limit \in 1..BatchSize /\ (app = "tpu" => Limit = BatchSize)
    BY <1>3 DEF Limit
  <2>2. n \in 0..Len(queue) /\ n <= Limit
    BY <1>3, <2>1 DEF Ready
  <2>3. k = IF app = "tpu" THEN BatchSize - n ELSE 0
    BY DEF Padding
  <2> HIDE DEF n, k
  <2> QED
    BY <1>3, <2>1, <2>2, <2>3
<1> HIDE DEF n, k
<1>5. /\ members' \in Seq(Requests) /\ Len(members') = n
      /\ prompts' \in Seq(Requests \cup {0}) /\ Len(prompts') = n + k
      /\ \A i \in 1..n : prompts'[i] = members'[i]
  BY <1>1, <1>3, <1>4, PaddedPrompts
<1>6. queue' \in Seq(Requests)
  BY <1>1, <1>3, <1>4
<1>7. TypeOK'
  BY <1>1, <1>2, <1>4, <1>5, <1>6 DEF TypeOK
<1>8. BatchOK'
  BY <1>1, <1>4, <1>5 DEF BatchOK
<1>9. OnlyFaultsFail'
  BY <1>1, <1>2 DEF OnlyFaultsFail, EmptyPrompt
<1> QED
  BY <1>1, <1>7, <1>8, <1>9, QuietStep

\* Whoever is a member of the batch gets the image of the own prompt.
LEMMA GeneratePictureInv ==
  ASSUME PictureInv, NEW next \in {"answered", "generated"}, Generate(next),
         next = "generated" => app = "webapp"
  PROVE  PictureInv'
<1>1. /\ members' = <<>> /\ prompts' = <<>>
      /\ UNCHANGED <<app, up, queue, file, grid, faulty, shared>>
      /\ stage' = [r \in Requests |-> IF r \in Members THEN next ELSE stage[r]]
  BY DEF Generate, FreeModel
<1>2. /\ TypeOK /\ BatchOK /\ NoFile /\ GridInOrder /\ OnlyFaultsFail /\ Requests' = Requests
      /\ \A r \in Requests : FileIsOwn(r)
  BY <1>1 DEF PictureInv, Requests
<1>3. \A r \in Requests : image'[r] = IF r \in Members THEN Image(r) ELSE image[r]
  <2> SUFFICES ASSUME NEW r \in Requests
               PROVE  image'[r] = IF r \in Members THEN Image(r) ELSE image[r]
    OBVIOUS
  <2> DEFINE i == CHOOSE j \in 1..Len(members) : members[j] = r
  <2>1. image'[r] = IF r \in Members THEN Image(prompts[i]) ELSE image[r]
    BY DEF Generate
  <2>2. CASE r \in Members
    <3>1. i \in 1..Len(members) /\ members[i] = r
      BY <2>2 DEF Members
    <3> QED
      BY <1>2, <2>1, <2>2, <3>1 DEF BatchOK
  <2>3. CASE r \notin Members
    BY <2>1, <2>3
  <2> QED
    BY <2>2, <2>3
<1>4. TypeOK'
  <2>1. image' = [r \in Requests |-> image'[r]]
    BY DEF Generate
  <2>2. \A r \in Requests : image'[r] \in (Requests \cup {0}) \X (Requests \cup {0})
    <3>1. ASSUME NEW r \in Requests PROVE image'[r] = image[r] \/ image'[r] = <<r, r>>
      BY <1>3, <3>1 DEF Image
    <3>2. \A r \in Requests : /\ <<r, r>> \in (Requests \cup {0}) \X (Requests \cup {0})
                            /\ image[r] \in (Requests \cup {0}) \X (Requests \cup {0})
      BY <1>2 DEF TypeOK
    <3> QED
      BY <3>1, <3>2
  <2>3. image' \in [Requests -> (Requests \cup {0}) \X (Requests \cup {0})]
    BY <2>1, <2>2
  <2>4. stage' \in [Requests -> Stages]
    BY <1>1, <1>2 DEF TypeOK, Stages
  <2>5. BatchSize \in Nat
    BY ImageAssumption
  <2> QED
    BY <1>1, <1>2, <2>3, <2>4, <2>5 DEF TypeOK
<1>5. BatchOK' /\ GridInOrder'
  BY <1>1, <1>2 DEF BatchOK, GridInOrder
<1>6. OnlyFaultsFail'
  BY <1>1, <1>2 DEF OnlyFaultsFail, EmptyPrompt
<1>7. \A r \in Requests : HasFile(r)' => HasFile(r) /\ r \notin Members /\ stage'[r] = stage[r]
  BY <1>1 DEF HasFile
<1>8. NoFile'
  BY <1>1, <1>2, <1>7 DEF NoFile
<1>9. ASSUME NEW r \in Requests PROVE FileIsOwn(r)'
  <2>1. CASE r \in Members
    BY <1>1, <1>3, <2>1 DEF FileIsOwn, HasFile, Image
  <2>2. CASE r \notin Members
    <3>1. stage'[r] = stage[r] /\ image'[r] = image[r]
      BY <1>1, <1>3, <2>2
    <3> QED
      BY <1>1, <1>2, <1>7, <3>1 DEF FileIsOwn, Image
  <2> QED
    BY <2>1, <2>2
<1> QED
  BY <1>2, <1>4, <1>5, <1>6, <1>8, <1>9 DEF PictureInv

LEMMA GenerateFailsPictureInv == ASSUME PictureInv, GenerateFails PROVE PictureInv'
<1>1. /\ members # <<>> /\ members' = <<>> /\ prompts' = <<>>
      /\ stage' = [r \in Requests |-> IF r \in Members THEN "failed" ELSE stage[r]]
      /\ faulty' = IF Shardable THEN faulty \cup Members ELSE faulty
      /\ UNCHANGED <<app, up, queue, image, file, grid, shared>>
  BY DEF GenerateFails, FreeModel, result
<1>2. TypeOK /\ BatchOK /\ OnlyFaultsFail /\ Requests' = Requests
  BY <1>1 DEF PictureInv, Requests
<1>3. Shardable
  BY <1>1, <1>2, ImageAssumption DEF Shardable, BatchOK
<1>4. Members \subseteq Requests
  BY <1>2 DEF Members, TypeOK
<1>5. TypeOK'
  <2>1. stage' \in [Requests -> Stages]
    BY <1>1, <1>2 DEF TypeOK, Stages
  <2>2. BatchSize \in Nat
    BY ImageAssumption
  <2> QED
    BY <1>1, <1>2, <1>3, <1>4, <2>1, <2>2 DEF TypeOK
<1>6. BatchOK'
  BY <1>1 DEF BatchOK
<1>7. OnlyFaultsFail'
  BY <1>1, <1>2, <1>3 DEF OnlyFaultsFail, EmptyPrompt
<1>8. \A r \in Requests : stage'[r] = stage[r] \/ stage'[r] \in {"sent", "queued", "failed"}
  BY <1>1
<1> QED
  BY <1>1, <1>5, <1>6, <1>7, <1>8, QuietStep

\* A step of the web application for r, from the file to the answer.
LEMMA FilePictureInv ==
  ASSUME PictureInv, NEW r \in Requests, HasFile(r) \/ stage[r] = "generated",
         NEW s \in {"truncated", "half", "saved", "sending", "answered"}, Goto(r, s),
         UNCHANGED <<app, up, queue, members, prompts, grid, faulty>>,
         image' \in [Requests -> (Requests \cup {0}) \X (Requests \cup {0})],
         file' \in (Requests \cup {0}) \X (Requests \cup {0}),
         \A q \in Requests \ {r} : image'[q] = image[q],
         shared \subseteq shared', shared' \subseteq Requests,
         s = "truncated" => \A q \in Requests \ {r} : HasFile(q) => {q, r} \subseteq shared',
         s # "truncated" => HasFile(r),
         r \notin shared' =>
           /\ s = "half" => file'[1] = r
           /\ s \in {"saved", "sending"} => file' = Image(r)
           /\ s = "sending" => image'[r][1] = r
           /\ s = "answered" => image'[r] = Image(r)
  PROVE  PictureInv'
<1>1. /\ TypeOK /\ BatchOK /\ NoFile /\ GridInOrder /\ OnlyFaultsFail /\ Requests' = Requests
      /\ \A q \in Requests : FileIsOwn(q)
  BY DEF PictureInv, Requests
<1>2. stage \in [Requests -> Stages] /\ stage' = [stage EXCEPT ![r] = s]
  BY <1>1 DEF TypeOK, Goto
<1>3. stage'[r] = s /\ \A q \in Requests \ {r} : stage'[q] = stage[q]
  BY <1>2
<1>4. TypeOK'
  <2>1. stage' \in [Requests -> Stages]
    BY <1>2 DEF Stages
  <2> QED
    BY <1>1, <2>1 DEF TypeOK
<1>5. BatchOK' /\ GridInOrder'
  BY <1>1 DEF BatchOK, GridInOrder
<1>6. app # "tpu" /\ NoFile'
  BY <1>1 DEF NoFile
<1>7. OnlyFaultsFail'
  BY <1>1, <1>3 DEF OnlyFaultsFail, EmptyPrompt
<1>8. \A q \in Requests \ {r} : HasFile(q)' <=> HasFile(q)
  BY <1>3 DEF HasFile
<1>9. FileIsOwn(r)'
  <2> SUFFICES ASSUME r \notin shared'
               PROVE  HasFile(r)' => \A q \in Requests \ {r} : ~HasFile(q)
    BY <1>1, <1>3, <1>8 DEF FileIsOwn, Image
  <2>1. CASE s = "truncated"
    BY <2>1
  <2>2. CASE s # "truncated"
    BY <1>1, <2>2 DEF FileIsOwn
  <2> QED
    BY <2>1, <2>2
<1>10. ASSUME NEW q \in Requests \ {r} PROVE FileIsOwn(q)'
  <2> SUFFICES ASSUME q \notin shared' PROVE FileIsOwn(q)'
    BY DEF FileIsOwn
  <2>1. FileIsOwn(q) /\ q \notin shared
    BY <1>1
  <2>2. ~HasFile(q)
    <3>1. CASE s = "truncated"
      BY <3>1
    <3>2. CASE s # "truncated"
      BY <2>1, <3>2 DEF FileIsOwn
    <3> QED
      BY <3>1, <3>2
  <2>3. stage'[q] = stage[q] /\ image'[q] = image[q] /\ ~HasFile(q)'
    BY <1>3, <1>8, <2>2
  <2> QED
    BY <2>1, <2>2, <2>3 DEF FileIsOwn, HasFile, Image
<1> QED
  BY <1>1, <1>4, <1>5, <1>6, <1>7, <1>9, <1>10 DEF PictureInv

LEMMA TruncatePictureInv == ASSUME PictureInv, NEW r \in Requests, Truncate(r) PROVE PictureInv'
<1>1. /\ stage[r] = "generated" /\ Goto(r, "truncated") /\ file' = <<0, 0>>
      /\ UNCHANGED <<app, up, queue, members, prompts, image, grid, faulty>>
  BY DEF Truncate, Blank, model
<1>2. TypeOK
  BY DEF PictureInv
<1> DEFINE others == {q \in Requests \ {r} : HasFile(q)}
<1>3. shared' = IF others = {} THEN shared ELSE shared \cup others \cup {r}
  BY DEF Truncate
<1>4. /\ shared \subseteq shared' /\ shared' \subseteq Requests
      /\ \A q \in Requests \ {r} : HasFile(q) => {q, r} \subseteq shared'
  BY <1>2, <1>3 DEF TypeOK
<1>5. /\ image' \in [Requests -> (Requests \cup {0}) \X (Requests \cup {0})]
      /\ file' \in (Requests \cup {0}) \X (Requests \cup {0})
  BY <1>1, <1>2 DEF TypeOK
<1> QED
  BY <1>1, <1>4, <1>5, FilePictureInv

LEMMA WriteHalfPictureInv == ASSUME PictureInv, NEW r \in Requests, WriteHalf(r) PROVE PictureInv'
<1>1. /\ stage[r] \in {"truncated", "half"} /\ HasFile(r)
      /\ UNCHANGED <<app, up, queue, members, prompts, image, grid, faulty, shared>>
  BY DEF WriteHalf, model, HasFile
<1>2. TypeOK /\ FileIsOwn(r)
  BY DEF PictureInv
<1>3. /\ image \in [Requests -> (Requests \cup {0}) \X (Requests \cup {0})]
      /\ file \in (Requests \cup {0}) \X (Requests \cup {0}) /\ shared \subseteq Requests
  BY <1>2 DEF TypeOK
<1>4. PICK a \in Requests \cup {0}, b \in Requests \cup {0} : file = <<a, b>>
  BY <1>3
<1>5. CASE stage[r] = "truncated"
  <2>1. Goto(r, "half") /\ file' = [file EXCEPT ![1] = r]
    BY <1>5 DEF WriteHalf
  <2>2. file' = <<r, b>>
    BY <1>4, <2>1
  <2> QED
    BY <1>1, <1>3, <2>1, <2>2, FilePictureInv
<1>6. CASE stage[r] = "half"
  <2>1. Goto(r, "saved") /\ file' = [file EXCEPT ![2] = r]
    BY <1>6 DEF WriteHalf
  <2>2. file' = <<a, r>>
    BY <1>4, <2>1
  <2>3. r \notin shared => file' = Image(r)
    BY <1>2, <1>4, <1>6, <2>2 DEF FileIsOwn, Image
  <2> QED
    BY <1>1, <1>3, <2>1, <2>2, <2>3, FilePictureInv
<1> QED
  BY <1>1, <1>5, <1>6

LEMMA SendHalfPictureInv == ASSUME PictureInv, NEW r \in Requests, SendHalf(r) PROVE PictureInv'
<1>1. /\ stage[r] \in {"saved", "sending"} /\ HasFile(r)
      /\ UNCHANGED <<app, up, queue, members, prompts, file, grid, faulty, shared>>
  BY DEF SendHalf, model, HasFile
<1>2. TypeOK /\ FileIsOwn(r)
  BY DEF PictureInv
<1>3. /\ image \in [Requests -> (Requests \cup {0}) \X (Requests \cup {0})]
      /\ file \in (Requests \cup {0}) \X (Requests \cup {0}) /\ shared \subseteq Requests
  BY <1>2 DEF TypeOK
<1>4. PICK a \in Requests \cup {0}, b \in Requests \cup {0} : file = <<a, b>>
  BY <1>3
<1>5. CASE stage[r] = "saved"
  <2>1. Goto(r, "sending") /\ image' = [image EXCEPT ![r] = <<a, 0>>]
    BY <1>4, <1>5 DEF SendHalf
  <2>2. /\ image' \in [Requests -> (Requests \cup {0}) \X (Requests \cup {0})]
        /\ image'[r] = <<a, 0>> /\ \A q \in Requests \ {r} : image'[q] = image[q]
    BY <1>3, <2>1
  <2>3. r \notin shared => file = Image(r) /\ a = r
    BY <1>2, <1>4, <1>5 DEF FileIsOwn, Image
  <2>4. r \notin shared => image'[r][1] = r
    BY <2>2, <2>3
  <2> QED
    BY <1>1, <1>3, <2>1, <2>2, <2>3, <2>4, FilePictureInv
<1>6. CASE stage[r] = "sending"
  <2>1. Goto(r, "answered") /\ image' = [image EXCEPT ![r][2] = b]
    BY <1>4, <1>6 DEF SendHalf
  <2>2. PICK c \in Requests \cup {0}, d \in Requests \cup {0} : image[r] = <<c, d>>
    BY <1>3
  <2>3. image' = [image EXCEPT ![r] = <<c, b>>]
    <3>1. image' = [image EXCEPT ![r] = [image[r] EXCEPT ![2] = b]]
      BY <2>1
    <3>2. [<<c, d>> EXCEPT ![2] = b] = <<c, b>>
      OBVIOUS
    <3> QED
      BY <2>2, <3>1, <3>2
  <2>4. /\ image' \in [Requests -> (Requests \cup {0}) \X (Requests \cup {0})]
        /\ image'[r] = <<c, b>> /\ \A q \in Requests \ {r} : image'[q] = image[q]
    BY <1>3, <2>3
  <2>5. r \notin shared => image'[r] = Image(r)
    BY <1>2, <1>4, <1>6, <2>2, <2>4 DEF FileIsOwn, Image
  <2> QED
    BY <1>1, <1>3, <2>1, <2>4, <2>5, FilePictureInv
<1> QED
  BY <1>1, <1>5, <1>6

LEMMA DivMod ==
  ASSUME NEW c \in Int, c > 0, NEW x \in Int
  PROVE  x = c * (x \div c) + (x % c)
OBVIOUS

\* A number is known by its remainder and its quotient.
LEMMA OneInEachCell ==
  ASSUME NEW c \in Nat \ {0}, NEW i \in Nat, NEW j \in Nat,
         i % c = j % c, i \div c = j \div c
  PROVE  i = j
<1>1. c \in Int /\ c > 0 /\ i \in Int /\ j \in Int
  OBVIOUS
<1>2. i = c * (i \div c) + (i % c) /\ j = c * (j \div c) + (j % c)
  BY <1>1, DivMod, Zenon
<1>3. i = c * (j \div c) + (j % c)
  BY <1>2, Zenon
<1> QED
  BY <1>2, <1>3, Zenon

LEMMA CellInGrid ==
  ASSUME NEW c \in Nat \ {0}, NEW i \in 0..(2 * c - 1)
  PROVE  i % c \in 0..(c - 1) /\ i \div c \in 0..1
<1>1. i % c \in 0..(c - 1)
  OBVIOUS
<1>2. CASE i < c
  <2>1. i \div c = 0
    BY <1>2
  <2> QED
    BY <1>1, <2>1
<1>3. CASE i >= c
  <2>1. i \div c = 1
    BY <1>3
  <2> QED
    BY <1>1, <2>1
<1> QED
  BY <1>2, <1>3

LEMMA SaveGridPictureInv == ASSUME PictureInv, SaveGrid PROVE PictureInv'
<1>1. /\ app = "tpu" /\ Cols > 0 /\ \A r \in Requests : stage[r] = "answered"
      /\ grid' = [cell \in (0..(Cols - 1)) \X (0..1) |->
                   image[CHOOSE r \in Requests : CellOf(r - 1) = cell]]
      /\ UNCHANGED <<app, up, stage, queue, members, prompts, image, file, faulty, shared>>
  BY DEF SaveGrid, model
<1>2. /\ TypeOK /\ BatchOK /\ NoFile /\ OnlyFaultsFail /\ Requests' = Requests
      /\ \A q \in Requests : FileIsOwn(q)
  BY <1>1 DEF PictureInv, Requests
<1>3. \A r \in Requests : image[r] = Image(r)
  BY <1>1, <1>2 DEF NoFile, FileIsOwn
<1>4. Cols \in Nat \ {0} /\ Requests = 1..NumRequests["tpu"] /\ 2 * Cols <= NumRequests["tpu"]
  <2>1. NumRequests["tpu"] \in Nat
    BY ImageAssumption DEF Apps
  <2> QED
    BY <1>1, <2>1 DEF Cols, Requests
<1>5. ASSUME NEW i \in 0..(2 * Cols - 1)
      PROVE  grid'[<<i % Cols, i \div Cols>>] = Image(i + 1)
  <2> DEFINE cell == <<i % Cols, i \div Cols>>
             q == CHOOSE r \in Requests : CellOf(r - 1) = cell
  <2>1. cell \in (0..(Cols - 1)) \X (0..1)
    BY <1>4, CellInGrid
  <2>2. i + 1 \in Requests /\ CellOf((i + 1) - 1) = cell
    <3>1. i + 1 \in Requests /\ (i + 1) - 1 = i
      <4>1. i \in Int /\ 0 <= i /\ i < 2 * Cols
        BY <1>4
      <4>2. NumRequests["tpu"] \in Int /\ Cols \in Int
        BY <1>4, ImageAssumption DEF Apps
      <4>3. i + 1 \in 1..NumRequests["tpu"]
        BY <1>4, <4>1, <4>2
      <4> QED
        BY <1>4, <4>1, <4>3
    <3> QED
      BY <3>1 DEF CellOf
  <2>3. q \in Requests /\ CellOf(q - 1) = cell
    BY <2>2
  <2> HIDE DEF q
  <2>4. (q - 1) % Cols = i % Cols /\ (q - 1) \div Cols = i \div Cols
    BY <2>3 DEF CellOf
  <2>5. q - 1 \in Nat /\ i \in Nat
    BY <1>4, <2>3
  <2>6. q - 1 = i
    BY <1>4, <2>4, <2>5, OneInEachCell
  <2>7. grid'[cell] = image[q]
    BY <1>1, <2>1 DEF q
  <2>8. q = i + 1
    <3>1. q \in Int
      BY <1>4, <2>3
    <3> QED
      BY <2>5, <2>6, <3>1
  <2>9. grid'[cell] = Image(q)
    BY <1>3, <2>3, <2>7
  <2> QED
    BY <2>8, <2>9
<1>6. GridInOrder'
  <2>1. Cols' = Cols
    BY DEF Cols
  <2> QED
    BY <1>5, <2>1 DEF GridInOrder, Image
<1>7. TypeOK' /\ BatchOK' /\ NoFile' /\ OnlyFaultsFail'
  BY <1>1, <1>2 DEF TypeOK, BatchOK, NoFile, OnlyFaultsFail, HasFile, EmptyPrompt
<1>8. \A q \in Requests : FileIsOwn(q)'
  BY <1>1, <1>2 DEF FileIsOwn, HasFile
<1> QED
  BY <1>2, <1>6, <1>7, <1>8 DEF PictureInv

LEMMA NextPictureInv == ASSUME PictureInv, [Next]_vars PROVE PictureInv'
<1>1. CASE UNCHANGED vars
  <2>1. TypeOK' /\ BatchOK' /\ OnlyFaultsFail'
    BY <1>1 DEF PictureInv, TypeOK, BatchOK, OnlyFaultsFail, Requests, EmptyPrompt, vars
  <2> QED
    BY <1>1, <2>1, QuietStep DEF vars
<1>2. CASE Setup
  BY <1>2, SetupPictureInv
<1>3. CASE Model
  BY <1>3, TakeBatchPictureInv, GeneratePictureInv
     DEF Model, TpuGenerate, GpuGenerate, WebappGenerate
<1>4. CASE GenerateFails
  BY <1>4, GenerateFailsPictureInv
<1>5. CASE SaveGrid
  BY <1>5, SaveGridPictureInv
<1>6. ASSUME NEW r \in Requests, Client(r) \/ Server(r) PROVE PictureInv'
  BY <1>6, BeforeTheModel, TruncatePictureInv, WriteHalfPictureInv, SendHalfPictureInv DEF Server
<1> QED
  BY <1>1, <1>2, <1>3, <1>4, <1>5, <1>6 DEF Next

LEMMA ServingPictureInv == ServingSpec => []PictureInv
<1>1. ServingInit => PictureInv
  BY InitPictureInv DEF ServingInit
<1>2. PictureInv /\ [ServingNext]_servingVars => PictureInv'
  BY NextPictureInv DEF ServingNext, servingVars
<1> QED
  BY <1>1, <1>2, PTL DEF ServingSpec

\* Everybody gets the image of the own prompt, in batches of any size and however they are
\* filled up; in the web application everybody who had the file for themselves.
THEOREM EveryoneHasTheirImage == ServingSpec => []OwnImage
<1>1. PictureInv => OwnImage
  BY DEF PictureInv, GridInOrder, FileIsOwn, OwnImage
<1> QED
  BY <1>1, ServingPictureInv, PTL

\* A request fails only if it was wrong, if the model, the engine or the server failed, or if it
\* asks a router of the text servers for a stream; never because of how many others there are.
\* What is wrong about a request to a text server always shows.
THEOREM OnlyTheGuiltyFail == ServingSpec => []FailuresHaveCauses
<1>1. PictureInv /\ TextInv => FailuresHaveCauses
  BY DEF PictureInv, TextInv, CallOK, FailedForACause, FailuresHaveCauses, FailedCallsHaveCauses
<1> QED
  BY <1>1, ServingPictureInv, ServingTextInv, PTL

=============================================================================
