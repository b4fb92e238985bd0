----------------------- MODULE MetricsExporterProofs -----------------------
(***************************************************************************)
(* Proofs about MetricsExporter, for any number of runs that may overlap,  *)
(* days, namespaces, containers and metrics, and failures at every call.   *)
(***************************************************************************)
EXTENDS MetricsExporter, SumTheorems, TLAPS

\* RowsOf with the date as a parameter.
RowSet(day, e, n, m) ==
  {[run |-> e, day |-> day, metric |-> m, container |-> c, named |-> Filled(m)] :
     c \in {d \in Containers : NamespaceOf[d] = n /\ HasSeries(e, d, m)}}

\* r is a row that run e, dated day, is to export.
IsRowOf(r, e, day) ==
  /\ NamespaceOf[r.container] \in Monitored
  /\ \E i \in 1..Len(MetricNames) : MetricNames[i] = r.metric
  /\ r \in RowSet(day, e, NamespaceOf[r.container], r.metric)

\* The stages in which run e copies the metric metric[e] of namespace[e], those in which
\* rows[e] are the rows of that metric, and those after the listing.
Copying(e) == stage[e] \in {"query", "create", "send", "finalize", "commit", "log"}
Holding(e) == stage[e] \in {"create", "send", "finalize", "commit", "log"}
Begun(e)   == stage[e] \notin {"idle", "connect", "list"}

\* Metric i of namespace[e] has been copied.
Copied(e, i) == i < metric[e] \/ (stage[e] = "log" /\ i = metric[e])

\* A run holds rows of its metric and namespace, and no others.
RowsAreOfTheMetric ==
  \A e \in Runs :
    /\ rows[e] \subseteq RowSet(startDay[e], e, namespace[e], MetricNames[metric[e]])
    /\ ~Holding(e) => rows[e] = {}
    /\ stream[e] = {} \/ stream[e] = rows[e]

\* What is in the table is of a run that has begun, dated with its start, of a namespace
\* that the run has begun and of a metric that it has copied.
TableIsOfTheRuns ==
  \A r \in table :
    /\ Begun(r.run)
    /\ r.day = startDay[r.run] /\ r.named = Filled(r.metric)
    /\ IsRowOf(r, r.run, startDay[r.run])
    /\ NamespaceOf[r.container] \notin todo[r.run]
    /\ Copying(r.run) /\ NamespaceOf[r.container] = namespace[r.run] =>
         \E i \in 1..Len(MetricNames) : MetricNames[i] = r.metric /\ Copied(r.run, i)

\* The namespace that is being copied is not begun again, and none is left in the end; the
\* excluded ones never come.
NamespaceIsBegun ==
  \A e \in Runs :
    /\ todo[e] \subseteq Monitored
    /\ Copying(e) => namespace[e] \in Monitored \ todo[e]
    /\ stage[e] = "done" => todo[e] = {}

\* A run holds all rows of the metric but for those that a failed call has lost, ...
HoldsAll(e) ==
  /\ Holding(e) =>
       RowSet(startDay[e], e, namespace[e], MetricNames[metric[e]]) \subseteq rows[e] \cup missed
  /\ stage[e] \in {"finalize", "commit"} => rows[e] \subseteq stream[e] \cup missed
  /\ stage[e] = "log" => rows[e] \subseteq table \cup missed

\* ... and so has exported the rows of the metrics that it has copied.
ExportedAll(e) ==
  Begun(e) =>
    \A n \in Monitored \ todo[e] : \A i \in 1..Len(MetricNames) :
      (Copying(e) /\ n = namespace[e] => Copied(e, i)) =>
        RowSet(startDay[e], e, n, MetricNames[i]) \subseteq table \cup missed

NothingIsMissed ==
  \A e \in Runs : stage[e] # "crashed" => HoldsAll(e) /\ ExportedAll(e)

IInv ==
  /\ TypeOK /\ RowsAreOfTheMetric /\ TableIsOfTheRuns /\ NamespaceIsBegun /\ NothingIsMissed

------------------------------------------------------------------------------
LEMMA RowsOfIsRowSet == \A e, n, m : RowsOf(e, n, m) = RowSet(startDay[e], e, n, m)
  BY DEF RowsOf, RowSet

\* get_gke_metrics reads the labels by which config.py groups, for all three kinds.
LEMMA AllFilled == \A m \in AllMetrics : Filled(m) = TRUE
<1> SUFFICES ASSUME NEW m \in AllMetrics PROVE LabelsRead(m) \subseteq Columns(m)
  BY DEF Filled
<1>1. CASE m \in GkeMetrics
  <2>1. m \notin HpaMetrics /\ m \notin VpaMetrics BY <1>1 DEF GkeMetrics, HpaMetrics, VpaMetrics
  <2> QED BY <1>1, <2>1 DEF LabelsRead, Columns
<1>2. CASE m \in HpaMetrics
  <2>1. m \notin GkeMetrics /\ m \notin VpaMetrics BY <1>2 DEF GkeMetrics, HpaMetrics, VpaMetrics
  <2> QED BY <1>2, <2>1 DEF LabelsRead, Columns
<1>3. CASE m \in VpaMetrics
  <2>1. m \notin GkeMetrics /\ m \notin HpaMetrics BY <1>3 DEF GkeMetrics, HpaMetrics, VpaMetrics
  <2> QED BY <1>3, <2>1 DEF LabelsRead, Columns
<1> QED BY <1>1, <1>2, <1>3 DEF AllMetrics

\* The row of a query tells its run, date, metric and namespace.
LEMMA RowSetFacts ==
  ASSUME NEW e \in Runs, NEW day \in Days, NEW n, NEW m \in AllMetrics,
         NEW r \in RowSet(day, e, n, m)
  PROVE  /\ r \in Row
         /\ r.run = e /\ r.day = day /\ r.metric = m /\ r.named = Filled(m)
         /\ NamespaceOf[r.container] = n
<1>1. PICK c \in Containers : /\ NamespaceOf[c] = n
                              /\ r = [run |-> e, day |-> day, metric |-> m, container |-> c,
                                      named |-> Filled(m)]
  BY DEF RowSet
<1>2. Filled(m) \in BOOLEAN BY AllFilled
<1> QED BY <1>1, <1>2 DEF Row

LEMMA MetricNamesFacts ==
  /\ Len(MetricNames) \in Nat \ {0}
  /\ \A i \in 1..Len(MetricNames) : MetricNames[i] \in AllMetrics
<1> USE ExporterAssumption
<1> QED OBVIOUS

\* What run e holds, in the form in which the steps need it.
LEMMA HeldRows ==
  ASSUME TypeOK, RowsAreOfTheMetric, NamespaceIsBegun, NEW e \in Runs, NEW r \in rows[e]
  PROVE  /\ r \in Row /\ IsRowOf(r, e, startDay[e])
         /\ r.run = e /\ r.day = startDay[e] /\ r.metric = MetricNames[metric[e]]
         /\ r.named = Filled(r.metric)
         /\ NamespaceOf[r.container] = namespace[e]
<1>1. r \in RowSet(startDay[e], e, namespace[e], MetricNames[metric[e]])
  BY DEF RowsAreOfTheMetric
<1>2. startDay[e] \in Days /\ MetricNames[metric[e]] \in AllMetrics
  BY MetricNamesFacts DEF TypeOK
<1>3. /\ r \in Row /\ r.run = e /\ r.day = startDay[e] /\ r.metric = MetricNames[metric[e]]
      /\ r.named = Filled(r.metric) /\ NamespaceOf[r.container] = namespace[e]
  BY <1>1, <1>2, RowSetFacts
<1>4. namespace[e] \in Monitored /\ metric[e] \in 1..Len(MetricNames)
  BY DEF TypeOK, RowsAreOfTheMetric, NamespaceIsBegun, Holding, Copying
<1> QED BY <1>1, <1>3, <1>4 DEF IsRowOf

\* What a run is to export of a namespace are rows.
LEMMA AllRowsFacts ==
  ASSUME NEW e \in Runs, startDay[e] \in Days, NEW n
  PROVE  AllRowsOf(e, n) \subseteq Row
<1>1. \A i \in 1..Len(MetricNames) : RowSet(startDay[e], e, n, MetricNames[i]) \subseteq Row
  BY MetricNamesFacts, RowSetFacts
<1> QED BY <1>1, RowsOfIsRowSet DEF AllRowsOf

LEMMA InitIInv == Init => IInv
<1> SUFFICES ASSUME Init PROVE IInv OBVIOUS
<1> USE ExporterAssumption DEF Init
<1>1. TypeOK
  <2>1. 1 \in Days /\ 1 \in 1..Len(MetricNames) BY MetricNamesFacts DEF Days
  <2> QED BY <2>1 DEF TypeOK, Stages, None
<1>2. RowsAreOfTheMetric /\ TableIsOfTheRuns
  BY DEF RowsAreOfTheMetric, TableIsOfTheRuns
<1>3. NamespaceIsBegun BY DEF NamespaceIsBegun, Copying
<1>4. NothingIsMissed BY DEF NothingIsMissed, HoldsAll, ExportedAll, Holding, Begun
<1> QED BY <1>1, <1>2, <1>3, <1>4 DEF IInv

------------------------------------------------------------------------------
\* Everything but the date of today.
LEMMA TodayIInv ==
  ASSUME IInv, today' \in Days,
         UNCHANGED <<stage, runVars, todo, namespace, metric, Data, missed>>
  PROVE  IInv'
<1> USE DEF IInv, runVars, Data
<1>1. TypeOK' BY DEF TypeOK
<1>2. RowsAreOfTheMetric' BY DEF RowsAreOfTheMetric, Holding
<1>3. TableIsOfTheRuns' BY DEF TableIsOfTheRuns, Begun, Copying, Copied
<1>4. NamespaceIsBegun' BY DEF NamespaceIsBegun, Copying
<1>5. NothingIsMissed'
  BY DEF NothingIsMissed, HoldsAll, ExportedAll, Holding, Begun, Copying, Copied
<1> QED BY <1>1, <1>2, <1>3, <1>4, <1>5

\* The rows of a run keep their date: there are none before it starts.
LEMMA StartIInv == ASSUME IInv, NEW e \in Runs, Start(e) PROVE IInv'
<1> USE DEF IInv, Goto, At, Data
<1>1. /\ stage[e] = "idle" /\ stage' = [stage EXCEPT ![e] = "connect"]
      /\ startDay' = [startDay EXCEPT ![e] = today]
      /\ UNCHANGED <<today, clients, todo, namespace, metric, rows, stream, table, missed>>
  BY DEF Start
<1>2. \E p \in {"environment", "metadata", "credentials"} : project' = [project EXCEPT ![e] = p]
  BY DEF Start, ProjectIds
<1>3. /\ stage'[e] = "connect"
      /\ \A h \in Runs : h # e => stage'[h] = stage[h] /\ startDay'[h] = startDay[h]
  BY <1>1 DEF TypeOK
<1>4. TypeOK'
  <2>1. stage' \in [Runs -> Stages] BY <1>1 DEF TypeOK, Stages
  <2>2. project' \in [Runs -> {None, "environment", "metadata", "credentials"}]
    BY <1>2 DEF TypeOK
  <2>3. startDay' \in [Runs -> Days] BY <1>1 DEF TypeOK
  <2> QED BY <1>1, <2>1, <2>2, <2>3 DEF TypeOK
<1>5. RowsAreOfTheMetric' BY <1>1, <1>3 DEF RowsAreOfTheMetric, Holding
<1>6. TableIsOfTheRuns'
  <2>1. \A r \in table : r.run \in Runs /\ r.run # e
    BY <1>1 DEF TableIsOfTheRuns, Begun, TypeOK, Row
  <2> QED BY <1>1, <1>3, <2>1 DEF TableIsOfTheRuns, Begun, Copying, Copied
<1>7. NamespaceIsBegun' BY <1>1, <1>3 DEF NamespaceIsBegun, Copying
<1>8. NothingIsMissed'
  BY <1>1, <1>3 DEF NothingIsMissed, HoldsAll, ExportedAll, Holding, Begun, Copying, Copied
<1> QED BY <1>4, <1>5, <1>6, <1>7, <1>8

\* No rows are held, nor is anything in the table, before the namespaces are known.
LEMMA ConnectIInv == ASSUME IInv, NEW e \in Runs, Connect(e) PROVE IInv'
<1> USE DEF IInv, Goto, At, Data
<1>1. /\ stage[e] = "connect" /\ stage' = [stage EXCEPT ![e] = "list"]
      /\ UNCHANGED <<today, project, startDay, todo, namespace, metric, rows, stream, table, missed>>
  BY DEF Connect
<1>2. \E b \in SUBSET {"client", "bqclient"} : clients' = [clients EXCEPT ![e] = b]
  BY DEF Connect
<1>3. stage'[e] = "list" /\ \A h \in Runs : h # e => stage'[h] = stage[h] BY <1>1 DEF TypeOK
<1>4. TypeOK'
  <2>1. stage' \in [Runs -> Stages] BY <1>1 DEF TypeOK, Stages
  <2>2. clients' \in [Runs -> SUBSET {"client", "bqclient"}] BY <1>2 DEF TypeOK
  <2> QED BY <1>1, <2>1, <2>2 DEF TypeOK
<1>5. RowsAreOfTheMetric' BY <1>1, <1>3 DEF RowsAreOfTheMetric, Holding
<1>6. TableIsOfTheRuns'
  <2>1. \A r \in table : r.run \in Runs /\ r.run # e
    BY <1>1 DEF TableIsOfTheRuns, Begun, TypeOK, Row
  <2> QED BY <1>1, <1>3, <2>1 DEF TableIsOfTheRuns, Begun, Copying, Copied
<1>7. NamespaceIsBegun' BY <1>1, <1>3 DEF NamespaceIsBegun, Copying
<1>8. NothingIsMissed'
  BY <1>1, <1>3 DEF NothingIsMissed, HoldsAll, ExportedAll, Holding, Begun, Copying, Copied
<1> QED BY <1>4, <1>5, <1>6, <1>7, <1>8

LEMMA ListNamespacesIInv == ASSUME IInv, NEW e \in Runs, ListNamespaces(e) PROVE IInv'
<1> USE DEF IInv, Goto, At, Data, runVars
<1>1. PICK found \in SUBSET Monitored :
        /\ todo' = [todo EXCEPT ![e] = found]
        /\ missed' = missed \cup UNION {AllRowsOf(e, n) : n \in Monitored \ found}
  BY DEF ListNamespaces
<1>2. /\ stage[e] = "list" /\ stage' = [stage EXCEPT ![e] = "next"]
      /\ UNCHANGED <<today, runVars, namespace, metric, rows, stream, table>>
  BY DEF ListNamespaces
<1>3. /\ stage'[e] = "next" /\ todo'[e] = found
      /\ \A h \in Runs : h # e => stage'[h] = stage[h] /\ todo'[h] = todo[h]
  BY <1>1, <1>2 DEF TypeOK
<1>4. TypeOK'
  <2>1. stage' \in [Runs -> Stages] BY <1>2 DEF TypeOK, Stages
  <2>2. todo' \in [Runs -> SUBSET NamespaceNames] BY <1>1 DEF TypeOK, Monitored
  <2>3. missed' \subseteq Row
    <3>1. \A n \in Monitored : AllRowsOf(e, n) \subseteq Row BY AllRowsFacts DEF TypeOK
    <3> QED BY <1>1, <3>1 DEF TypeOK
  <2> QED BY <1>2, <2>1, <2>2, <2>3 DEF TypeOK
<1>5. RowsAreOfTheMetric' BY <1>2, <1>3 DEF RowsAreOfTheMetric, Holding
<1>6. TableIsOfTheRuns'
  <2>1. \A r \in table : r.run \in Runs /\ r.run # e
    BY <1>2 DEF TableIsOfTheRuns, Begun, TypeOK, Row
  <2> QED BY <1>2, <1>3, <2>1 DEF TableIsOfTheRuns, Begun, Copying, Copied
<1>7. NamespaceIsBegun' BY <1>2, <1>3 DEF NamespaceIsBegun, Copying
<1>8. NothingIsMissed'
  <2>1. (HoldsAll(e) /\ ExportedAll(e))'
    <3>1. \A n \in Monitored \ found, i \in 1..Len(MetricNames) :
            RowSet(startDay[e], e, n, MetricNames[i]) \subseteq missed'
      BY <1>1, RowsOfIsRowSet DEF AllRowsOf
    <3>2. ExportedAll(e)' BY <1>2, <1>3, <3>1 DEF ExportedAll
    <3> QED BY <1>3, <3>2 DEF HoldsAll, Holding
  <2>2. missed \subseteq missed' BY <1>1
  <2>3. ASSUME NEW h \in Runs, h # e, stage'[h] # "crashed" PROVE (HoldsAll(h) /\ ExportedAll(h))'
    <3>1. HoldsAll(h) /\ ExportedAll(h) BY <1>3, <2>3 DEF NothingIsMissed
    <3>2. HoldsAll(h)' BY <1>2, <1>3, <2>2, <2>3, <3>1 DEF HoldsAll, Holding
    <3>3. ExportedAll(h)' BY <1>2, <1>3, <2>2, <2>3, <3>1 DEF ExportedAll, Begun, Copying, Copied
    <3> QED BY <3>2, <3>3
  <2> QED BY <2>1, <2>3 DEF NothingIsMissed
<1> QED BY <1>4, <1>5, <1>6, <1>7, <1>8

\* The frame of the steps of run e after the listing: what they leave of the other runs.
Frame(e) ==
  /\ \A h \in Runs : h # e =>
       /\ stage'[h] = stage[h] /\ startDay'[h] = startDay[h] /\ todo'[h] = todo[h]
       /\ namespace'[h] = namespace[h] /\ metric'[h] = metric[h]
       /\ rows'[h] = rows[h] /\ stream'[h] = stream[h]
  /\ \A r \in table' \ table : r.run = e
  /\ table \subseteq table' /\ missed \subseteq missed'

\* With the frame, IInv has to be shown for run e alone.
RunIInv(e) ==
  /\ rows[e] \subseteq RowSet(startDay[e], e, namespace[e], MetricNames[metric[e]])
  /\ ~Holding(e) => rows[e] = {}
  /\ stream[e] = {} \/ stream[e] = rows[e]
  /\ \A r \in table : r.run = e =>
       /\ Begun(e) /\ r.day = startDay[e] /\ r.named = Filled(r.metric)
       /\ IsRowOf(r, e, startDay[e])
       /\ NamespaceOf[r.container] \notin todo[e]
       /\ Copying(e) /\ NamespaceOf[r.container] = namespace[e] =>
            \E i \in 1..Len(MetricNames) : MetricNames[i] = r.metric /\ Copied(e, i)
  /\ todo[e] \subseteq Monitored
  /\ Copying(e) => namespace[e] \in Monitored \ todo[e]
  /\ stage[e] = "done" => todo[e] = {}
  /\ stage[e] # "crashed" => HoldsAll(e) /\ ExportedAll(e)

LEMMA RunIInvHolds == ASSUME IInv, NEW e \in Runs PROVE RunIInv(e)
  BY DEF IInv, RunIInv, RowsAreOfTheMetric, TableIsOfTheRuns, NamespaceIsBegun, NothingIsMissed

LEMMA FrameIInv ==
  ASSUME IInv, NEW e \in Runs, TypeOK', Frame(e), RunIInv(e)' PROVE IInv'
<1> USE DEF IInv, Frame
<1>1. RowsAreOfTheMetric'
  BY DEF RowsAreOfTheMetric, RunIInv, Holding
<1>2. TableIsOfTheRuns'
  <2> SUFFICES ASSUME NEW r \in table'
               PROVE  /\ Begun(r.run)'
                      /\ r.day = startDay'[r.run] /\ r.named = Filled(r.metric)
                      /\ IsRowOf(r, r.run, startDay'[r.run])
                      /\ NamespaceOf[r.container] \notin todo'[r.run]
                      /\ Copying(r.run)' /\ NamespaceOf[r.container] = namespace'[r.run] =>
                           \E i \in 1..Len(MetricNames) : MetricNames[i] = r.metric /\ Copied(r.run, i)'
    BY DEF TableIsOfTheRuns, Begun, Copying, Copied
  <2>1. r.run \in Runs BY DEF TypeOK, Row
  <2>2. CASE r.run = e BY <2>2 DEF RunIInv, Begun, Copying, Copied
  <2>3. CASE r.run # e
    <3>1. r \in table BY <2>3
    <3> QED BY <2>1, <2>3, <3>1 DEF TableIsOfTheRuns, Begun, Copying, Copied
  <2> QED BY <2>2, <2>3
<1>3. NamespaceIsBegun' BY DEF NamespaceIsBegun, RunIInv, Copying
<1>4. NothingIsMissed'
  <2>1. ASSUME NEW h \in Runs, h # e, stage'[h] # "crashed" PROVE (HoldsAll(h) /\ ExportedAll(h))'
    <3>1. HoldsAll(h) /\ ExportedAll(h) BY <2>1 DEF NothingIsMissed
    <3>2. HoldsAll(h)' BY <2>1, <3>1 DEF HoldsAll, Holding
    <3>3. ExportedAll(h)' BY <2>1, <3>1 DEF ExportedAll, Begun, Copying, Copied
    <3> QED BY <3>2, <3>3
  <2> QED BY <2>1 DEF NothingIsMissed, RunIInv
<1> QED BY <1>1, <1>2, <1>3, <1>4

\* The loop over the namespaces: the next one has no rows of the run in the table.
LEMMA NextNamespaceIInv == ASSUME IInv, NEW e \in Runs, NextNamespace(e) PROVE IInv'
<1> USE DEF IInv, Goto, At, Data, runVars
<1>0. RunIInv(e) BY RunIInvHolds
<1>1. stage[e] = "next" /\ UNCHANGED <<today, runVars, Data, missed>> BY DEF NextNamespace
<1>2. rows[e] = {} /\ stream[e] = {} BY <1>0, <1>1 DEF RunIInv, Holding
<1>3. CASE /\ todo[e] = {} /\ stage' = [stage EXCEPT ![e] = "done"]
           /\ UNCHANGED <<todo, namespace, metric>>
  <2>1. stage'[e] = "done" /\ \A h \in Runs : h # e => stage'[h] = stage[h] BY <1>3 DEF TypeOK
  <2>2. TypeOK'
    <3>1. stage' \in [Runs -> Stages] BY <1>3 DEF TypeOK, Stages
    <3> QED BY <1>1, <1>3, <3>1 DEF TypeOK
  <2>3. Frame(e) BY <1>1, <1>3, <2>1 DEF Frame
  <2>4. RunIInv(e)'
    BY <1>0, <1>1, <1>2, <1>3, <2>1
       DEF RunIInv, HoldsAll, ExportedAll, Holding, Begun, Copying, Copied
  <2> QED BY <2>2, <2>3, <2>4, FrameIInv
<1>4. CASE \E n \in todo[e] : /\ namespace' = [namespace EXCEPT ![e] = n]
                              /\ todo' = [todo EXCEPT ![e] = @ \ {n}]
                              /\ metric' = [metric EXCEPT ![e] = 1]
                              /\ stage' = [stage EXCEPT ![e] = "query"]
  <2>1. PICK n \in todo[e] : /\ namespace' = [namespace EXCEPT ![e] = n]
                             /\ todo' = [todo EXCEPT ![e] = @ \ {n}]
                             /\ metric' = [metric EXCEPT ![e] = 1]
                             /\ stage' = [stage EXCEPT ![e] = "query"]
    BY <1>4
  <2>2. /\ stage'[e] = "query" /\ namespace'[e] = n /\ todo'[e] = todo[e] \ {n} /\ metric'[e] = 1
        /\ n \in NamespaceNames
    BY <2>1 DEF TypeOK
  <2>3. \A h \in Runs : h # e => stage'[h] = stage[h] /\ namespace'[h] = namespace[h]
                                 /\ todo'[h] = todo[h] /\ metric'[h] = metric[h]
    BY <2>1 DEF TypeOK
  <2>4. TypeOK'
    <3>1. stage' \in [Runs -> Stages] BY <2>1 DEF TypeOK, Stages
    <3>2. namespace' \in [Runs -> NamespaceNames \cup {None}] BY <2>1, <2>2 DEF TypeOK
    <3>3. todo' \in [Runs -> SUBSET NamespaceNames] BY <2>1 DEF TypeOK
    <3>4. 1 \in 1..Len(MetricNames) BY MetricNamesFacts
    <3>5. metric' \in [Runs -> 1..Len(MetricNames)] BY <2>1, <3>4 DEF TypeOK
    <3> QED BY <1>1, <3>1, <3>2, <3>3, <3>5 DEF TypeOK
  <2>5. Frame(e) BY <1>1, <2>3 DEF Frame
  <2>6. ExportedAll(e)'
    <3> SUFFICES ASSUME NEW n2 \in Monitored \ todo'[e], NEW i \in 1..Len(MetricNames),
                        n2 = n => Copied(e, i)'
                 PROVE  RowSet(startDay'[e], e, n2, MetricNames[i]) \subseteq table' \cup missed'
      BY <2>2 DEF ExportedAll, Copying
    <3>1. ~Copied(e, i)' BY <2>2 DEF Copied
    <3>2. n2 \in Monitored \ todo[e] BY <2>2, <3>1
    <3> QED BY <1>0, <1>1, <3>2 DEF RunIInv, ExportedAll, Begun, Copying
  <2>7. \A r \in table : r.run = e => NamespaceOf[r.container] \notin todo[e]
                                    /\ r.day = startDay[e] /\ r.named = Filled(r.metric)
                                    /\ IsRowOf(r, e, startDay[e])
    BY <1>0 DEF RunIInv
  <2>9. todo[e] \subseteq Monitored BY <1>0 DEF RunIInv
  <2>8. RunIInv(e)'
    BY <1>1, <1>2, <2>2, <2>6, <2>7, <2>9 DEF RunIInv, HoldsAll, Holding, Begun, Copying
  <2> QED BY <2>4, <2>5, <2>8, FrameIInv
<1> QED BY <1>3, <1>4 DEF NextNamespace

\* The loop over the metrics, when all rows of the last one are in the table or lost.
LEMMA NextMetricIInv ==
  ASSUME IInv, NEW e \in Runs, stage[e] \in {"query", "log"}, NextMetric(e),
         rows'[e] = {}, stream'[e] = {},
         RowSet(startDay[e], e, namespace[e], MetricNames[metric[e]]) \subseteq table \cup missed',
         rows' = [rows EXCEPT ![e] = {}], stream' \in {stream, [stream EXCEPT ![e] = {}]},
         missed \subseteq missed', missed' \subseteq Row,
         UNCHANGED <<today, runVars, todo, namespace, table>>
  PROVE  IInv'
<1> USE DEF IInv, Goto, At, runVars
<1>0. RunIInv(e) BY RunIInvHolds
<1>1. \/ /\ metric[e] < Len(MetricNames) /\ metric'[e] = metric[e] + 1 /\ stage'[e] = "query"
      \/ metric[e] = Len(MetricNames) /\ metric'[e] = metric[e] /\ stage'[e] = "next"
  BY MetricNamesFacts DEF NextMetric, TypeOK
<1>2. \A h \in Runs : h # e => stage'[h] = stage[h] /\ metric'[h] = metric[h]
                               /\ rows'[h] = rows[h] /\ stream'[h] = stream[h]
  BY DEF NextMetric, TypeOK
<1>3. TypeOK'
  <2>1. stage' \in [Runs -> Stages] BY DEF NextMetric, TypeOK, Stages
  <2>2. metric' \in [Runs -> 1..Len(MetricNames)]
    <3>1. CASE metric' = metric BY <3>1 DEF TypeOK
    <3>2. CASE metric[e] < Len(MetricNames) /\ metric' = [metric EXCEPT ![e] = @ + 1]
      <4>1. metric[e] + 1 \in 1..Len(MetricNames) BY <3>2, MetricNamesFacts DEF TypeOK
      <4> QED BY <3>2, <4>1 DEF TypeOK
    <3> QED BY <3>1, <3>2 DEF NextMetric
  <2>3. rows' \in [Runs -> SUBSET Row] /\ stream' \in [Runs -> SUBSET Row] BY DEF TypeOK
  <2> QED BY <2>1, <2>2, <2>3 DEF TypeOK
<1>4. Frame(e) BY <1>2 DEF Frame
<1>5. metric[e] \in Nat /\ Len(MetricNames) \in Nat BY MetricNamesFacts DEF TypeOK
<1>6. \A i \in 1..Len(MetricNames) : Copied(e, i) => i <= metric[e]
  BY <1>5 DEF Copied
<1>7. ExportedAll(e)'
  <2> SUFFICES ASSUME NEW n \in Monitored \ todo[e], NEW i \in 1..Len(MetricNames),
                      Copying(e)' /\ n = namespace[e] => Copied(e, i)'
               PROVE  RowSet(startDay[e], e, n, MetricNames[i]) \subseteq table \cup missed'
    BY DEF ExportedAll, Copying, Copied
  <2>1. CASE n = namespace[e] /\ i = metric[e] BY <2>1
  <2>2. CASE n = namespace[e] /\ i # metric[e]
    <3>1. i < metric[e] BY <1>1, <1>5, <2>2 DEF Copying, Copied
    <3> QED BY <1>0, <3>1 DEF RunIInv, ExportedAll, Copied, Begun
  <2>3. CASE n # namespace[e] BY <1>0, <2>3 DEF RunIInv, ExportedAll, Begun
  <2> QED BY <2>1, <2>2, <2>3
<1>8. \A r \in table : r.run = e =>
        /\ r.day = startDay[e] /\ r.named = Filled(r.metric)
        /\ IsRowOf(r, e, startDay[e])
        /\ NamespaceOf[r.container] \notin todo[e]
        /\ Copying(e)' /\ NamespaceOf[r.container] = namespace[e] =>
             \E i \in 1..Len(MetricNames) : MetricNames[i] = r.metric /\ Copied(e, i)'
  <2> SUFFICES ASSUME NEW r \in table, r.run = e, Copying(e)', NamespaceOf[r.container] = namespace[e]
               PROVE  \E i \in 1..Len(MetricNames) : MetricNames[i] = r.metric /\ Copied(e, i)'
    BY <1>0 DEF RunIInv
  <2>1. PICK i \in 1..Len(MetricNames) : MetricNames[i] = r.metric /\ Copied(e, i)
    BY <1>0 DEF RunIInv, Copying
  <2>2. metric'[e] = metric[e] + 1 BY <1>1 DEF Copying
  <2>3. Copied(e, i)' BY <1>5, <1>6, <2>1, <2>2 DEF Copied
  <2> QED BY <2>1, <2>3
<1>9. RunIInv(e)'
  <2>1. Copying(e) BY DEF Copying
  <2>2. namespace[e] \in Monitored \ todo[e] /\ todo[e] \subseteq Monitored
    BY <1>0, <2>1 DEF RunIInv
  <2>3. stage'[e] \in {"query", "next"} BY <1>1
  <2>4. HoldsAll(e)' BY <2>3 DEF HoldsAll, Holding
  <2>5. Begun(e)' BY <2>3 DEF Begun
  <2>6. stage'[e] # "crashed" /\ (stage'[e] = "done" => todo'[e] = {}) BY <2>3
  <2> QED BY <1>7, <1>8, <2>2, <2>4, <2>5, <2>6 DEF RunIInv
<1> QED BY <1>3, <1>4, <1>9, FrameIInv

\* get_gke_metrics.  What it returns may be a part of the rows only if a call failed.
LEMMA QueryIInv == ASSUME IInv, NEW e \in Runs, Query(e) PROVE IInv'
<1> USE DEF IInv, Goto, At, runVars
<1> DEFINE all == RowSet(startDay[e], e, namespace[e], MetricNames[metric[e]])
<1>0. RunIInv(e) BY RunIInvHolds
<1>1. PICK read \in SUBSET all :
        /\ rows' = [rows EXCEPT ![e] = read]
        /\ missed' = missed \cup (all \ read)
  BY RowsOfIsRowSet DEF Query
<1>2. /\ stage[e] = "query"
      /\ UNCHANGED <<today, runVars, todo, namespace, stream, table>>
  BY DEF Query
<1>3. rows'[e] = read /\ \A h \in Runs : h # e => rows'[h] = rows[h] BY <1>1 DEF TypeOK
<1>4. stream[e] = {} BY <1>0, <1>2 DEF RunIInv, Holding
<1>7. all \subseteq Row
  <2>1. startDay[e] \in Days /\ MetricNames[metric[e]] \in AllMetrics
    BY MetricNamesFacts DEF TypeOK
  <2> QED BY <2>1, RowSetFacts
<1>5. CASE read = {}
  <2>1. NextMetric(e) BY <1>3, <1>5 DEF Query
  <2>2. all \subseteq table \cup missed' BY <1>1, <1>5
  <2>3. missed' \subseteq Row BY <1>1, <1>7 DEF TypeOK
  <2> QED BY <1>1, <1>2, <1>3, <1>4, <1>5, <2>1, <2>2, <2>3, NextMetricIInv
<1>6. CASE read # {}
  <2>1. stage' = [stage EXCEPT ![e] = "create"] /\ UNCHANGED metric BY <1>3, <1>6 DEF Query
  <2>2. stage'[e] = "create" /\ \A h \in Runs : h # e => stage'[h] = stage[h] BY <2>1 DEF TypeOK
  <2>3. read \subseteq Row BY <1>7
  <2>4. TypeOK'
    <3>1. stage' \in [Runs -> Stages] BY <2>1 DEF TypeOK, Stages
    <3>2. rows' \in [Runs -> SUBSET Row] BY <1>1, <2>3 DEF TypeOK
    <3>3. missed' \subseteq Row BY <1>1, <1>7 DEF TypeOK
    <3> QED BY <1>2, <2>1, <3>1, <3>2, <3>3 DEF TypeOK
  <2>5. Frame(e) BY <1>1, <1>2, <1>3, <2>1, <2>2 DEF Frame
  <2>6. (HoldsAll(e) /\ ExportedAll(e))'
    <3>1. all \subseteq rows'[e] \cup missed' /\ missed \subseteq missed' BY <1>1, <1>3
    <3>2. HoldsAll(e)' BY <1>2, <2>1, <2>2, <3>1 DEF HoldsAll
    <3>3. ExportedAll(e)'
      BY <1>0, <1>2, <2>1, <2>2, <3>1 DEF RunIInv, ExportedAll, Begun, Copying, Copied
    <3> QED BY <3>2, <3>3
  <2>7. \A r \in table : r.run = e =>
          /\ r.day = startDay[e] /\ r.named = Filled(r.metric)
          /\ IsRowOf(r, e, startDay[e])
          /\ NamespaceOf[r.container] \notin todo[e]
          /\ NamespaceOf[r.container] = namespace[e] =>
               \E i \in 1..Len(MetricNames) : MetricNames[i] = r.metric /\ Copied(e, i)'
    BY <1>0, <1>2, <2>1, <2>2 DEF RunIInv, Copying, Copied
  <2>8. namespace[e] \in Monitored \ todo[e] /\ todo[e] \subseteq Monitored
    BY <1>0, <1>2 DEF RunIInv, Copying
  <2>9. rows'[e] \subseteq all BY <1>3
  <2> HIDE DEF all
  <2>10. rows'[e] \subseteq RowSet(startDay[e], e, namespace[e], MetricNames[metric[e]])'
    BY <1>2, <2>1, <2>9 DEF all
  <2>11. RunIInv(e)'
    BY <1>2, <1>4, <2>2, <2>6, <2>7, <2>8, <2>10 DEF RunIInv, Holding, Begun
  <2> QED BY <2>4, <2>5, <2>11, FrameIInv
<1> QED BY <1>5, <1>6

\* A stage of write_to_bigquery that leaves the rows and the table alone.
LEMMA ForwardIInv ==
  ASSUME IInv, NEW e \in Runs, NEW next \in {"send", "finalize", "commit", "log"},
         stage[e] \in {"create", "send", "finalize", "commit"},
         stage' = [stage EXCEPT ![e] = next],
         stream' \in {stream, [stream EXCEPT ![e] = {}], [stream EXCEPT ![e] = rows[e]]},
         missed \subseteq missed', missed' \subseteq Row,
         next \in {"finalize", "commit"} => rows[e] \subseteq stream'[e] \cup missed',
         next = "log" => rows[e] \subseteq missed',
         UNCHANGED <<today, runVars, todo, namespace, metric, rows, table>>
  PROVE  IInv'
<1> USE DEF IInv, runVars
<1>0. RunIInv(e) BY RunIInvHolds
<1>1. stage'[e] = next /\ \A h \in Runs : h # e => stage'[h] = stage[h] /\ stream'[h] = stream[h]
  BY DEF TypeOK
<1>2. stream'[e] = {} \/ stream'[e] = rows[e] BY <1>0 DEF TypeOK, RunIInv
<1>3. TypeOK'
  <2>1. stage' \in [Runs -> Stages] BY DEF TypeOK, Stages
  <2>2. stream' \in [Runs -> SUBSET Row] BY DEF TypeOK
  <2> QED BY <2>1, <2>2 DEF TypeOK
<1>4. Frame(e) BY <1>1 DEF Frame
<1>5. Copying(e) /\ Begun(e) /\ Holding(e) /\ Copying(e)' /\ Begun(e)' /\ Holding(e)'
  BY <1>1 DEF Copying, Begun, Holding
<1>6. (stage[e] # "crashed" /\ HoldsAll(e) /\ ExportedAll(e))'
  <2>1. HoldsAll(e) /\ ExportedAll(e) BY <1>0 DEF RunIInv
  <2>2. HoldsAll(e)' BY <1>1, <1>5, <2>1 DEF HoldsAll
  <2>3. ExportedAll(e)'
    <3>1. \A i \in 1..Len(MetricNames) : Copied(e, i) => Copied(e, i)' BY <1>1 DEF Copied
    <3>2. \A i \in 1..Len(MetricNames) :
            Copied(e, i)' => Copied(e, i) \/ (i = metric[e] /\ next = "log")
      BY <1>1 DEF Copied
    <3>3. next = "log" =>
            RowSet(startDay[e], e, namespace[e], MetricNames[metric[e]]) \subseteq table \cup missed'
      BY <1>5, <2>1 DEF HoldsAll
    <3> SUFFICES ASSUME NEW n \in Monitored \ todo[e], NEW i \in 1..Len(MetricNames),
                        n = namespace[e] => Copied(e, i)'
                 PROVE  RowSet(startDay[e], e, n, MetricNames[i]) \subseteq table \cup missed'
      BY <1>5 DEF ExportedAll
    <3>4. CASE n = namespace[e] /\ i = metric[e] /\ next = "log" BY <3>3, <3>4
    <3>5. CASE n = namespace[e] => Copied(e, i) BY <1>5, <2>1, <3>5 DEF ExportedAll
    <3> QED BY <3>2, <3>4, <3>5
  <2> QED BY <1>1, <2>1, <2>2, <2>3
<1>7. \A r \in table : r.run = e =>
        /\ r.day = startDay[e] /\ r.named = Filled(r.metric)
        /\ IsRowOf(r, e, startDay[e])
        /\ NamespaceOf[r.container] \notin todo[e]
        /\ NamespaceOf[r.container] = namespace[e] =>
             \E i \in 1..Len(MetricNames) : MetricNames[i] = r.metric /\ Copied(e, i)'
  BY <1>0, <1>5, <1>1 DEF RunIInv, Copied
<1>8. namespace[e] \in Monitored \ todo[e] /\ todo[e] \subseteq Monitored
  BY <1>0, <1>5 DEF RunIInv
<1>9. rows[e] \subseteq RowSet(startDay[e], e, namespace[e], MetricNames[metric[e]])
  BY <1>0 DEF RunIInv
<1>10. RunIInv(e)' BY <1>2, <1>5, <1>6, <1>7, <1>8, <1>9 DEF RunIInv
<1> QED BY <1>3, <1>4, <1>10, FrameIInv

\* The rows that a commit makes visible are those of the metric that is being copied.
LEMMA CommitIInv == ASSUME IInv, NEW e \in Runs, Commit(e) PROVE IInv'
<1> USE DEF IInv, Goto, At, runVars
<1>0. RunIInv(e) BY RunIInvHolds
<1>1. /\ stage[e] = "commit" /\ stage' = [stage EXCEPT ![e] = "log"]
      /\ table' = table \cup stream[e]
      /\ UNCHANGED <<today, startDay, project, clients, todo, namespace, metric, rows, stream, missed>>
  BY DEF Commit
<1>2. stage'[e] = "log" /\ \A h \in Runs : h # e => stage'[h] = stage[h] BY <1>1 DEF TypeOK
<1>3. stream[e] \subseteq rows[e] BY <1>0 DEF RunIInv
<1>4. \A r \in rows[e] : /\ r \in Row /\ IsRowOf(r, e, startDay[e])
                         /\ r.run = e /\ r.day = startDay[e] /\ r.metric = MetricNames[metric[e]]
                         /\ r.named = Filled(r.metric)
                         /\ NamespaceOf[r.container] = namespace[e]
  BY HeldRows
<1>5. TypeOK'
  <2>1. stage' \in [Runs -> Stages] BY <1>1 DEF TypeOK, Stages
  <2>2. table' \subseteq Row BY <1>1, <1>3, <1>4 DEF TypeOK
  <2> QED BY <1>1, <2>1, <2>2 DEF TypeOK
<1>6. Frame(e) BY <1>1, <1>2, <1>3, <1>4 DEF Frame
<1>7. metric[e] \in 1..Len(MetricNames) BY DEF TypeOK
<1>8. Copying(e) /\ Begun(e) /\ Holding(e) /\ Copying(e)' /\ Begun(e)' /\ Holding(e)'
  BY <1>1, <1>2 DEF Copying, Begun, Holding
<1>9. namespace[e] \in Monitored \ todo[e] /\ todo[e] \subseteq Monitored
  BY <1>0, <1>8 DEF RunIInv
<1>10. \A r \in table' : r.run = e =>
        /\ r.day = startDay[e] /\ r.named = Filled(r.metric)
        /\ IsRowOf(r, e, startDay[e])
        /\ NamespaceOf[r.container] \notin todo[e]
        /\ NamespaceOf[r.container] = namespace[e] =>
             \E i \in 1..Len(MetricNames) : MetricNames[i] = r.metric /\ Copied(e, i)'
  <2> SUFFICES ASSUME NEW r \in table', r.run = e
               PROVE  /\ r.day = startDay[e] /\ r.named = Filled(r.metric)
                      /\ IsRowOf(r, e, startDay[e])
                      /\ NamespaceOf[r.container] \notin todo[e]
                      /\ NamespaceOf[r.container] = namespace[e] =>
                          \E i \in 1..Len(MetricNames) : MetricNames[i] = r.metric /\ Copied(e, i)'
    OBVIOUS
  <2>1. CASE r \in table
    <3>1. /\ r.day = startDay[e] /\ r.named = Filled(r.metric)
          /\ IsRowOf(r, e, startDay[e])
          /\ NamespaceOf[r.container] \notin todo[e]
          /\ NamespaceOf[r.container] = namespace[e] =>
               \E i \in 1..Len(MetricNames) : MetricNames[i] = r.metric /\ Copied(e, i)
      BY <1>0, <1>8, <2>1 DEF RunIInv
    <3>2. CASE NamespaceOf[r.container] = namespace[e]
      <4>1. PICK i \in 1..Len(MetricNames) : MetricNames[i] = r.metric /\ Copied(e, i)
        BY <3>1, <3>2
      <4>2. Copied(e, i)' BY <1>1, <4>1 DEF Copied
      <4> QED BY <3>1, <4>1, <4>2
    <3>3. CASE NamespaceOf[r.container] # namespace[e] BY <3>1, <3>3
    <3> QED BY <3>2, <3>3
  <2>2. CASE r \in rows[e] BY <1>1, <1>2, <1>4, <1>7, <1>9, <2>2 DEF Copied
  <2> QED BY <1>1, <1>3, <2>1, <2>2
<1>11. (stage[e] # "crashed" /\ HoldsAll(e) /\ ExportedAll(e))'
  <2>1. HoldsAll(e) /\ ExportedAll(e) BY <1>0, <1>1 DEF RunIInv
  <2>2. /\ RowSet(startDay[e], e, namespace[e], MetricNames[metric[e]]) \subseteq rows[e] \cup missed
        /\ rows[e] \subseteq stream[e] \cup missed
    BY <1>1, <1>8, <2>1 DEF HoldsAll
  <2>3. HoldsAll(e)' BY <1>1, <1>2, <1>8, <2>2 DEF HoldsAll
  <2>4. ExportedAll(e)'
    <3> SUFFICES ASSUME NEW n \in Monitored \ todo[e], NEW i \in 1..Len(MetricNames),
                        n = namespace[e] => Copied(e, i)'
                 PROVE  RowSet(startDay[e], e, n, MetricNames[i]) \subseteq table' \cup missed
      BY <1>1, <1>8 DEF ExportedAll, Copied
    <3>1. CASE n = namespace[e] /\ i = metric[e] BY <1>1, <2>2, <3>1
    <3>2. CASE ~(n = namespace[e] /\ i = metric[e])
      <4>1. n = namespace[e] => Copied(e, i) BY <1>1, <1>2, <3>2 DEF Copied
      <4> QED BY <1>0, <1>1, <1>8, <2>1, <4>1 DEF RunIInv, ExportedAll
    <3> QED BY <3>1, <3>2
  <2> QED BY <1>2, <2>3, <2>4
<1>12. rows[e] \subseteq RowSet(startDay[e], e, namespace[e], MetricNames[metric[e]])
        /\ (stream[e] = {} \/ stream[e] = rows[e])
  BY <1>0 DEF RunIInv
<1>13. RunIInv(e)' BY <1>1, <1>8, <1>9, <1>10, <1>11, <1>12 DEF RunIInv
<1> QED BY <1>5, <1>6, <1>13, FrameIInv

LEMMA LogIInv == ASSUME IInv, NEW e \in Runs, Log(e) PROVE IInv'
<1> USE DEF IInv, At
<1>0. RunIInv(e) BY RunIInvHolds
<1>1. /\ stage[e] = "log" /\ NextMetric(e)
      /\ rows' = [rows EXCEPT ![e] = {}] /\ stream' = [stream EXCEPT ![e] = {}]
      /\ UNCHANGED <<today, runVars, todo, namespace, table, missed>>
  BY DEF Log
<1>2. rows'[e] = {} /\ stream'[e] = {} BY <1>1 DEF TypeOK
<1>3. RowSet(startDay[e], e, namespace[e], MetricNames[metric[e]]) \subseteq table \cup missed
  BY <1>0, <1>1 DEF RunIInv, HoldsAll, Holding
<1>4. missed' \subseteq Row BY <1>1 DEF TypeOK
<1> QED BY <1>1, <1>2, <1>3, <1>4, NextMetricIInv

\* The end of a process, before or after its commit.
LEMMA ExitIInv ==
  ASSUME IInv, NEW e \in Runs, stage[e] \notin {"idle", "done", "crashed"}, Exit(e),
         table' \in {table, table \cup stream[e]}
  PROVE  IInv'
<1> USE DEF IInv, Goto
<1>0. RunIInv(e) BY RunIInvHolds
<1>1. /\ stage' = [stage EXCEPT ![e] = "crashed"] /\ missed' = missed
      /\ todo' = [todo EXCEPT ![e] = {}] /\ namespace' = [namespace EXCEPT ![e] = None]
      /\ metric' = [metric EXCEPT ![e] = 1]
      /\ rows' = [rows EXCEPT ![e] = {}] /\ stream' = [stream EXCEPT ![e] = {}]
      /\ project' = [project EXCEPT ![e] = None] /\ clients' = [clients EXCEPT ![e] = {}]
      /\ UNCHANGED <<today, startDay>>
  BY DEF Exit
<1>2. /\ stage'[e] = "crashed" /\ todo'[e] = {} /\ rows'[e] = {} /\ stream'[e] = {}
      /\ \A h \in Runs : h # e =>
           /\ stage'[h] = stage[h] /\ todo'[h] = todo[h] /\ namespace'[h] = namespace[h]
           /\ metric'[h] = metric[h] /\ rows'[h] = rows[h] /\ stream'[h] = stream[h]
  BY <1>1 DEF TypeOK
<1>3. stream[e] \subseteq rows[e] BY <1>0 DEF RunIInv
<1>4. \A r \in rows[e] : /\ r \in Row /\ r.run = e /\ IsRowOf(r, e, startDay[e])
                         /\ r.day = startDay[e] /\ r.named = Filled(r.metric)
  BY HeldRows
<1>5. TypeOK'
  <2>1. stage' \in [Runs -> Stages] BY <1>1 DEF TypeOK, Stages
  <2>2. table' \subseteq Row BY <1>3, <1>4 DEF TypeOK
  <2>3. todo' \in [Runs -> SUBSET NamespaceNames] /\ namespace' \in [Runs -> NamespaceNames \cup {None}]
    BY <1>1 DEF TypeOK
  <2>4. 1 \in 1..Len(MetricNames) BY MetricNamesFacts
  <2>5. metric' \in [Runs -> 1..Len(MetricNames)] BY <1>1, <2>4 DEF TypeOK
  <2>6. rows' \in [Runs -> SUBSET Row] /\ stream' \in [Runs -> SUBSET Row] BY <1>1 DEF TypeOK
  <2>7. project' \in [Runs -> {None, "environment", "metadata", "credentials"}]
        /\ clients' \in [Runs -> SUBSET {"client", "bqclient"}]
    BY <1>1 DEF TypeOK
  <2> QED BY <1>1, <2>1, <2>2, <2>3, <2>5, <2>6, <2>7 DEF TypeOK
<1>6. Frame(e) BY <1>1, <1>2, <1>3, <1>4 DEF Frame
<1>7. \A r \in table' : r.run = e => /\ r.day = startDay[e] /\ r.named = Filled(r.metric)
                                     /\ IsRowOf(r, e, startDay[e])
  BY <1>0, <1>3, <1>4 DEF RunIInv
<1>8. ~Copying(e)' /\ ~Holding(e)' /\ Begun(e)'
  BY <1>1, <1>2 DEF Copying, Holding, Begun
<1>9. RunIInv(e)' BY <1>1, <1>2, <1>7, <1>8 DEF RunIInv
<1> QED BY <1>5, <1>6, <1>9, FrameIInv

LEMMA NextIInv == IInv /\ [Next]_vars => IInv'
<1> SUFFICES ASSUME IInv, [Next]_vars PROVE IInv' OBVIOUS
<1>1. CASE UNCHANGED vars
  <2>1. today' \in Days BY <1>1 DEF IInv, TypeOK, vars
  <2> QED BY <1>1, <2>1, TodayIInv DEF vars, Data, runVars
<1>2. CASE Tomorrow
  <2>1. today' \in Days
    BY <1>2, ExporterAssumption DEF Tomorrow, IInv, TypeOK, Days
  <2> QED BY <1>2, <2>1, TodayIInv DEF Tomorrow
<1>3. ASSUME NEW e \in Runs, Start(e) \/ Program(e) \/ Crash(e) PROVE IInv'
  <2>0. stage[e] \in Stages /\ RunIInv(e) BY RunIInvHolds DEF IInv, TypeOK
  <2>15. missed \subseteq Row BY DEF IInv, TypeOK
  <2>1. CASE Start(e) BY <2>1, StartIInv
  <2>2. CASE Connect(e) BY <2>2, ConnectIInv
  <2>3. CASE ListNamespaces(e) BY <2>3, ListNamespacesIInv
  <2>4. CASE NextNamespace(e) BY <2>4, NextNamespaceIInv
  <2>5. CASE Query(e) BY <2>5, QueryIInv
  <2>6. CASE CreateStream(e)
    <3>1. /\ stage[e] = "create" /\ stage' = [stage EXCEPT ![e] = "send"]
          /\ stream' = [stream EXCEPT ![e] = {}]
          /\ UNCHANGED <<today, runVars, todo, namespace, metric, rows, table, missed>>
      BY <2>6 DEF CreateStream, At, Goto
    <3> QED BY <2>15, <3>1, ForwardIInv
  <2>7. CASE AppendArrives(e)
    <3>1. /\ stage[e] = "send" /\ stage' = [stage EXCEPT ![e] = "finalize"]
          /\ stream' = [stream EXCEPT ![e] = rows[e]]
          /\ UNCHANGED <<today, runVars, todo, namespace, metric, rows, table, missed>>
      BY <2>7 DEF AppendArrives, At, Goto
    <3>2. stream'[e] = rows[e] BY <3>1 DEF IInv, TypeOK
    <3> QED BY <2>15, <3>1, <3>2, ForwardIInv
  <2>8. CASE AppendLost(e)
    <3>1. /\ stage[e] = "send" /\ stage' = [stage EXCEPT ![e] = "finalize"]
          /\ stream' = stream /\ missed' = missed \cup rows[e]
          /\ UNCHANGED <<today, runVars, todo, namespace, metric, rows, table>>
      BY <2>8 DEF AppendLost, At, Goto, Data
    <3>2. missed' \subseteq Row BY <3>1 DEF IInv, TypeOK
    <3> QED BY <3>1, <3>2, ForwardIInv
  <2>9. CASE Finalize(e)
    <3>1. /\ stage[e] = "finalize" /\ stage' = [stage EXCEPT ![e] = "commit"]
          /\ stream' = stream
          /\ UNCHANGED <<today, runVars, todo, namespace, metric, rows, table, missed>>
      BY <2>9 DEF Finalize, At, Goto, Data
    <3>2. rows[e] \subseteq stream[e] \cup missed BY <2>0, <3>1 DEF RunIInv, HoldsAll
    <3> QED BY <2>15, <3>1, <3>2, ForwardIInv
  <2>10. CASE Commit(e) BY <2>10, CommitIInv
  <2>11. CASE CommitRefused(e)
    <3>1. /\ stage[e] = "commit" /\ stage' = [stage EXCEPT ![e] = "log"]
          /\ stream' = stream /\ missed' = missed \cup stream[e]
          /\ UNCHANGED <<today, runVars, todo, namespace, metric, rows, table>>
      BY <2>11 DEF CommitRefused, At, Goto, Data
    <3>2. missed' \subseteq Row BY <3>1 DEF IInv, TypeOK
    <3>3. rows[e] \subseteq missed' BY <2>0, <3>1 DEF RunIInv, HoldsAll
    <3> QED BY <3>1, <3>2, <3>3, ForwardIInv
  <2>12. CASE CommitUnanswered(e) BY <2>12, ExitIInv DEF CommitUnanswered, At
  <2>13. CASE Log(e) BY <2>13, LogIInv
  <2>14. CASE Crash(e) BY <2>14, ExitIInv DEF Crash
  <2> QED BY <1>3, <2>1, <2>2, <2>3, <2>4, <2>5, <2>6, <2>7, <2>8, <2>9, <2>10, <2>11,
         <2>12, <2>13, <2>14 DEF Program, Pipeline, Write
<1> QED BY <1>1, <1>2, <1>3 DEF Next

\* The inductive invariant holds throughout.
THEOREM ExporterInvariant == Spec => []IInv
<1>1. Init => IInv BY InitIInv
<1>2. IInv /\ [Next]_vars => IInv' BY NextIInv
<1> QED BY <1>1, <1>2, PTL DEF Spec

\* The variables keep their types.
THEOREM ExporterTypeCorrect == Spec => []TypeOK
<1>1. IInv => TypeOK BY DEF IInv
<1> QED BY <1>1, ExporterInvariant, PTL

\* All rows of a run have the date of start_time, whatever the time of their query.
THEOREM RunsHaveOneDate == Spec => []OneDatePerRun
<1>1. IInv => OneDatePerRun BY DEF IInv, TableIsOfTheRuns, OneDatePerRun
<1> QED BY <1>1, ExporterInvariant, PTL

\* Every row names its controller and container: get_gke_metrics reads what config.py
\* asks for.
THEOREM RowsAreAttributed == Spec => []RowsNameTheirController
<1>1. IInv => RowsNameTheirController
  BY AllFilled DEF IInv, TypeOK, TableIsOfTheRuns, RowsNameTheirController, Row
<1> QED BY <1>1, ExporterInvariant, PTL

\* A failed call of a run costs the rows of that call and no others: no skipped metric, no
\* failure before or after, no overlapping run and no change of date makes a run miss a row.
THEOREM FailuresStayLocal == Spec => []OnlyFailedCallsLoseRows
<1>1. IInv => OnlyFailedCallsLoseRows
  <2> SUFFICES ASSUME IInv, NEW e \in Runs, stage[e] = "done",
                      NEW n \in Monitored, NEW i \in 1..Len(MetricNames)
               PROVE  RowsOf(e, n, MetricNames[i]) \subseteq table \cup missed
    BY DEF OnlyFailedCallsLoseRows, AllRowsOf
  <2>1. ExportedAll(e) /\ Begun(e) /\ ~Copying(e) /\ todo[e] = {}
    BY DEF IInv, NothingIsMissed, NamespaceIsBegun, Begun, Copying
  <2>2. RowSet(startDay[e], e, n, MetricNames[i]) \subseteq table \cup missed
    BY <2>1 DEF ExportedAll
  <2> QED BY <2>2, RowsOfIsRowSet
<1> QED BY <1>1, ExporterInvariant, PTL

\* The rows that run e holds until its commit are not in the table.
LEMMA HeldRowsAreNew ==
  ASSUME IInv, NEW e \in Runs, stage[e] = "commit" PROVE rows[e] \cap table = {}
<1> SUFFICES ASSUME NEW r \in rows[e], r \in table PROVE FALSE OBVIOUS
<1>1. /\ r.run = e /\ r.metric = MetricNames[metric[e]]
      /\ NamespaceOf[r.container] = namespace[e]
  BY HeldRows DEF IInv
<1>2. PICK i \in 1..Len(MetricNames) : MetricNames[i] = r.metric /\ Copied(e, i)
  BY <1>1 DEF IInv, TableIsOfTheRuns, Copying
<1>3. metric[e] \in 1..Len(MetricNames) BY DEF IInv, TypeOK
<1>4. i = metric[e] BY <1>1, <1>2, <1>3, ExporterAssumption
<1> QED BY <1>2, <1>3, <1>4 DEF Copied

\* The rows of a metric and namespace appear together, all that the query returned.
THEOREM RowsAppearTogether == Spec => MetricsAppearWhole
<1>1. ASSUME IInv, [Next]_vars, NEW r \in table' \ table
      PROVE  table' \ table = {s \in rows[r.run] : stage[r.run] = "commit"}
  <2>1. PICK e \in Runs : stage[e] = "commit" /\ table' = table \cup stream[e]
    BY <1>1 DEF Next, vars, Tomorrow, Start, Program, Connect, ListNamespaces, NextNamespace,
       Pipeline, Query, Write, CreateStream, AppendArrives, AppendLost, Finalize, Commit,
       CommitRefused, CommitUnanswered, Log, Crash, Data, At
  <2>2. stream[e] = {} \/ stream[e] = rows[e] BY <1>1 DEF IInv, RowsAreOfTheMetric
  <2>3. stream[e] = rows[e] /\ r \in rows[e] BY <1>1, <2>1, <2>2
  <2>4. r.run = e BY <1>1, <2>3, HeldRows DEF IInv
  <2>5. table' \ table = rows[e] BY <1>1, <2>1, <2>3, HeldRowsAreNew
  <2> QED BY <2>1, <2>4, <2>5
<1>2. IInv /\ [Next]_vars =>
        [\A r \in table' \ table :
           table' \ table = {s \in rows[r.run] : stage[r.run] = "commit"}]_vars
  BY <1>1
<1> QED BY <1>2, ExporterInvariant, PTL DEF Spec, MetricsAppearWhole

------------------------------------------------------------------------------
\* CEIL of a quotient is not below a bound of the quotient.
LEMMA CeilDivIsAbove ==
  ASSUME NEW a \in Nat, NEW b \in Nat \ {0}, NEW q \in Nat, b * q <= a
  PROVE  CeilDiv(a, b) >= q /\ CeilDiv(a, b) \in Int
<1> DEFINE d == CeilDiv(a, b)
<1>1. d \in Int /\ a + b - 1 < b * (d + 1) BY DEF CeilDiv
<1>2. CASE d >= q BY <1>1, <1>2
<1>3. CASE d < q
  <2>1. d + 1 <= q /\ d \in Int BY <1>1, <1>3
  <2> HIDE DEF d
  <2>2. b * (d + 1) <= b * q BY <2>1
  <2> QED BY <1>1, <2>2
<1> QED BY <1>1, <1>2, <1>3

\* The view never recommends a limit below the request it recommends, whatever it recommends
\* to request and the usage is, if no limit was exported, or one that is not below the request.
THEOREM LimitKeepsItsOrder ==
  \A rec, requested, limit, usage \in Nat :
    limit = 0 \/ requested <= limit => CpuLimitRec(rec, requested, limit, usage) >= rec
<1> SUFFICES ASSUME NEW rec \in Nat, NEW requested \in Nat, NEW limit \in Nat, NEW usage \in Nat,
                    limit = 0 \/ requested <= limit
             PROVE  CpuLimitRec(rec, requested, limit, usage) >= rec
  OBVIOUS
<1> DEFINE scaled == IF limit = 0 \/ requested = 0 THEN rec ELSE CeilDiv(rec * limit, requested)
<1>1. scaled >= rec /\ scaled \in Int
  <2>1. CASE limit = 0 \/ requested = 0 BY <2>1
  <2>2. CASE limit # 0 /\ requested # 0
    <3>0. limit - requested \in Nat BY <2>2
    <3>1. rec * limit = rec * requested + rec * (limit - requested) /\ rec * (limit - requested) \in Nat
      BY <3>0
    <3>2. requested * rec <= rec * limit /\ rec * limit \in Nat BY <3>1
    <3> QED BY <2>2, <3>2, CeilDivIsAbove
  <2> QED BY <2>1, <2>2
<1>2. CpuLimitRec(rec, requested, limit, usage) = IF scaled >= usage THEN scaled ELSE usage
  BY DEF CpuLimitRec
<1> HIDE DEF scaled
<1> QED BY <1>1, <1>2

\* ROUND of a greater sum is not smaller.
LEMMA RoundDivIsMonotone ==
  ASSUME NEW a \in Nat, NEW b \in Nat, a <= b, NEW n \in Nat \ {0}
  PROVE  RoundDiv(a, n) \in Nat /\ RoundDiv(b, n) \in Nat /\ RoundDiv(a, n) <= RoundDiv(b, n)
<1> DEFINE p == RoundDiv(a, n)
           q == RoundDiv(b, n)
<1>1. /\ p \in Int /\ 2 * n * p <= 2 * a + n /\ 2 * a + n < 2 * n * (p + 1)
      /\ q \in Int /\ 2 * n * q <= 2 * b + n /\ 2 * b + n < 2 * n * (q + 1)
  BY DEF RoundDiv
<1> HIDE DEF p, q
<1>2. ASSUME NEW x \in Int, NEW y \in Int, 2 * n * x < 2 * n * (y + 1) PROVE x <= y
  <2>1. CASE x <= y
    BY <2>1
  <2>2. CASE x - (y + 1) \in Nat
    <3>1. 2 * n * x = 2 * n * (y + 1) + 2 * n * (x - (y + 1)) /\ 2 * n * (x - (y + 1)) \in Nat
      BY <2>2
    <3> QED
      BY <1>2, <3>1
  <2> QED
    BY <2>1, <2>2
<1>3. p <= q
  <2>1. 2 * n * p < 2 * n * (q + 1)
    BY <1>1
  <2> QED
    BY <1>1, <1>2, <2>1
<1>4. 0 <= p
  <2>1. 2 * n * 0 < 2 * n * (p + 1)
    BY <1>1
  <2> QED
    BY <1>1, <1>2, <2>1
<1> QED
  BY <1>1, <1>3, <1>4 DEF p, q

\* The averages over the runs of a day keep the order that request and limit have in
\* every run.
LEMMA AveragesKeepTheirOrder ==
  ASSUME NEW c \in Containers, NEW runs \in SUBSET Runs, runs # {},
         \A e \in runs : Limit[c][e] # 0
  PROVE  /\ Average(Requested[c], runs) \in Nat
         /\ Average(Limit[c], runs) \in Nat
         /\ Average(Requested[c], runs) <= Average(Limit[c], runs)
<1>1. IsFiniteSet(runs) /\ Cardinality(runs) \in Nat \ {0}
  <2>1. IsFiniteSet(Runs)
    BY FS_Interval, ExporterAssumption DEF Runs
  <2> QED
    BY <2>1, FS_Subset, FS_EmptySet, FS_CardinalityType
<1>2. \A e \in runs : Requested[c][e] \in Nat /\ Limit[c][e] \in Nat
                      /\ Requested[c][e] <= Limit[c][e]
  BY LimitsAssumption
<1>3. /\ SumFunctionOnSet(Requested[c], runs) \in Nat
      /\ SumFunctionOnSet(Limit[c], runs) \in Nat
      /\ SumFunctionOnSet(Requested[c], runs) <= SumFunctionOnSet(Limit[c], runs)
  BY <1>1, <1>2, SumIsNatural, SumMonotone
<1> QED
  BY <1>1, <1>3, RoundDivIsMonotone DEF Average

\* An average is a natural number, and 0 if no run is averaged.
LEMMA AverageIsNatural ==
  ASSUME NEW value, NEW runs \in SUBSET Runs, \A e \in Runs : value[e] \in Nat
  PROVE  Average(value, runs) \in Nat /\ (runs = {} => Average(value, runs) = 0)
<1>1. IsFiniteSet(Runs) BY FS_Interval, ExporterAssumption DEF Runs
<1>2. CASE runs = {} BY <1>2 DEF Average
<1>3. CASE runs # {}
  <2>1. IsFiniteSet(runs) /\ Cardinality(runs) \in Nat \ {0}
    BY <1>1, <1>3, FS_Subset, FS_EmptySet, FS_CardinalityType
  <2>2. SumFunctionOnSet(value, runs) \in Nat BY <2>1, SumIsNatural
  <2> QED BY <1>3, <2>1, <2>2, RoundDivIsMonotone DEF Average
<1> QED BY <1>2, <1>3

\* What a row in the table tells of its run, its container and its metric.
LEMMA ExportedRow ==
  ASSUME IInv, NEW c \in Containers, NEW d \in Days, NEW m, NEW e \in RunsWith(m, c, d)
  PROVE  /\ e \in RunsOfDay(d) /\ NamespaceOf[c] \in Monitored
         /\ \E i \in 1..Len(MetricNames) : MetricNames[i] = m
         /\ HasSeries(e, c, m)
<1>1. PICK r \in table : r.run = e /\ r.day = d /\ r.metric = m /\ r.container = c
  BY DEF RunsWith
<1>2. /\ stage[e] # "idle" /\ startDay[e] = d
      /\ NamespaceOf[c] \in Monitored
      /\ \E i \in 1..Len(MetricNames) : MetricNames[i] = m
      /\ r \in RowSet(startDay[e], e, NamespaceOf[c], m)
  BY <1>1 DEF IInv, TableIsOfTheRuns, IsRowOf, Begun
<1>3. PICK b \in Containers : /\ HasSeries(e, b, m)
                              /\ r = [run |-> e, day |-> startDay[e], metric |-> m,
                                      container |-> b, named |-> Filled(m)]
  BY <1>2 DEF RowSet
<1>4. b = c BY <1>1, <1>3
<1> QED BY <1>2, <1>3, <1>4 DEF RunsOfDay, RunsWith

CpuAmounts == {"cpu_requested_cores", "cpu_limit_cores"}

\* A run of a day on which nothing of c was lost has exported each amount of which c has a
\* series.
LEMMA AmountIsExported ==
  ASSUME IInv, NEW c \in Containers, NEW d \in Days, Undisturbed(c, d),
         NEW m \in CpuAmounts, NamespaceOf[c] \in Monitored,
         \E i \in 1..Len(MetricNames) : MetricNames[i] = m,
         NEW e \in RunsOfDay(d), HasSeries(e, c, m)
  PROVE  e \in RunsWith(m, c, d)
<1> DEFINE r == [run |-> e, day |-> startDay[e], metric |-> m, container |-> c,
                 named |-> Filled(m)]
<1>1. e \in Runs /\ startDay[e] = d /\ stage[e] = "done" BY DEF RunsOfDay, Undisturbed
<1>2. PICK i \in 1..Len(MetricNames) : MetricNames[i] = m OBVIOUS
<1>3. ExportedAll(e) /\ Begun(e) /\ ~Copying(e) /\ todo[e] = {}
  BY <1>1 DEF IInv, NothingIsMissed, NamespaceIsBegun, Begun, Copying
<1>4. RowSet(startDay[e], e, NamespaceOf[c], MetricNames[i]) \subseteq table \cup missed
  BY <1>3 DEF ExportedAll
<1>5. r \in RowSet(startDay[e], e, NamespaceOf[c], m) BY DEF RowSet
<1>6. r.run = e /\ r.day = startDay[e] /\ r.metric = m /\ r.container = c OBVIOUS
<1> HIDE DEF r
<1>7. r \notin missed BY <1>6 DEF Undisturbed, CpuAmounts
<1> QED BY <1>1, <1>2, <1>4, <1>5, <1>6, <1>7 DEF RunsWith

\* If both amounts of c are in the table, they are of the same runs, in all of which c has a
\* request and a limit.
LEMMA AmountsAreOfTheSameRuns ==
  ASSUME IInv, NEW c \in Containers, NEW d \in Days, Undisturbed(c, d), Steady(c, d),
         RunsWith("cpu_requested_cores", c, d) # {}, RunsWith("cpu_limit_cores", c, d) # {}
  PROVE  /\ RunsWith("cpu_requested_cores", c, d) = RunsWith("cpu_limit_cores", c, d)
         /\ \A e \in RunsWith("cpu_limit_cores", c, d) : Limit[c][e] # 0
<1>1. PICK g \in RunsWith("cpu_requested_cores", c, d) : TRUE OBVIOUS
<1>2. PICK h \in RunsWith("cpu_limit_cores", c, d) : TRUE OBVIOUS
<1>3. /\ g \in RunsOfDay(d) /\ NamespaceOf[c] \in Monitored
      /\ \E i \in 1..Len(MetricNames) : MetricNames[i] = "cpu_requested_cores"
      /\ HasSeries(g, c, "cpu_requested_cores")
  BY <1>1, ExportedRow
<1>4. /\ h \in RunsOfDay(d)
      /\ \E i \in 1..Len(MetricNames) : MetricNames[i] = "cpu_limit_cores"
      /\ HasSeries(h, c, "cpu_limit_cores")
  BY <1>2, ExportedRow
<1>5. \A e \in RunsOfDay(d) : Requested[c][e] \in Nat /\ Limit[c][e] \in Nat
  BY LimitsAssumption DEF RunsOfDay
<1>6. c \in Running /\ Requested[c][g] # 0 /\ Limit[c][h] # 0
  BY <1>3, <1>4, <1>5 DEF HasSeries, InWindow, LatestOnly
<1>7. \A e \in RunsOfDay(d) : Requested[c][e] > 0 /\ Limit[c][e] > 0
  BY <1>3, <1>4, <1>5, <1>6 DEF Steady
<1>8. \A e \in RunsOfDay(d) : \A m \in CpuAmounts : HasSeries(e, c, m)
  BY <1>6, <1>7 DEF HasSeries, InWindow, CpuAmounts
<1>9. \A m \in CpuAmounts : RunsOfDay(d) \subseteq RunsWith(m, c, d)
  BY <1>3, <1>4, <1>8, AmountIsExported DEF CpuAmounts
<1>10. \A m \in CpuAmounts : RunsWith(m, c, d) \subseteq RunsOfDay(d)
  BY ExportedRow
<1>11. \A m \in CpuAmounts : RunsWith(m, c, d) = RunsOfDay(d) BY <1>9, <1>10
<1> QED BY <1>5, <1>7, <1>11 DEF CpuAmounts

\* Of every container, with or without request and limit, and every day whose runs are over
\* and have lost neither amount of it, the recommended limit is not below the recommended
\* request: for any number of runs, that may overlap and go on after midnight, and any amounts
\* that Kubernetes accepts, if between the runs of the day none is set or removed.
\* (LimitKeepsItsOrder is for any usage and VPA.)
THEOREM LimitsStayAboveRequests == Spec => []LimitNotBelowRequest
<1>1. IInv => LimitNotBelowRequest
  <2> SUFFICES ASSUME IInv, NEW c \in Containers, NEW d \in Days,
                      Undisturbed(c, d), Steady(c, d),
                      NEW type \in {"Deployment", "StatefulSet"},
                      NEW usage \in {0, 2}, NEW vpa \in {1, 3}
               PROVE  LET requested == Average(Requested[c], RunsWith("cpu_requested_cores", c, d))
                          limit == Average(Limit[c], RunsWith("cpu_limit_cores", c, d))
                          rec == CpuRequestRec(type, requested, limit, usage, vpa, vpa + 1)
                      IN  CpuLimitRec(rec, requested, limit, usage) >= rec
    BY DEF LimitNotBelowRequest
  <2> DEFINE asking == RunsWith("cpu_requested_cores", c, d)
             limited == RunsWith("cpu_limit_cores", c, d)
             requested == Average(Requested[c], asking)
             limit == Average(Limit[c], limited)
             rec == CpuRequestRec(type, requested, limit, usage, vpa, vpa + 1)
  <2>1. asking \in SUBSET Runs /\ limited \in SUBSET Runs BY DEF RunsWith
  <2>2. \A e \in Runs : Requested[c][e] \in Nat /\ Limit[c][e] \in Nat BY LimitsAssumption
  <2>3. requested \in Nat /\ limit \in Nat BY <2>1, <2>2, AverageIsNatural
  <2>4. limit = 0 \/ requested <= limit
    <3>1. CASE asking = {}
      <4>1. requested = 0 BY <2>1, <2>2, <3>1, AverageIsNatural
      <4> HIDE DEF requested, limit
      <4> QED BY <2>3, <4>1
    <3>2. CASE limited = {} BY <2>1, <2>2, <3>2, AverageIsNatural
    <3>3. CASE asking # {} /\ limited # {}
      <4>1. asking = limited /\ \A e \in limited : Limit[c][e] # 0
        BY <3>3, AmountsAreOfTheSameRuns
      <4> QED BY <2>1, <3>3, <4>1, AveragesKeepTheirOrder
    <3> QED BY <3>1, <3>2, <3>3
  <2>5. rec \in Nat
    <3> HIDE DEF requested, limit
    <3> QED BY DEF CpuRequestRec, CeilDiv
  <2> HIDE DEF requested, limit, rec
  <2>6. usage \in Nat OBVIOUS
  <2>7. CpuLimitRec(rec, requested, limit, usage) >= rec
    BY <2>3, <2>4, <2>5, <2>6, LimitKeepsItsOrder
  <2> QED BY <2>7 DEF requested, limit, rec
<1> QED BY <1>1, ExporterInvariant, PTL
=============================================================================
