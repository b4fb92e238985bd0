-------------------------- MODULE MetricsExporter --------------------------
(***************************************************************************)
(* The Cloud Run job cost-optimization/gke-vpa-recommendations/            *)
(* metrics-exporter.  A run lists the namespaces that have metrics, and    *)
(* copies for each of them one metric after the other from Cloud           *)
(* Monitoring to a BigQuery table, each metric through a write stream of   *)
(* its own.  The view container_recommendations reads the table.           *)
(*                                                                         *)
(* Runs are started by a schedule, by its retry and by Cloud Run when one  *)
(* has failed; nothing keeps two of them apart.  A call may fail, and      *)
(* three kinds of failure are not noticed: a listing that breaks off, an   *)
(* append that does not arrive, a commit that is answered with an error.   *)
(***************************************************************************)
EXTENDS Recommendation, FiniteSets, Sequences, FiniteSetsExt

CONSTANTS
  MaxRuns,      \* bound: how often the job is started
  MaxDay,       \* bound: the days that pass
  MetricNames,  \* the keys of MQL_QUERY, in their order
  Containers,   \* the containers of the clusters
  NamespaceOf,  \* NamespaceOf[c]: the namespace of a container
  Running,      \* the containers that run; the others ended within METRIC_WINDOW
  Excluded,     \* excluded_namespaces
  EnvProject,   \* the environment names the project
  Requested,    \* Requested[c][e]: the CPU request of c at the time of run e, 0 for none
  Limit         \* Limit[c][e]: its CPU limit, 0 for none

Runs == 1..MaxRuns
Days == 1..MaxDay

GkeMetrics == {"cpu_usage", "cpu_requested_cores", "cpu_limit_cores", "cpu_request_utilization",
               "memory_usage", "memory_requested_bytes", "memory_limit_bytes",
               "memory_request_utilization"}
HpaMetrics == {"hpa_cpu", "hpa_memory"}
VpaMetrics == {"vpa_memory_recommendation", "vpa_cpu_recommendation", "vpa_cpu_recommendation_max"}

AllMetrics == GkeMetrics \cup HpaMetrics \cup VpaMetrics

ASSUME ExporterAssumption ==
  /\ MaxRuns \in Nat /\ MaxDay \in Nat \ {0}
  /\ MetricNames \in Seq(AllMetrics) /\ MetricNames # <<>>
  /\ \A i, j \in 1..Len(MetricNames) : MetricNames[i] = MetricNames[j] => i = j
  /\ Running \subseteq Containers
  /\ EnvProject \in BOOLEAN

\* Kubernetes accepts no container that has a limit below its request.
ASSUME LimitsAssumption ==
  \A c \in Containers, e \in Runs :
    /\ Requested[c][e] \in Nat /\ Limit[c][e] \in Nat
    /\ Limit[c][e] # 0 => Requested[c][e] <= Limit[c][e]

VARIABLES
  today,      \* the date
  stage,      \* stage[e]: the call that run e makes next
  project,    \* project[e]: where the run has its project from
  clients,    \* clients[e]: the names that are bound, "client" and "bqclient"
  startDay,   \* startDay[e]: the date of start_time
  todo,       \* todo[e]: the namespaces that have not been begun
  namespace,  \* namespace[e]: the namespace that is being copied
  metric,     \* metric[e]: the index of the metric that is being copied
  rows,       \* rows[e]: rows_to_insert
  stream,     \* stream[e]: the rows that have arrived in the PENDING stream
  table,      \* the rows of the BigQuery table
  missed      \* history: the rows that a failed call of a run has lost

runVars == <<startDay, project, clients>>
vars == <<today, stage, runVars, todo, namespace, metric, rows, stream, table, missed>>

None == "none"

Stages == {"idle", "connect", "list", "next", "query", "create", "send", "finalize",
           "commit", "log", "done", "crashed"}

NamespaceNames == {NamespaceOf[c] : c \in Containers}

\* A row names the run by its run_date.  `named` says whether the columns
\* controller_name, controller_type and container_name are filled.
Row == [run : Runs, day : Days, metric : AllMetrics, container : Containers, named : BOOLEAN]

TypeOK ==
  /\ today \in Days
  /\ stage \in [Runs -> Stages]
  /\ project \in [Runs -> {None, "environment", "metadata", "credentials"}]
  /\ clients \in [Runs -> SUBSET {"client", "bqclient"}]
  /\ startDay \in [Runs -> Days]
  /\ todo \in [Runs -> SUBSET NamespaceNames]
  /\ namespace \in [Runs -> NamespaceNames \cup {None}]
  /\ metric \in [Runs -> 1..Len(MetricNames)]
  /\ rows \in [Runs -> SUBSET Row]
  /\ stream \in [Runs -> SUBSET Row]
  /\ table \subseteq Row
  /\ missed \subseteq Row

Init ==
  /\ today = 1
  /\ stage = [e \in Runs |-> "idle"]
  /\ project = [e \in Runs |-> None]
  /\ clients = [e \in Runs |-> {}]
  /\ startDay = [e \in Runs |-> 1]
  /\ todo = [e \in Runs |-> {}]
  /\ namespace = [e \in Runs |-> None]
  /\ metric = [e \in Runs |-> 1]
  /\ rows = [e \in Runs |-> {}]
  /\ stream = [e \in Runs |-> {}]
  /\ table = {}
  /\ missed = {}

------------------------------------------------------------------------------
(* config.py *)

\* MQL_QUERY[m].columns: the labels by which the series of m are grouped.  The others
\* are not in the result.
Columns(m) ==
  CASE m \in GkeMetrics -> {"resource.container_name", "metadata.top_level_controller_name",
                            "metadata.top_level_controller_type"}
    [] m \in HpaMetrics -> {"metric.container_name", "metric.targetref_kind", "metric.targetref_name"}
    [] m \in VpaMetrics -> {"metric.container_name", "resource.controller_kind",
                            "resource.controller_name"}

\* MQL_QUERY[m].window: LATEST_WINDOW_SECONDS is five minutes, the others are days.
LatestOnly(m) == m \in HpaMetrics \cup {"cpu_requested_cores", "cpu_limit_cores",
                                       "memory_requested_bytes", "memory_limit_bytes"}

\* Mistake: the two autoscalers are taken for one.
LabelsRead_oneBranch(m) ==
  IF m \in HpaMetrics \cup VpaMetrics
    THEN {"metric.targetref_name", "metric.targetref_kind", "metric.container_name"}
    ELSE {"metadata.top_level_controller_name", "metadata.top_level_controller_type",
          "resource.container_name"}

\* The labels that get_gke_metrics reads; "hpa" and "vpa" are looked for in the name.
LabelsRead(m) ==
  CASE m \in HpaMetrics -> {"metric.targetref_name", "metric.targetref_kind", "metric.container_name"}
    [] m \in VpaMetrics -> {"resource.controller_name", "resource.controller_kind",
                            "metric.container_name"}
    [] OTHER -> {"metadata.top_level_controller_name", "metadata.top_level_controller_type",
                 "resource.container_name"}

\* get_interval: the series of c has points within the window of m.
InWindow(c, m) == c \in Running \/ ~LatestOnly(m)

\* The series are cAdvisor's and GKE's: of a request or a limit there are none for a container
\* that has none.  (Of the memory's amounts, which nothing here reads, this is left open.)
HasSeries(e, c, m) ==
  /\ InWindow(c, m)
  /\ m = "cpu_requested_cores" => Requested[c][e] > 0
  /\ m = "cpu_limit_cores" => Limit[c][e] > 0

\* get_aggregation groups by the columns; a label that is not among them reads as "".
Filled(m) == LabelsRead(m) \subseteq Columns(m)

\* Mistake: the rows are dated by the time at which they are read.
RowsOf_today(e, n, m) ==
  {[run |-> e, day |-> today, metric |-> m, container |-> c, named |-> Filled(m)] :
     c \in {d \in Containers : NamespaceOf[d] = n /\ HasSeries(e, d, m)}}

\* The rows that a query of metric m in namespace n gives run e, one for each container.
RowsOf(e, n, m) ==
  {[run |-> e, day |-> startDay[e], metric |-> m, container |-> c, named |-> Filled(m)] :
     c \in {d \in Containers : NamespaceOf[d] = n /\ HasSeries(e, d, m)}}

------------------------------------------------------------------------------
At(e, s) == stage[e] = s

Goto(e, s) == stage' = [stage EXCEPT ![e] = s]

Data == <<rows, stream, table>>

Tomorrow == /\ today < MaxDay
            /\ today' = today + 1
            /\ UNCHANGED <<stage, runVars, todo, namespace, metric, Data, missed>>

\* get_gcp_project_id: the environment, else the metadata server, which is given a
\* second, else the file with the credentials.
ProjectIds == IF EnvProject THEN {"environment"} ELSE {"metadata", "credentials"}

\* The job begins: it finds out its project and takes the time.
Start(e) ==
  /\ At(e, "idle")
  /\ \E p \in ProjectIds : project' = [project EXCEPT ![e] = p]
  /\ startDay' = [startDay EXCEPT ![e] = today]
  /\ Goto(e, "connect")
  /\ UNCHANGED <<today, clients, todo, namespace, metric, Data, missed>>

\* The clients are made in one try, whose exception is only logged: the names that were
\* not bound by then are missed later.
Connect(e) ==
  /\ At(e, "connect")
  /\ \E bound \in {{}, {"client"}, {"client", "bqclient"}} :
       clients' = [clients EXCEPT ![e] = bound]
  /\ Goto(e, "list")
  /\ UNCHANGED <<today, project, startDay, todo, namespace, metric, Data, missed>>

\* NS_QUERY with namespace_filter: what used CPU within METRIC_WINDOW.
Monitored == NamespaceNames \ Excluded

\* All rows of namespace n that run e is to export.
AllRowsOf(e, n) == UNION {RowsOf(e, n, MetricNames[i]) : i \in 1..Len(MetricNames)}

\* get_namespaces.  An exception ends the loop over the results, whose pages come one
\* after the other, and what has been read is returned.
ListNamespaces(e) ==
  /\ At(e, "list") /\ "client" \in clients[e]
  /\ \E found \in SUBSET Monitored :
       /\ todo' = [todo EXCEPT ![e] = found]
       /\ missed' = missed \cup UNION {AllRowsOf(e, n) : n \in Monitored \ found}
  /\ Goto(e, "next")
  /\ UNCHANGED <<today, runVars, namespace, metric, Data>>

\* The loop over the namespaces, which are in no order; run_pipeline begins.
NextNamespace(e) ==
  /\ At(e, "next")
  /\ \/ /\ todo[e] = {}
        /\ Goto(e, "done")
        /\ UNCHANGED <<todo, namespace, metric>>
     \/ /\ "bqclient" \in clients[e]
        /\ \E n \in todo[e] : /\ namespace' = [namespace EXCEPT ![e] = n]
                              /\ todo' = [todo EXCEPT ![e] = @ \ {n}]
        /\ metric' = [metric EXCEPT ![e] = 1]
        /\ Goto(e, "query")
  /\ UNCHANGED <<today, runVars, Data, missed>>

\* The loop over MQL_QUERY.
NextMetric(e) ==
  IF metric[e] < Len(MetricNames)
    THEN /\ metric' = [metric EXCEPT ![e] = @ + 1]
         /\ Goto(e, "query")
    ELSE Goto(e, "next") /\ UNCHANGED metric

\* Mistake: a metric without rows ends the pipeline of the namespace.
Query_returns(e) ==
  /\ At(e, "query")
  /\ LET all == RowsOf(e, namespace[e], MetricNames[metric[e]]) IN
       \E read \in SUBSET all :
         /\ rows' = [rows EXCEPT ![e] = read]
         /\ missed' = missed \cup (all \ read)
  /\ Goto(e, IF rows'[e] = {} THEN "next" ELSE "create")
  /\ UNCHANGED <<today, runVars, todo, namespace, metric, stream, table>>

\* get_gke_metrics.  An exception returns the rows that have been read; a metric
\* without rows is skipped.
Query(e) ==
  /\ At(e, "query")
  /\ LET all == RowsOf(e, namespace[e], MetricNames[metric[e]]) IN
       \E read \in SUBSET all :
         /\ rows' = [rows EXCEPT ![e] = read]
         /\ missed' = missed \cup (all \ read)
  /\ IF rows'[e] = {} THEN NextMetric(e) ELSE Goto(e, "create") /\ UNCHANGED metric
  /\ UNCHANGED <<today, runVars, todo, namespace, stream, table>>

\* create_write_stream, type PENDING.
CreateStream(e) ==
  /\ At(e, "create")
  /\ stream' = [stream EXCEPT ![e] = {}]
  /\ Goto(e, "send")
  /\ UNCHANGED <<today, runVars, todo, namespace, metric, rows, table, missed>>

\* Mistake: the stream is of the default type, in which rows count as they arrive.
AppendArrives_default(e) ==
  /\ At(e, "send")
  /\ \E r \in rows[e] : table' = table \cup {r}
  /\ stream' = [stream EXCEPT ![e] = rows[e]]
  /\ Goto(e, "finalize")
  /\ UNCHANGED <<today, runVars, todo, namespace, metric, rows, missed>>

\* send() does not wait for the answer, and close() shuts the connection down: the one
\* request with all the rows arrives ...
AppendArrives(e) ==
  /\ At(e, "send")
  /\ stream' = [stream EXCEPT ![e] = rows[e]]
  /\ Goto(e, "finalize")
  /\ UNCHANGED <<today, runVars, todo, namespace, metric, rows, table, missed>>

\* ... or is refused, or does not.
AppendLost(e) ==
  /\ At(e, "send")
  /\ missed' = missed \cup rows[e]
  /\ Goto(e, "finalize")
  /\ UNCHANGED <<today, runVars, todo, namespace, metric, Data>>

\* finalize_write_stream counts the rows that have arrived; nobody looks at the count.
Finalize(e) ==
  /\ At(e, "finalize")
  /\ Goto(e, "commit")
  /\ UNCHANGED <<today, runVars, todo, namespace, metric, Data, missed>>

\* batch_commit_write_streams makes the rows of the stream visible together, ...
Commit(e) ==
  /\ At(e, "commit")
  /\ table' = table \cup stream[e]
  /\ Goto(e, "log")
  /\ UNCHANGED <<today, runVars, todo, namespace, metric, rows, stream, missed>>

\* ... or refuses in the stream_errors of its answer, at which nobody looks, ...
CommitRefused(e) ==
  /\ At(e, "commit")
  /\ missed' = missed \cup stream[e]
  /\ Goto(e, "log")
  /\ UNCHANGED <<today, runVars, todo, namespace, metric, Data>>

\* What a process knows, and a stream that is not committed, ends with it.
Exit(e) ==
  /\ Goto(e, "crashed")
  /\ project' = [project EXCEPT ![e] = None]
  /\ clients' = [clients EXCEPT ![e] = {}]
  /\ todo' = [todo EXCEPT ![e] = {}]
  /\ namespace' = [namespace EXCEPT ![e] = None]
  /\ metric' = [metric EXCEPT ![e] = 1]
  /\ rows' = [rows EXCEPT ![e] = {}]
  /\ stream' = [stream EXCEPT ![e] = {}]
  /\ UNCHANGED <<today, startDay, missed>>

\* ... or commits and the answer is lost, which is an exception.
CommitUnanswered(e) ==
  /\ At(e, "commit")
  /\ table' = table \cup stream[e]
  /\ Exit(e)

\* "Writes to stream ... have been committed."  write_to_bigquery returns.
Log(e) ==
  /\ At(e, "log")
  /\ rows' = [rows EXCEPT ![e] = {}]
  /\ stream' = [stream EXCEPT ![e] = {}]
  /\ NextMetric(e)
  /\ UNCHANGED <<today, runVars, todo, namespace, table, missed>>

\* An exception that nothing catches (also a NameError for a client that is not bound),
\* or the end of the hour that Cloud Run gives a task.
Crash(e) ==
  /\ stage[e] \notin {"idle", "done", "crashed"}
  /\ Exit(e)
  /\ UNCHANGED table

------------------------------------------------------------------------------
\* get_namespaces without "client", run_pipeline without "bqclient".
NameError(e) == \/ At(e, "list") /\ "client" \notin clients[e]
                \/ At(e, "next") /\ todo[e] # {} /\ "bqclient" \notin clients[e]

\* write_to_bigquery
Write(e) ==
  \/ CreateStream(e) \/ AppendArrives(e) \/ AppendLost(e) \/ Finalize(e)
  \/ Commit(e) \/ CommitRefused(e) \/ CommitUnanswered(e) \/ Log(e)

\* run_pipeline
Pipeline(e) == Query(e) \/ Write(e)

Program(e) == Connect(e) \/ ListNamespaces(e) \/ NextNamespace(e) \/ Pipeline(e)

Next == Tomorrow \/ \E e \in Runs : Start(e) \/ Program(e) \/ Crash(e)

Spec == Init /\ [][Next]_vars

------------------------------------------------------------------------------
(* The view, over the rows of one day. *)

\* AVG over the runs of the day, rounded.
Average(value, runs) == IF runs = {} THEN 0
                        ELSE RoundDiv(SumFunctionOnSet(value, runs), Cardinality(runs))

RunsWith(m, c, d) == {e \in Runs : \E r \in table : r.run = e /\ r.day = d /\ r.metric = m /\ r.container = c}

\* The runs dated d; those that a reader of the view may rely on are over, have not crashed
\* and have lost no row of these two metrics of c.
RunsOfDay(d) == {e \in Runs : stage[e] # "idle" /\ startDay[e] = d}

Undisturbed(c, d) ==
  \A e \in RunsOfDay(d) :
    /\ stage[e] = "done"
    /\ \A r \in missed : ~(r.run = e /\ r.container = c
                            /\ r.metric \in {"cpu_requested_cores", "cpu_limit_cores"})

\* Nobody gives c a request or a limit, or takes it away, between the runs of the day; the
\* amounts may change.
Steady(c, d) ==
  \A e, h \in RunsOfDay(d) : /\ Requested[c][e] = 0 <=> Requested[c][h] = 0
                             /\ Limit[c][e] = 0 <=> Limit[c][h] = 0

\* The recommended limit is not below the recommended request, or Kubernetes would not
\* accept them: whatever the VPA says and the usage is, for every container, with or without
\* request and limit, and every day whose runs are over and have lost nothing of c.  It would not
\* hold without this: the view averages request and limit over the runs that have each of them,
\* so that a limit lost by one of two runs, not yet exported by it, or set only after the
\* first of them, is the average of other runs than the request is.
LimitNotBelowRequest ==
  \A c \in Containers, d \in Days :
    Undisturbed(c, d) /\ Steady(c, d) =>
      LET requested == Average(Requested[c], RunsWith("cpu_requested_cores", c, d))
          limit == Average(Limit[c], RunsWith("cpu_limit_cores", c, d))
      IN \A type \in {"Deployment", "StatefulSet"}, usage \in {0, 2}, vpa \in {1, 3} :
           LET rec == CpuRequestRec(type, requested, limit, usage, vpa, vpa + 1)
           IN CpuLimitRec(rec, requested, limit, usage) >= rec

\* A day's figures are not mixed with those of another day: all rows of a run have one
\* date, also of a run that goes on after midnight.
OneDatePerRun == \A r, s \in table : r.run = s.run => r.day = s.day

\* get_gke_metrics reads the labels by which config.py groups: no row is without its
\* controller or container.
RowsNameTheirController == \A r \in table : r.named

\* A failed call costs the rows that it was to read or to write, and no others: a run that
\* ends has exported every other row of every metric and monitored namespace, also of the
\* metrics and namespaces that come after the failure, and of those that follow a metric of
\* which a namespace has no rows.
OnlyFailedCallsLoseRows ==
  \A e \in Runs : stage[e] = "done" =>
    \A n \in Monitored : AllRowsOf(e, n) \subseteq table \cup missed

\* The table grows by the rows of one metric and namespace at a time, all that the query
\* returned, and by nothing of a stream that is not committed.
MetricsAppearWhole ==
  [][\A r \in table' \ table :
       table' \ table = {s \in rows[r.run] : stage[r.run] = "commit"}]_vars

=============================================================================
