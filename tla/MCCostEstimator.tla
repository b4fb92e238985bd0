--------------------------- MODULE MCCostEstimator ---------------------------
(***************************************************************************)
(* Model values for CostEstimator: manifests like those of                 *)
(* samples/k8s-cost-estimator-local, cut down to what the code tells apart.*)
(***************************************************************************)
EXTENDS CostEstimator

Amount(c, m) == [cpu |-> c, memory |-> m]

Container(req, lim) == [requests |-> req, limits |-> lim]

Object(apiVersion, kind, ns, name) ==
  [apiVersion |-> apiVersion, kind |-> kind, namespace |-> ns, name |-> name]

Workload(o, replicas, containers) ==
  [apiVersion |-> o.apiVersion, kind |-> o.kind, namespace |-> o.namespace,
   name |-> o.name, replicas |-> replicas, containers |-> containers]

Autoscaler(o, apiVersion, kind, target, minimum, maximum, metrics) ==
  [apiVersion |-> o.apiVersion, kind |-> o.kind, namespace |-> o.namespace,
   name |-> o.name, target |-> [apiVersion |-> apiVersion, kind |-> kind, name |-> target],
   minReplicas |-> minimum, maxReplicas |-> maximum, metrics |-> metrics]

CPUMetric(u) == [name |-> "cpu", utilization |-> u]

\* CPU bounded below its request, memory unbounded: limits are corrected.
Mixed == Container(Amount(400, 8), Amount(300, 0))
\* Nothing is said: the defaults apply.
Silent == Container(Amount(0, 0), Amount(0, 0))
\* Only limits are given: they are the requests too.
LimitsOnly == Container(Amount(0, 0), Amount(200, 16))

Web == Workload(Object("apps/v1", "Deployment", "", "web"), 2, <<Mixed, Silent>>)
WebOld == Workload(Object("apps/v1beta1", "Deployment", "default", "web"), Nil, <<LimitsOnly>>)
WebTest == Workload(Object("apps/v1", "Deployment", "test", "web"), Nil, <<Silent>>)
Idle == Workload(Object("apps/v1", "ReplicaSet", "", "web"), 0, <<Silent>>)
Small == Workload(Object("apps/v1", "ReplicaSet", "", "web"), 1, <<Mixed>>)
Agent == Workload(Object("apps/v1", "DaemonSet", "", "agent"), Nil, <<LimitsOnly>>)

DB == [apiVersion |-> "apps/v1", kind |-> "StatefulSet", namespace |-> "", name |-> "db",
       replicas |-> 3, containers |-> <<LimitsOnly>>,
       claims |-> <<[requests |-> 5, limits |-> 0], [requests |-> 0, limits |-> 7]>>]

Claim == [apiVersion |-> "v1", kind |-> VolumeClaimKind, namespace |-> "", name |-> "aaa",
          requests |-> 360, limits |-> 420]

HPAObject(v, ns, name) == Object(v, HPAKind, ns, name)

\* Names no apiVersion; a memory metric and two CPU metrics, the last one counts.
WebHPA == Autoscaler(HPAObject("autoscaling/v2beta2", "default", "h1"), "", "Deployment", "web",
            2, 5, <<CPUMetric(80), [name |-> "memory", utilization |-> 50], CPUMetric(40), CPUMetric(Nil)>>)
WebV1HPA == Autoscaler(HPAObject("autoscaling/v1", "", "h2"), "apps/v1", "Deployment", "web", Nil, 4, <<>>)
\* Over 100 % of the request, and scaled to zero at rest.
DBHPA == Autoscaler(HPAObject("autoscaling/v2beta1", "", "h3"), "apps/v1", "StatefulSet", "db",
            0, 3, <<CPUMetric(150)>>)
OddHPA == Autoscaler(HPAObject("autoscaling/v2beta2", "", "h4"), "", "ReplicaSet", "web",
            3, 1, <<CPUMetric(300)>>)

\* autoscaling/v2 is not registered, a Service not supported.
NewHPA == Autoscaler(HPAObject("autoscaling/v2", "", "h5"), "apps/v1", "Deployment", "web", 1, 4, <<>>)
Service == Object("v1", "Service", "", "web")

SafetyFolders ==
  { {}, {Idle}, {Web, WebHPA, WebTest, Service}, {Web, WebV1HPA, Small}, {Web, NewHPA},
    {WebOld, WebV1HPA, Claim}, {DB, DBHPA, Agent}, {Web, WebOld, WebHPA},
    {Web, WebHPA, WebV1HPA}, {Small, OddHPA, Agent}, {Agent, Claim} }

SafetyConf == [cpu |-> 500, memory |-> 0, increase |-> 100, nodes |-> 2]
=============================================================================
