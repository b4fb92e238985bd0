------------------------- MODULE MCMetricsExporter -------------------------
(* A small instance of MetricsExporter for TLC. *)
EXTENDS MetricsExporter

\* One metric of each kind, and the two that the view relates.
MCMetricNames == <<"cpu_requested_cores", "cpu_limit_cores", "vpa_cpu_recommendation">>

MCContainers == {"web", "job", "dns"}

\* "kube-system" is excluded; "batch" has rows of the third metric only, as "job" has neither
\* request nor limit.
MCNamespaceOf == [web |-> "shop", job |-> "batch", dns |-> "kube-system"]

MCRunning == {"web", "job", "dns"}

\* The amounts of "web" are raised between the runs.
MCRequested == [c \in MCContainers |-> IF c = "job" THEN <<0, 0>> ELSE <<2, 3>>]
MCLimit == [c \in MCContainers |-> IF c = "job" THEN <<0, 0>> ELSE <<2, 5>>]
=============================================================================
