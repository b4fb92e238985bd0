CONSTANTS
  MaxRuns = 2
  MaxDay = 2
  MetricNames <- MCMetricNames
  Containers <- MCContainers
  NamespaceOf <- MCNamespaceOf
  Running <- MCRunning
  Excluded = {"kube-system"}
  EnvProject = TRUE
  Requested <- MCRequested
  Limit <- MCLimit
SPECIFICATION Spec
CHECK_DEADLOCK FALSE
INVARIANTS
  LimitNotBelowRequest
  OneDatePerRun
  RowsNameTheirController
  OnlyFailedCallsLoseRows
PROPERTIES
  MetricsAppearWhole
