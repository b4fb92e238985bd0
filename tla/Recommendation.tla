--------------------------- MODULE Recommendation ---------------------------
(***************************************************************************)
(* The arithmetic of cost-optimization/gke-vpa-recommendations/scripts/    *)
(* sql/container_recommendations.sql for one container and one day.        *)
(* Everything is in whole millicores: what has no rows is 0, as in the     *)
(* view, and the roundings are those of the view.                          *)
(***************************************************************************)
EXTENDS Integers

CeilDiv(a, b) == (a + b - 1) \div b

RoundDiv(a, b) == (2 * a + b) \div (2 * b)

\* cpu_requested_recommendation: the VPA's recommendation, or the usage of what is no
\* Deployment, and a thirtieth more.
CpuRequestRec(type, requested, limit, usage, vpa95, vpaMax) ==
  CeilDiv(31 * (IF type # "Deployment" THEN usage
                ELSE IF requested = limit THEN vpaMax ELSE vpa95), 30)

\* Mistake: the ratio of request and limit is turned over.
CpuLimitRec_inverted(rec, requested, limit, usage) ==
  LET scaled == IF limit = 0 \/ requested = 0 THEN rec ELSE CeilDiv(rec * requested, limit)
  IN IF scaled >= usage THEN scaled ELSE usage

\* cpu_limit_recommendation: the ratio that request and limit had is kept if there are
\* both, and the limit is not below the usage.
CpuLimitRec(rec, requested, limit, usage) ==
  LET scaled == IF limit = 0 \/ requested = 0 THEN rec ELSE CeilDiv(rec * limit, requested)
  IN IF scaled >= usage THEN scaled ELSE usage

=============================================================================
