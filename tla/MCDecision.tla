----------------------------- MODULE MCDecision -----------------------------
(***************************************************************************)
(* The decision of one cycle for every small input: arbitrary predictions  *)
(* for the limits that are tried, convex ones for all limits, and those of *)
(* the analytic predictor for telemetry from an idle gateway to one that   *)
(* is overloaded.                                                          *)
(***************************************************************************)
EXTENDS DecisionCycle

ZeroToSeven == 0..7

(* A knee at t, flat to steep on either side: too few connections make     *)
(* requests wait, too many make the database slow.                         *)
ConvexCosts ==
    {[c \in Limits |-> base + (IF c < t THEN left * (t - c) ELSE right * (c - t))] :
        t \in Limits, left \in {0, 1, 10}, right \in {0, 1, 40}, base \in {-40, 0, 1, 40}}

CostsOf(tried) ==
    {[c \in Limits |-> IF c \in tried THEN f[c] ELSE 0] :
        f \in [tried -> {Failed, -10, 0, 10, 20}]}

MCPredictions == [c \in Limits |-> CostsOf(ToSet(Tried(c))) \cup ConvexCosts]

(* A trained model that is never asked: the analytic predictor alone.      *)
NoPredictions == [c \in Limits |-> {}]

(* `waiting' may be -1 (see AdmissionController).  Latencies are 0 as long *)
(* as Prometheus has no rates, or 50 ms, 1 s and 2 s.  They may be NaN as  *)
(* well, when nothing came in for 30 s: then every cost is NaN, and what   *)
(* the code decides is what it decides of costs that are all 0.            *)
MCObservations ==
    {t \in [p95 : {0, 1, 20}, p99 : {0, 1, 40}, errorRate : {0, 1}, active : {0, 1, 3},
            waiting : {-1, 0, 2}, acquired : {0, 1}, poolMax : {2}] : t.p95 =< t.p99}
=============================================================================
