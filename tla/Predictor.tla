----------------------------- MODULE Predictor -----------------------------
(***************************************************************************)
(* HeuristicPredictor of controller/src/predictor.py, which predicts the   *)
(* cost J of a limit when there is no trained model.  The arithmetic is    *)
(* exact: weights are given in twentieths (3.0, 1.5 and 0.05 are 60, 30    *)
(* and 1), that of latency as it is (1.0 is 1) because latencies are       *)
(* counted in twentieths of a second, and the result is in units of        *)
(* 1 / (2 * Scale^2) of a twentieth, where Scale is a common multiple of   *)
(* the limits within the bounds.                                           *)
(***************************************************************************)
EXTENDS Integers

CONSTANTS
    WeightLatency, WeightError, WeightWait, WeightResource,
    Scale

ASSUME PredictorAssumption ==
    /\ {WeightLatency, WeightError, WeightWait, WeightResource} \subseteq Int
    /\ Scale \in Nat \ {0}

AtLeast1(n) == IF n < 1 THEN 1 ELSE n

(* n / limit, in units of 1 / Scale.                                       *)
Share(n, limit) == n * (Scale \div limit)

(* The quotient upside down.                                               *)
LatencyCost_inverted(t, limit) ==
    LET u == (limit * Scale) \div AtLeast1(t.active) IN
        2 * t.p99 * (Scale * Scale + 2 * u * u) + (t.p95 + t.p99) * u * Scale

(* p99 * (1 + 2 * u^2) + (p95 + p99) / 2 * u, u being the utilization the  *)
(* limit would have.                                                       *)
LatencyCost(t, limit) ==
    LET u == Share(t.active, limit) IN
        2 * t.p99 * (Scale * Scale + 2 * u * u) + (t.p95 + t.p99) * u * Scale

(* The four terms: the last one does not depend on the candidate.          *)
HeuristicCost(t, candidate) ==
    LET limit == AtLeast1(candidate) IN
        WeightLatency * LatencyCost(t, limit)
         + WeightError * t.errorRate * 2 * Scale * Scale
         + WeightWait * Share(t.waiting, limit) * 2 * Scale
         + WeightResource * ((t.acquired * 2 * Scale * Scale) \div AtLeast1(t.poolMax))
=============================================================================
