---------------------------- MODULE DecisionCycle ----------------------------
(***************************************************************************)
(* One cycle of the controller service from what it sees to what it        *)
(* decides: a current limit in or out of the bounds, costs predicted by a  *)
(* trained model (any costs) or by the analytic predictor from telemetry,  *)
(* and the decision made of them.                                          *)
(***************************************************************************)
EXTENDS Decision, Predictor

CONSTANTS
    Limits,         \* the limits the gateway may report
    Predictions,    \* for each of them, what a trained model may predict then
    Observations,   \* what the analytic predictor may be given
    NoTelemetry,    \* ... when there is a trained model
    NoDecision

(* What the analytic predictor divides by a limit within the bounds is     *)
(* exact in units of 1 / Scale.                                            *)
ASSUME CycleAssumption ==
    /\ Limits \subseteq Int
    /\ SafetyMin..SafetyMax \subseteq Limits
    /\ Predictions \in [Limits -> SUBSET [Limits -> Int \cup {Failed}]]
    /\ Observations \subseteq [p95 : Nat, p99 : Nat, errorRate : Nat, active : Nat,
                              waiting : Int, acquired : Nat, poolMax : Nat]
    /\ \A c \in SafetyMin..SafetyMax : c >= 1 => Scale % c = 0
    /\ NoTelemetry \notin Observations

(* GridOptimizer() in main.py: 8 and 2.                                    *)
ASSUME WindowHoldsStep == Window >= GridStep

(* config.Load of the gateway refuses a lower minimum from the environment *)
(* that both read; the weight of latency is 1.0.                           *)
ASSUME PressureAssumption == SafetyMin >= 1 /\ WeightLatency > 0

VARIABLES current, telemetry, cost, cooling, decision

decisionVars == <<current, telemetry, cost, cooling, decision>>

-----------------------------------------------------------------------------
DecisionInit ==
    /\ current \in Limits
    /\ telemetry \in Observations \cup {NoTelemetry}
    /\ IF telemetry = NoTelemetry
       THEN cost \in Predictions[current]
       ELSE cost = [c \in Limits |-> HeuristicCost(telemetry, c)]
    /\ cooling \in BOOLEAN
    /\ decision = NoDecision

MakeDecision ==
    /\ decision = NoDecision
    /\ decision' = Decide(current, cost, cooling)
    /\ UNCHANGED <<current, telemetry, cost, cooling>>

DecisionSpec == DecisionInit /\ [][MakeDecision]_decisionVars

-----------------------------------------------------------------------------
Changed == decision # NoDecision /\ decision.changed

InBounds(n) == n \in SafetyMin..SafetyMax

IsConvex ==
    /\ \A c \in Limits : cost[c] # Failed
    /\ \A c \in Limits : {c - 1, c + 1} \subseteq Limits =>
            cost[c - 1] + cost[c + 1] >= 2 * cost[c]

(***************************************************************************)
(* safety.py: a change is at most max_delta, towards what was chosen, and  *)
(* does not leave the bounds; a limit outside of them comes nearer to them.*)
(***************************************************************************)
EnvelopeHolds ==
    Changed =>
        /\ Abs(decision.limit - current) \in 1..SafetyDelta
        /\ InBounds(current) => InBounds(decision.limit)
        /\ ~InBounds(current) =>
            Abs(decision.limit - Bounded(current)) < Abs(current - Bounded(current))
               \/ InBounds(decision.limit)

(***************************************************************************)
(* The limit sent is usually not the one that was evaluated: the rate      *)
(* limit cuts the way to it short.  When the predicted cost is convex in   *)
(* the limit this never makes it worse than staying.                       *)
(***************************************************************************)
ConvexNoRegret ==
    Changed /\ InBounds(current) /\ IsConvex => cost[decision.limit] =< cost[current]

(***************************************************************************)
(* The grid of the next cycle is another one, and the limit it starts from *)
(* is not the one this cycle chose.  When the predicted cost stays as it   *)
(* is and is convex in the limit, a change made for a gain is not taken    *)
(* back all the same: the next change stays on its side.                   *)
(***************************************************************************)
NeverUndone ==
    LET next == Decide(decision.limit, cost, FALSE)
    IN  Changed /\ InBounds(current) /\ IsConvex /\ cost[Best(current, cost)] < cost[current]
            => IF decision.limit > current THEN next.limit > current ELSE next.limit < current

(***************************************************************************)
(* safety.py:8: insignificant improvements are ignored.  A change within   *)
(* the bounds is made for a predicted gain, and one of the threshold.      *)
(***************************************************************************)
ChangesAreSignificant ==
    LET gain == cost[current] - cost[Best(current, cost)]
    IN  Changed /\ InBounds(current) /\ HysteresisPercent > 0
            => /\ cost[current] # Failed
               /\ gain > 0 /\ gain * 100 >= HysteresisPercent * Abs(cost[current])

(***************************************************************************)
(* optimizer.py of ml says that it mirrors the online one, which sees only *)
(* a window around the current limit.  When the cost is convex in the      *)
(* limit the online one is not content with a limit two steps of the grid  *)
(* or more from the recommended one that costs more.                       *)
(***************************************************************************)
ContentNearRecommended ==
    InBounds(current) /\ IsConvex /\ Best(current, cost) = current =>
        \/ Abs(current - Recommended(cost)) < 2 * GridStep
        \/ cost[current] =< cost[Recommended(cost)]

(* What latency and waiting add to the cost in proportion to 1 / limit: a  *)
(* drifted `waiting' of -1, which the service is given as it is            *)
(* (telemetry.py:88), takes as much away as a waiter would add.            *)
LinearPressure(t) ==
    WeightLatency * (t.p95 + t.p99) * t.active + 2 * WeightWait * t.waiting

(***************************************************************************)
(* predictor.py:52: waiting shrinks and utilization falls as the limit     *)
(* grows.  The analytic predictor makes the loop grow, and never shrink, a *)
(* limit within the bounds while there is pressure to see: somebody waits, *)
(* or there is somebody inside whose latency is known.  Only a negative    *)
(* counter may hide it, where the latencies are too small to outweigh it.  *)
(***************************************************************************)
GrowsUnderPressure ==
    /\ Changed /\ InBounds(current) /\ telemetry # NoTelemetry
    /\ LinearPressure(telemetry) >= 0
    /\ LinearPressure(telemetry) > 0 \/ telemetry.p99 * telemetry.active > 0
    => decision.limit > current
=============================================================================
