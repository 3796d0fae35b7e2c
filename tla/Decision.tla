------------------------------ MODULE Decision ------------------------------
(***************************************************************************)
(* What one cycle of the controller service decides                        *)
(* (controller/src/optimizer.py, safety.py and the part of main.py between *)
(* them): the grid of candidate limits, the one with the least predicted   *)
(* cost, and the safety layer that turns it into a change or into none.    *)
(*                                                                         *)
(* A prediction is an integer, negative or 0 as well, or Failed when the   *)
(* predictor raised; `cost' is what it says of every limit.                *)
(***************************************************************************)
EXTENDS Integers, SequencesExt

CONSTANTS
    SafetyMin, SafetyMax,   \* the bounds of the safety layer
    SafetyDelta,            \* its max_delta
    HysteresisPercent,      \* its hysteresis_threshold
    Window, GridStep,       \* the two parameters of GridOptimizer
    Failed                  \* a prediction that raised

ASSUME DecisionAssumption ==
    /\ {SafetyMin, SafetyMax, SafetyDelta, HysteresisPercent, Window} \subseteq Int
    /\ GridStep \in Nat \ {0}
    /\ Failed \notin Int

(* 4 by default.  Nothing refuses less: NewAdaptiveStrategy replaces it in *)
(* the gateway, the service would take 0 for a change of nothing.          *)
ASSUME DeltaPositive == SafetyDelta >= 1

-----------------------------------------------------------------------------
(* Python's range.                                                         *)
Stepping(first, stop, step) ==
    [i \in 1..(IF stop > first THEN (stop - first - 1) \div step + 1 ELSE 0) |->
        first + (i - 1) * step]

(* Only what lies below the current limit.                                 *)
Tried_below(current) ==
    Append(Stepping(Max({SafetyMin, current - Window}), Min({SafetyMax, current}), GridStep),
           current)

(* The candidates in the order they are tried, the current limit among     *)
(* them: in its place in the grid, or last.                                *)
Tried(current) ==
    LET grid == Stepping(Max({SafetyMin, current - Window}),
                         Min({SafetyMax, current + Window}) + 1, GridStep)
    IN  IF Contains(grid, current) THEN grid ELSE Append(grid, current)

(* Where in `tried' a prediction did not raise.                            *)
Evaluated(tried, cost) == {i \in DOMAIN tried : cost[tried[i]] # Failed}

(* min(evaluated, key=...), and argmin: the first of the least.            *)
FirstLeast(tried, cost) ==
    LET seen == Evaluated(tried, cost) IN
        tried[Min({i \in seen : \A j \in seen : cost[tried[i]] =< cost[tried[j]]})]

(* The current limit when nothing could be predicted.                      *)
Best(current, cost) ==
    IF Evaluated(Tried(current), cost) = {} THEN current ELSE FirstLeast(Tried(current), cost)

(* recommend_limit of ml/src/optimization/optimizer.py, which looks at all *)
(* limits for one recorded window; a model that raises ends it.            *)
Recommended(cost) == FirstLeast(Stepping(SafetyMin, SafetyMax + 1, GridStep), cost)

(***************************************************************************)
(* `if baseline_cost and result.best_cost': main.py has an improvement     *)
(* hint when the cost of the current limit is known and neither cost is 0. *)
(***************************************************************************)
HintKnown(current, cost) ==
    /\ cost[current] \notin {Failed, 0}
    /\ cost[Best(current, cost)] # 0

Abs(n) == IF n < 0 THEN -n ELSE n

(* The difference taken the other way round.                               *)
Insignificant_signSwapped(current, cost) ==
    /\ HintKnown(current, cost)
    /\ (cost[Best(current, cost)] - cost[current]) * 100
            < HysteresisPercent * Abs(cost[current])

(* (baseline - best) / abs(baseline), in percent.                          *)
Insignificant(current, cost) ==
    /\ HintKnown(current, cost)
    /\ (cost[current] - cost[Best(current, cost)]) * 100
            < HysteresisPercent * Abs(cost[current])

Bounded(n) == Max({SafetyMin, Min({SafetyMax, n})})

(* The change in full.                                                     *)
RateLimited_unlimited(current, n) == n

(* The bounds of the change swapped.                                       *)
RateLimited_swapped(current, n) ==
    Max({current + SafetyDelta, Min({current - SafetyDelta, n})})

(* Always a whole max_delta.                                               *)
RateLimited_fullStep(current, n) ==
    IF n > current THEN current + SafetyDelta ELSE current - SafetyDelta

(* At most max_delta away from the current limit.                          *)
RateLimited(current, n) == Max({current - SafetyDelta, Min({current + SafetyDelta, n})})

(* SafetyLayer.evaluate on the optimizer's answer.                         *)
Decide(current, cost, inCooldown) ==
    LET target == Bounded(Best(current, cost)) IN
        IF Insignificant(current, cost) \/ target = current \/ inCooldown
        THEN [changed |-> FALSE, limit |-> current]
        ELSE [changed |-> TRUE, limit |-> RateLimited(current, target)]
=============================================================================
