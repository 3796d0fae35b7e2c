----------------------- MODULE HeuristicStrategyProofs -----------------------
(***************************************************************************)
(* The heuristic strategy moves the limit in the right direction, and      *)
(* within its bounds, for every configuration and any number of requests,  *)
(* however stale what it has seen and however far the waiting counter has  *)
(* drifted.                                                                *)
(***************************************************************************)
EXTENDS HeuristicStrategy, AdmissionControllerProofs

-----------------------------------------------------------------------------
(* What NewHeuristicStrategy makes of any configuration.                   *)
LEMMA ConfigFacts ==
    /\ minLimit \in Nat \ {0} /\ maxLimit \in Nat \ {0} /\ minLimit =< maxLimit
    /\ step \in Nat \ {0}
    /\ highThreshold \in 0..100 /\ lowThreshold \in 0..100
    /\ lowest \in Nat \ {0} /\ lowest =< minLimit
    /\ AtLeastOne(InitialLimit) \in lowest..maxLimit
<1>1. /\ CfgMinLimit \in Int /\ CfgMaxLimit \in Int /\ CfgStep \in Int
      /\ CfgHighThreshold \in Int /\ CfgLowThreshold \in Int
  BY HeuristicAssumption
<1>2. minLimit \in Nat \ {0} /\ step \in Nat \ {0}
  BY <1>1 DEF minLimit, step
<1>3. maxLimit \in Nat \ {0} /\ minLimit =< maxLimit
  BY <1>1, <1>2 DEF maxLimit
<1>4. highThreshold \in 0..100
  BY <1>1 DEF highThreshold
<1>5. lowThreshold \in 0..100
  BY <1>1, <1>4 DEF lowThreshold
<1>6. AtLeastOne(InitialLimit) \in Nat \ {0}
  BY ControllerAssumption DEF AtLeastOne
<1>7. /\ lowest \in Nat \ {0} /\ lowest =< minLimit
      /\ AtLeastOne(InitialLimit) \in lowest..maxLimit
  BY <1>2, <1>3, <1>6, StartsBelowMaximum DEF lowest
<1> QED BY <1>2, <1>3, <1>4, <1>5, <1>7

(* A share of at most all of l is at most l.                               *)
LEMMA ShareFacts ==
    ASSUME NEW a \in Nat, NEW l \in Nat, NEW t \in 0..100, a * 100 < t * l
    PROVE  a < l
<1>1. SUFFICES ASSUME a >= l PROVE FALSE
  OBVIOUS
<1>2. (100 - t) * l >= 0
  OBVIOUS
<1>3. (100 - t) * l = 100 * l - t * l
  OBVIOUS
<1>4. t * l \in Int
  OBVIOUS
<1> QED BY <1>1, <1>2, <1>3, <1>4

(* Both new limits are in the range, and on their side of the limit.       *)
LEMMA StepFacts ==
    ASSUME limit \in lowest..maxLimit
    PROVE  /\ Grown \in lowest..maxLimit /\ AtLeastOne(Grown) = Grown /\ Grown >= limit
           /\ limit > minLimit =>
                /\ Shrunk \in lowest..maxLimit /\ AtLeastOne(Shrunk) = Shrunk
                /\ Shrunk =< limit
           /\ Shrunk \in Int
BY ConfigFacts DEF Grown, Shrunk, AtLeastOne

-----------------------------------------------------------------------------
(***************************************************************************)
(* The inductive invariant.  An observation is of a state of the           *)
(* controller: the counter it shows is not above the length of the queue   *)
(* it does not show, and a queue means a full controller.                  *)
(***************************************************************************)
ObservationOK(obs) ==
    /\ obs \in [active : Nat, waiting : Int, limit : lowest..maxLimit, queued : Nat]
    /\ obs.waiting =< obs.queued
    /\ obs.queued > 0 => obs.active >= obs.limit

HeuristicInv ==
    /\ ControllerInv
    /\ limit \in lowest..maxLimit
    /\ observation = NoObservation \/ ObservationOK(observation)
    /\ loop \in {"running", "stopping", "returned"}

LEMMA HeuristicInitInv == HeuristicInit => HeuristicInv
BY InitInv, ConfigFacts DEF HeuristicInit, HeuristicInv, ControllerInit

(* Every step keeps the invariant, and moves the limit only for its reason.*)
LEMMA HeuristicNextInv ==
    ASSUME HeuristicInv, [HeuristicNext]_systemVars
    PROVE  /\ HeuristicInv'
           /\ limit' < limit => observation.queued = 0
           /\ limit' > limit => /\ observation.queued > 0
                                /\ observation.active >= observation.limit
<1> DEFINE Shrinking == limit' < limit => observation.queued = 0
           Growing == limit' > limit => /\ observation.queued > 0
                                        /\ observation.active >= observation.limit
           Good == HeuristicInv' /\ Shrinking /\ Growing
<1> SUFFICES Good
  OBVIOUS
<1>1. limit \in Int /\ ControllerInv
  BY ConfigFacts DEF HeuristicInv
<1>2. ASSUME ControllerInv', limit' = limit, UNCHANGED heuristicVars PROVE Good
  BY <1>1, <1>2 DEF HeuristicInv, heuristicVars, ObservationOK
<1>3. ASSUME NEW r \in Requests, RequestStep(r), UNCHANGED heuristicVars PROVE Good
  <2>1. ControllerInv'
    BY <1>1, <1>3, NextInv DEF ControllerNext
  <2>2. limit' = limit
    BY <1>3 DEF RequestStep, AcquireFast, AcquireEnqueue, ReceiveGrant, ContextDone,
                AbandonQueued, AbandonGranted, Release
  <2> QED BY <1>2, <1>3, <2>1, <2>2
<1>4. ASSUME UNCHANGED controllerVars PROVE ControllerInv' /\ limit' = limit
  BY <1>1, <1>4, NextInv DEF controllerVars
<1>5. CASE Observe
  <2>1. ControllerInv' /\ limit' = limit /\ loop' = loop
    BY <1>4, <1>5 DEF Observe
  <2>2. /\ active \in Nat /\ waiting \in Int /\ Len(queue) \in Nat
        /\ Len(queue) - waiting >= 0
        /\ Len(queue) > 0 => active >= limit
    <3>1. active \in Nat /\ waiting \in Int /\ queue \in Seq(Requests)
      BY <1>1 DEF ControllerInv, ControllerTypeOK
    <3>2. Len(queue) - waiting \in 0..(Cardinality(Requests) - 1)
      BY <1>1 DEF ControllerInv, DriftBounded
    <3>3. Len(queue) > 0 => active >= limit
      BY <1>1 DEF ControllerInv, WorkConserving
    <3> QED BY <3>1, <3>2, <3>3
  <2>3. ObservationOK([active |-> active, waiting |-> waiting, limit |-> limit,
                       queued |-> Len(queue)])
    BY <2>2 DEF ObservationOK, HeuristicInv
  <2>4. ObservationOK(observation)'
    BY <1>5, <2>3 DEF Observe, ObservationOK
  <2> QED BY <1>1, <2>1, <2>4 DEF HeuristicInv
<1>6. CASE Adjust
  <2>1. /\ ObservationOK(observation) /\ observation' = NoObservation /\ loop' = loop
        /\ limit \in lowest..maxLimit
    BY <1>6 DEF Adjust, HeuristicInv
  <2>2. /\ Grown \in lowest..maxLimit /\ AtLeastOne(Grown) = Grown /\ Grown >= limit
        /\ limit > minLimit =>
             /\ Shrunk \in lowest..maxLimit /\ AtLeastOne(Shrunk) = Shrunk /\ Shrunk =< limit
        /\ Grown \in Int /\ Shrunk \in Int
    BY <2>1, StepFacts, ConfigFacts
  <2>3. CASE Saturated(observation) /\ SetLimit(Grown)
    <3>1. ControllerInv' /\ limit' = Grown
      BY <1>1, <2>2, <2>3, SetLimitStep DEF SetLimit
    <3>2. /\ observation.waiting > 0 /\ observation.waiting \in Int /\ observation.queued \in Nat
          /\ observation.waiting =< observation.queued
          /\ observation.queued > 0 => observation.active >= observation.limit
      BY <2>1, <2>3 DEF Saturated, ObservationOK
    <3>3. observation.queued > 0
      BY <3>2
    <3>4. Growing /\ Shrinking
      BY <1>1, <2>2, <3>1, <3>2, <3>3
    <3> QED BY <2>1, <2>2, <3>1, <3>4 DEF HeuristicInv
  <2>4. CASE Underutilized(observation) /\ SetLimit(Shrunk)
    <3>0. limit > minLimit
      BY <2>4 DEF Underutilized
    <3>1. ControllerInv' /\ limit' = Shrunk
      BY <1>1, <2>2, <2>4, <3>0, SetLimitStep DEF SetLimit
    <3>2. /\ observation.active * 100 < lowThreshold * observation.limit
          /\ observation.active \in Nat /\ observation.limit \in Nat
          /\ lowThreshold \in 0..100
      BY <2>1, <2>4, ConfigFacts DEF Underutilized, ObservationOK
    <3>3. observation.active < observation.limit
      BY <3>2, ShareFacts
    <3>4. observation.queued = 0
      BY <2>1, <3>2, <3>3 DEF ObservationOK
    <3>5. Growing /\ Shrinking
      BY <1>1, <2>2, <3>0, <3>1, <3>4
    <3> QED BY <2>1, <2>2, <3>0, <3>1, <3>5 DEF HeuristicInv
  <2>5. CASE UNCHANGED controllerVars
    BY <1>1, <1>4, <2>1, <2>5 DEF HeuristicInv
  <2> QED BY <1>6, <2>3, <2>4, <2>5 DEF Adjust
<1>7. CASE Stop \/ LoopReturns
  <2>1. ControllerInv' /\ limit' = limit
    BY <1>4, <1>7 DEF Stop, LoopReturns
  <2> QED BY <1>1, <1>7, <2>1 DEF Stop, LoopReturns, HeuristicInv, ObservationOK
<1>8. CASE UNCHANGED systemVars
  <2>1. UNCHANGED controllerVars /\ UNCHANGED heuristicVars
    BY <1>8 DEF systemVars, controllerVars, heuristicVars
  <2> QED BY <1>2, <1>4, <2>1
<1> QED BY <1>3, <1>5, <1>6, <1>7, <1>8 DEF HeuristicNext

-----------------------------------------------------------------------------
(* The invariant holds in every reachable state.                           *)
THEOREM HeuristicInvariant == HeuristicSpec => []HeuristicInv
<1>1. HeuristicInit => HeuristicInv
  BY HeuristicInitInv
<1>2. HeuristicInv /\ [HeuristicNext]_systemVars => HeuristicInv'
  BY HeuristicNextInv
<1> QED BY <1>1, <1>2, PTL DEF HeuristicSpec

(* The limit never leaves the bounds, or the range from a start below them.*)
THEOREM HeuristicTypeCorrect == HeuristicSpec => []HeuristicTypeOK
<1>1. HeuristicInv => HeuristicTypeOK
  BY DEF HeuristicInv, HeuristicTypeOK, ControllerInv, ObservationOK
<1> QED BY <1>1, HeuristicInvariant, PTL

(* It shrinks only when nobody was waiting, though the counter may say so  *)
(* when somebody was.                                                      *)
THEOREM ShrinksForAReason == HeuristicSpec => ShrinksOnlyUncrowded
<1>1. HeuristicInv /\ [HeuristicNext]_systemVars
        => [limit' < limit => observation.queued = 0]_systemVars
  BY HeuristicNextInv
<1> QED BY <1>1, HeuristicInvariant, PTL DEF HeuristicSpec, ShrinksOnlyUncrowded

(* It grows only when somebody was waiting beside a full controller.       *)
THEOREM GrowsForAReason == HeuristicSpec => GrowsOnlyCrowded
<1>1. HeuristicInv /\ [HeuristicNext]_systemVars
        => [limit' > limit => /\ observation.queued > 0
                              /\ observation.active >= observation.limit]_systemVars
  BY HeuristicNextInv
<1> QED BY <1>1, HeuristicInvariant, PTL DEF HeuristicSpec, GrowsOnlyCrowded

-----------------------------------------------------------------------------
(***************************************************************************)
(* Seen from the requests a strategy is a sequence of SetLimit calls: each *)
(* step is one of the controller's, or invisible to it.                    *)
(***************************************************************************)
LEMMA HeuristicStepsController ==
    ASSUME HeuristicInv, [HeuristicNext]_systemVars
    PROVE  [ControllerNext]_controllerVars
<1>1. CASE \E r \in Requests : RequestStep(r)
  BY <1>1 DEF ControllerNext
<1>2. CASE Observe \/ Stop \/ LoopReturns \/ UNCHANGED systemVars
  <2>1. UNCHANGED controllerVars
    BY <1>2 DEF Observe, Stop, LoopReturns, systemVars, controllerVars
  <2> QED BY <2>1
<1>3. CASE Adjust
  <2>1. lowest..maxLimit \subseteq LimitInputs
    BY ConfigFacts, LimitsSettable
  <2>2. CASE SetLimit(Grown)
    <3>1. Grown \in LimitInputs
      BY <2>1, StepFacts DEF HeuristicInv
    <3> QED BY <2>2, <3>1 DEF ControllerNext
  <2>3. CASE Underutilized(observation) /\ SetLimit(Shrunk)
    <3>1. limit > minLimit
      BY <2>3 DEF Underutilized
    <3>2. Shrunk \in LimitInputs
      BY <2>1, <3>1, StepFacts DEF HeuristicInv
    <3> QED BY <2>3, <3>2 DEF ControllerNext
  <2>4. CASE UNCHANGED controllerVars
    BY <2>4
  <2> QED BY <1>3, <2>2, <2>3, <2>4 DEF Adjust
<1> QED BY <1>1, <1>2, <1>3 DEF HeuristicNext

(* Under this strategy the gateway's admission is the controller, and so   *)
(* everything proved of the controller holds under it.                     *)
THEOREM HeuristicImplementsController == HeuristicSpec => ControllerSpec
<1>1. HeuristicInit => ControllerInit
  BY DEF HeuristicInit
<1>2. HeuristicInv /\ [HeuristicNext]_systemVars => [ControllerNext]_controllerVars
  BY HeuristicStepsController
<1> QED BY <1>1, <1>2, HeuristicInvariant, PTL DEF HeuristicSpec, ControllerSpec

(* ... and the gate, whatever the loop does to the limit meanwhile.        *)
THEOREM HeuristicImplementsGate == HeuristicSpec => Gate!GateSpec
BY HeuristicImplementsController, ControllerImplementsGate
=============================================================================
