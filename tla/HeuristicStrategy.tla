------------------------- MODULE HeuristicStrategy -------------------------
(***************************************************************************)
(* Baseline B (backend/internal/domain/admission/strategy.go, 60-208): a   *)
(* loop that observes the admission controller every interval and moves    *)
(* its limit by a fixed step.  It is composed here with the controller it  *)
(* adjusts: requests come, wait, give up and leave between the moment the  *)
(* loop observes and the moment it acts on what it saw.                    *)
(*                                                                         *)
(* Thresholds are percentages; `active / limit >= high' is compared in     *)
(* integers.  The pool figures and the wait time of an Observation are     *)
(* left out, for adjust does not look at them, and so is the interval: a   *)
(* tick may come at any time, and keeps coming.                            *)
(***************************************************************************)
EXTENDS AdmissionController

CONSTANTS
    CfgMinLimit, CfgMaxLimit, CfgStep,      \* HeuristicConfig, as main.go fills it in
    CfgHighThreshold, CfgLowThreshold,
    NoObservation

ASSUME HeuristicAssumption ==
    {CfgMinLimit, CfgMaxLimit, CfgStep, CfgHighThreshold, CfgLowThreshold} \subseteq Int

VARIABLES
    observation,    \* what the loop saw, or NoObservation between two ticks
    loop            \* "running", "stopping" once Stop closed done, "returned"

heuristicVars == <<observation, loop>>
systemVars == <<limit, active, waiting, queue, granted, pc, observation, loop>>

-----------------------------------------------------------------------------
(* NewHeuristicStrategy replaces what makes no sense in its configuration. *)
minLimit == IF CfgMinLimit < 1 THEN 1 ELSE CfgMinLimit
maxLimit == IF CfgMaxLimit < minLimit THEN minLimit ELSE CfgMaxLimit
step == IF CfgStep < 1 THEN 1 ELSE CfgStep
highThreshold == IF CfgHighThreshold =< 0 \/ CfgHighThreshold > 100 THEN 90 ELSE CfgHighThreshold
lowThreshold == IF CfgLowThreshold < 0 \/ CfgLowThreshold >= highThreshold THEN 30 ELSE CfgLowThreshold

(* config.Load keeps the limit from starting above the maximum; only under *)
(* `adaptive' has it to be above the minimum (Configuration).              *)
ASSUME StartsBelowMaximum == AtLeastOne(InitialLimit) =< maxLimit

(* SetLimit may be called with any limit up to the maximum.                *)
ASSUME LimitsSettable == 1..maxLimit \subseteq LimitInputs

HeuristicInit ==
    /\ ControllerInit
    /\ observation = NoObservation
    /\ loop = "running"

(* Controller.Snapshot through poolObserver.Observe; `queued' is kept for  *)
(* the properties, the code sees only `waiting'.                           *)
Observe ==
    /\ loop # "returned"
    /\ observation = NoObservation
    /\ observation' = [active |-> active, waiting |-> waiting, limit |-> limit,
                       queued |-> Len(queue)]
    /\ UNCHANGED <<controllerVars, loop>>

(* The queue is not looked at.                                             *)
Saturated_waitingIgnored(obs) ==
    /\ obs.active * 100 >= highThreshold * obs.limit
    /\ limit < maxLimit

(* A strict comparison is never true of a full controller.                 *)
Saturated_strict(obs) ==
    /\ obs.waiting > 0
    /\ obs.active * 100 > 100 * obs.limit
    /\ limit < maxLimit

Saturated(obs) ==
    /\ obs.waiting > 0
    /\ obs.active * 100 >= highThreshold * obs.limit
    /\ limit < maxLimit

(* The thresholds swapped, and the queue not looked at.                    *)
Underutilized_swapped(obs) ==
    /\ obs.active * 100 >= lowThreshold * obs.limit
    /\ limit > minLimit

(* The busy test in place of the idle one.                                 *)
Underutilized_whenWaiting(obs) ==
    /\ obs.waiting > 0
    /\ obs.active * 100 < lowThreshold * obs.limit
    /\ limit > minLimit

Underutilized(obs) ==
    /\ obs.waiting = 0
    /\ obs.active * 100 < lowThreshold * obs.limit
    /\ limit > minLimit

(* The bounds forgotten.                                                   *)
Grown_unbounded == limit + step

(* minInt(current+step, max) and maxInt(current-step, min).                *)
Grown == IF limit + step < maxLimit THEN limit + step ELSE maxLimit

Shrunk == IF limit - step > minLimit THEN limit - step ELSE minLimit

(***************************************************************************)
(* The rest of adjust, and apply.  The loop is the only caller of SetLimit *)
(* under this strategy (ApplyLimit answers ErrNotAdaptive), so the limit   *)
(* read by Limit() is still the limit when SetLimit replaces it.           *)
(***************************************************************************)
Adjust ==
    /\ observation # NoObservation
    /\ observation' = NoObservation
    /\ \/ Saturated(observation) /\ SetLimit(Grown)
       \/ /\ ~Saturated(observation)
          /\ Underutilized(observation)
          /\ SetLimit(Shrunk)
       \/ /\ ~Saturated(observation)
          /\ ~Underutilized(observation)
          /\ UNCHANGED controllerVars
    /\ UNCHANGED loop

(* Stop closes done; an adjustment under way is still carried out, and a   *)
(* tick that is ready as well may still win the select.                    *)
Stop ==
    /\ loop = "running"
    /\ loop' = "stopping"
    /\ UNCHANGED <<controllerVars, observation>>

(* The select takes done: only then, not in the middle of an adjustment.   *)
LoopReturns ==
    /\ loop = "stopping"
    /\ observation = NoObservation
    /\ loop' = "returned"
    /\ UNCHANGED <<controllerVars, observation>>

HeuristicNext ==
    \/ \E r \in Requests : RequestStep(r) /\ UNCHANGED heuristicVars
    \/ Observe
    \/ Adjust
    \/ Stop
    \/ LoopReturns

HeuristicSpec == HeuristicInit /\ [][HeuristicNext]_systemVars

(* Ticks keep coming and the loop runs; requests as in the controller.     *)
HeuristicFairSpec ==
    /\ HeuristicSpec
    /\ WF_systemVars(Observe)
    /\ WF_systemVars(Adjust)
    /\ \A r \in Requests :
        /\ WF_systemVars(ReceiveGrant(r) /\ UNCHANGED heuristicVars)
        /\ WF_systemVars(AbandonQueued(r) /\ UNCHANGED heuristicVars)
        /\ WF_systemVars(AbandonGranted(r) /\ UNCHANGED heuristicVars)
        /\ WF_systemVars(Release(r) /\ UNCHANGED heuristicVars)

-----------------------------------------------------------------------------
(* The least limit there can be.                                           *)
lowest == IF AtLeastOne(InitialLimit) < minLimit THEN AtLeastOne(InitialLimit) ELSE minLimit

(* Every variable has its type, and the limit stays in the range the       *)
(* strategy is given, or between it and a start below it.                  *)
HeuristicTypeOK ==
    /\ ControllerTypeOK
    /\ limit \in lowest..maxLimit
    /\ observation = NoObservation \/
       observation \in [active : Nat, waiting : Int, limit : lowest..maxLimit, queued : Nat]
    /\ loop \in {"running", "stopping", "returned"}

(***************************************************************************)
(* The limit only shrinks on an observation of an empty queue.  The code   *)
(* never sees the queue, only `waiting', which may be 0 while somebody     *)
(* waits (abandon counts a granted waiter out twice); but then the         *)
(* controller is full and the utilization is not low.                      *)
(***************************************************************************)
ShrinksOnlyUncrowded == [][limit' < limit => observation.queued = 0]_systemVars

(* The limit only grows on an observation of somebody waiting beside a     *)
(* full controller: the counter never reports a waiter who is not there.   *)
GrowsOnlyCrowded ==
    [][limit' > limit => /\ observation.queued > 0
                         /\ observation.active >= observation.limit]_systemVars

(* A controller that stays full with the counter showing waiters gets the  *)
(* largest limit and keeps it, unless the loop is stopped: no observation  *)
(* from before makes it shrink for good.                                   *)
GrowsWhenSaturated ==
    <>[](waiting > 0 /\ active >= limit) => <>[](limit = maxLimit \/ loop # "running")

(* No request is in execute.                                               *)
NobodyInside == \A r \in Requests : pc[r] = "idle"

(***************************************************************************)
(* A controller nobody uses any more goes back to the minimum, unless it   *)
(* was below it, and stays there: the underutilization rule of adjust.     *)
(* What can keep it from that is the drift: where abandoned grants have    *)
(* left `waiting' negative, `obs.Waiting == 0' is never true again as long *)
(* as nobody comes.                                                        *)
(***************************************************************************)
ShrinksWhenIdle ==
    <>[]NobodyInside => <>[](limit =< minLimit \/ waiting < 0 \/ loop # "running")

(* docs/architecture.md:142, read as it stands: a gateway nobody uses,     *)
(* with its utilization of 0, goes back to the minimum.                    *)
IdleShrinks == <>[]NobodyInside => <>[](limit =< minLimit \/ loop # "running")
=============================================================================
