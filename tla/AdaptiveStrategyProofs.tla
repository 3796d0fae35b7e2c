----------------------- MODULE AdaptiveStrategyProofs -----------------------
(***************************************************************************)
(* The adaptive strategy keeps its envelope for every configuration,       *)
(* nonsensical ones included, every candidate, every number of handlers    *)
(* and requests and any wait for the lock.                                 *)
(***************************************************************************)
EXTENDS AdaptiveStrategy, AdmissionControllerProofs

-----------------------------------------------------------------------------
(* What NewAdaptiveStrategy makes of any configuration.                    *)
LEMMA ConfigFacts ==
    /\ minLimit \in Nat \ {0} /\ maxLimit \in Nat \ {0} /\ minLimit =< maxLimit
    /\ maxDelta \in Nat \ {0} /\ cooldown \in Nat \ {0} /\ freshTimeout \in Nat \ {0}
    /\ fallbackTo \in minLimit..maxLimit
    /\ LongAgo \in Nat /\ LongAgo = cooldown + MaxLag
    /\ TooLong \in Nat /\ TooLong = freshTimeout + 1
    /\ MaxLag \in Nat
<1>1. /\ minLimit \in Nat \ {0} /\ maxLimit \in Nat \ {0} /\ minLimit =< maxLimit
  <2>1. CfgMinLimit \in Int /\ CfgMaxLimit \in Int
    BY AdaptiveAssumption
  <2>2. minLimit \in Nat \ {0}
    BY <2>1 DEF minLimit
  <2> QED BY <2>1, <2>2 DEF maxLimit
<1>2. maxDelta \in Nat \ {0} /\ cooldown \in Nat \ {0} /\ freshTimeout \in Nat \ {0}
  BY AdaptiveAssumption DEF maxDelta, cooldown, freshTimeout
<1>3. fallbackTo \in minLimit..maxLimit
  BY <1>1, AdaptiveAssumption DEF fallbackTo, clampInt
<1> QED BY <1>1, <1>2, <1>3, AdaptiveAssumption DEF LongAgo, TooLong

(* A clamped value lies within the bounds.                                 *)
LEMMA ClampFacts ==
    ASSUME NEW v \in Int
    PROVE  clampInt(v, minLimit, maxLimit) \in minLimit..maxLimit
BY ConfigFacts DEF clampInt

(* Trimming keeps what is within the bounds there, and never undoes a      *)
(* change altogether.                                                      *)
LEMMA TrimmedFacts ==
    ASSUME limit \in minLimit..maxLimit, NEW target \in minLimit..maxLimit
    PROVE  /\ Trimmed(target) \in minLimit..maxLimit
           /\ AtLeastOne(Trimmed(target)) = Trimmed(target)
           /\ Trimmed(target) - limit =< maxDelta
           /\ limit - Trimmed(target) =< maxDelta
           /\ target # limit => Trimmed(target) # limit
BY ConfigFacts DEF Trimmed, AtLeastOne

-----------------------------------------------------------------------------
(* The inductive invariant: the controller's, and the types, among which   *)
(* is that the limit stays within its bounds.                              *)
AdaptiveInv == ControllerInv /\ AdaptiveTypeOK

(***************************************************************************)
(* What one Apply does, whoever calls it and with however old a clock: a   *)
(* change is within the envelope, sets lastApply, and happens only when    *)
(* the cooldown is over by the caller's clock.                             *)
(***************************************************************************)
LEMMA ApplyFacts ==
    ASSUME ControllerInv, limit \in minLimit..maxLimit,
           NEW candidate \in Int, NEW lag \in Lag, Apply(candidate, lag)
    PROVE  /\ ControllerInv'
           /\ limit' \in minLimit..maxLimit
           /\ limit' - limit =< maxDelta /\ limit - limit' =< maxDelta
           /\ signalAge' = lag
           /\ IF limit' = limit THEN applyAge' = applyAge
              ELSE applyAge' = lag /\ ~InCooldown(lag)
<1> DEFINE clamped == clampInt(candidate, minLimit, maxLimit)
<1>1. clamped \in minLimit..maxLimit
  BY ClampFacts
<1>2. signalAge' = lag
  BY DEF Apply
<1>3. CASE UNCHANGED <<controllerVars, applyAge>>
  <2>1. ControllerInv'
    BY <1>3, NextInv DEF controllerVars
  <2>2. limit' = limit /\ applyAge' = applyAge
    BY <1>3 DEF controllerVars
  <2> QED BY <1>2, <2>1, <2>2, ConfigFacts
<1>4. CASE /\ clamped # limit /\ ~InCooldown(lag)
           /\ SetLimit(Trimmed(clamped))
           /\ applyAge' = lag
  <2>1. /\ Trimmed(clamped) \in minLimit..maxLimit
        /\ AtLeastOne(Trimmed(clamped)) = Trimmed(clamped)
        /\ Trimmed(clamped) - limit =< maxDelta
        /\ limit - Trimmed(clamped) =< maxDelta
        /\ Trimmed(clamped) # limit
    BY <1>1, <1>4, TrimmedFacts
  <2>2. Trimmed(clamped) \in Int
    BY <2>1, ConfigFacts
  <2>3. ControllerInv'
    BY <1>4, <2>2, SetLimitStep
  <2>4. limit' = Trimmed(clamped)
    BY <1>4, <2>1 DEF SetLimit
  <2> QED BY <1>2, <1>4, <2>1, <2>3, <2>4
<1> QED BY <1>3, <1>4 DEF Apply

(* What requests do leaves the limit alone.                                *)
LEMMA RequestFacts ==
    ASSUME ControllerInv, NEW r \in Requests, RequestStep(r)
    PROVE  ControllerInv' /\ limit' = limit
<1>1. ControllerInv'
  BY NextInv DEF ControllerNext
<1> QED BY <1>1 DEF RequestStep, AcquireFast, AcquireEnqueue, ReceiveGrant,
                    ContextDone, AbandonQueued, AbandonGranted, Release

(* The strategy starts within its bounds.                                  *)
LEMMA AdaptiveInitInv == AdaptiveInit => AdaptiveInv
<1> SUFFICES ASSUME AdaptiveInit PROVE AdaptiveInv
  OBVIOUS
<1>1. ControllerInv /\ ControllerTypeOK
  BY InitInv DEF AdaptiveInit, ControllerInv
<1>2. limit \in minLimit..maxLimit
  BY StartsWithinBounds DEF AdaptiveInit, ControllerInit
<1>3. /\ applyAge \in 0..LongAgo \cup {Never}
      /\ signalAge \in 0..TooLong \cup Lag
      /\ poster \in [Posters -> Lag \cup {Idle}]
      /\ watchdog \in Lag \cup {Idle, Stale}
      /\ online \in BOOLEAN
  BY ConfigFacts DEF AdaptiveInit
<1> QED BY <1>1, <1>2, <1>3 DEF AdaptiveInv, AdaptiveTypeOK

(* The types of the strategy's own variables.                              *)
AgesOK ==
    /\ applyAge \in 0..LongAgo \cup {Never}
    /\ signalAge \in 0..TooLong \cup Lag
    /\ poster \in [Posters -> Lag \cup {Idle}]
    /\ watchdog \in Lag \cup {Idle, Stale}
    /\ online \in BOOLEAN

(* A handler, or the watchdog, that is in Apply has a clock no older than  *)
(* the bound, and what it calls Apply with is a number.                    *)
LEMMA CallersFacts ==
    ASSUME AdaptiveInv
    PROVE  /\ \A p \in Posters : poster[p] # Idle => poster[p] \in Lag
           /\ watchdog \notin {Idle, Stale} => watchdog \in Lag
           /\ Candidates \subseteq Int /\ fallbackTo \in Int
           /\ Lag \subseteq 0..LongAgo
BY ConfigFacts, AdaptiveAssumption DEF AdaptiveInv, AdaptiveTypeOK, Lag

(* Every step keeps the envelope, and moves the limit by at most maxDelta. *)
LEMMA AdaptiveNextInv ==
    ASSUME AdaptiveInv, [AdaptiveNext]_systemVars
    PROVE  /\ AdaptiveInv'
           /\ limit' - limit =< maxDelta /\ limit - limit' =< maxDelta
<1> DEFINE Good == /\ ControllerInv'
                   /\ limit' \in minLimit..maxLimit
                   /\ limit' - limit =< maxDelta /\ limit - limit' =< maxDelta
                   /\ AgesOK'
<1> SUFFICES Good
  BY DEF AdaptiveInv, AdaptiveTypeOK, AgesOK, ControllerInv
<1>1. /\ ControllerInv /\ limit \in minLimit..maxLimit /\ AgesOK
  BY DEF AdaptiveInv, AdaptiveTypeOK, AgesOK
<1>2. limit \in Int /\ maxDelta \in Nat
  BY <1>1, ConfigFacts
<1>3. ASSUME UNCHANGED controllerVars, AgesOK' PROVE Good
  <2>1. ControllerInv' /\ limit' = limit
    BY <1>1, <1>3, NextInv DEF controllerVars
  <2> QED BY <1>1, <1>2, <1>3, <2>1
<1>4. ASSUME NEW r \in Requests, RequestStep(r), UNCHANGED adaptiveVars PROVE Good
  <2>1. ControllerInv' /\ limit' = limit
    BY <1>1, <1>4, RequestFacts
  <2> QED BY <1>1, <1>2, <1>4, <2>1 DEF adaptiveVars, AgesOK
<1>5. ASSUME NEW p \in Posters, Post(p) PROVE Good
  BY <1>1, <1>3, <1>5, ConfigFacts DEF Post, AgesOK, Lag
<1>6. ASSUME NEW p \in Posters, ApplyPosted(p) PROVE Good
  <2>1. poster[p] \in Lag
    BY <1>6, CallersFacts DEF ApplyPosted
  <2>2. PICK c \in Candidates : Apply(c, poster[p])
    BY <1>6 DEF ApplyPosted
  <2>3. c \in Int
    BY CallersFacts
  <2>4. /\ ControllerInv'
        /\ limit' \in minLimit..maxLimit
        /\ limit' - limit =< maxDelta /\ limit - limit' =< maxDelta
        /\ signalAge' = poster[p]
        /\ applyAge' \in {applyAge, poster[p]}
    BY <1>1, <2>1, <2>2, <2>3, ApplyFacts
  <2>5. applyAge' \in 0..LongAgo \cup {Never} /\ signalAge' \in 0..TooLong \cup Lag
    BY <1>1, <2>1, <2>4, CallersFacts DEF AgesOK
  <2>6. AgesOK'
    BY <1>1, <1>6, <2>5 DEF ApplyPosted, AgesOK
  <2> QED BY <2>4, <2>6
<1>7. CASE CheckFresh \/ EnterFallback
  <2>1. AgesOK'
    BY <1>1, <1>7, ConfigFacts DEF CheckFresh, EnterFallback, AgesOK, Lag
  <2> QED BY <1>3, <1>7, <2>1 DEF CheckFresh, EnterFallback
<1>8. CASE ApplyFallback
  <2>1. watchdog \in Lag /\ fallbackTo \in Int
    BY <1>8, CallersFacts DEF ApplyFallback
  <2>2. /\ ControllerInv'
        /\ limit' \in minLimit..maxLimit
        /\ limit' - limit =< maxDelta /\ limit - limit' =< maxDelta
        /\ signalAge' = watchdog
        /\ applyAge' \in {applyAge, watchdog}
    BY <1>1, <1>8, <2>1, ApplyFacts DEF ApplyFallback
  <2>3. applyAge' \in 0..LongAgo \cup {Never} /\ signalAge' \in 0..TooLong \cup Lag
    BY <1>1, <2>1, <2>2, CallersFacts DEF AgesOK
  <2>4. AgesOK'
    BY <1>1, <1>8, <2>3 DEF ApplyFallback, AgesOK
  <2> QED BY <2>2, <2>4
<1>9. CASE GoOffline \/ GoOnline
  <2>1. AgesOK'
    BY <1>1, <1>9 DEF GoOffline, GoOnline, AgesOK
  <2> QED BY <1>3, <1>9, <2>1 DEF GoOffline, GoOnline
<1>10. CASE Tick
  <2>1. applyAge' \in 0..LongAgo \cup {Never} /\ signalAge' \in 0..TooLong \cup Lag
    BY <1>1, <1>10, ConfigFacts, AdaptiveAssumption DEF Tick, AgesOK, Older, Lag
  <2>2. poster' \in [Posters -> Lag \cup {Idle}]
    <3>1. ASSUME NEW p \in Posters, poster[p] # Idle PROVE poster[p] + 1 \in Lag
      <4>1. poster[p] \in 0..MaxLag /\ poster[p] # MaxLag
        BY <1>1, <1>10, <3>1 DEF Tick, AgesOK, Lag
      <4> QED BY <4>1, ConfigFacts DEF Lag
    <3> QED BY <1>10, <3>1 DEF Tick
  <2>3. watchdog' \in Lag \cup {Idle, Stale} /\ online' \in BOOLEAN
    BY <1>1, <1>10, ConfigFacts DEF Tick, AgesOK, Lag
  <2> QED BY <1>3, <1>10, <2>1, <2>2, <2>3 DEF Tick, AgesOK
<1>11. CASE UNCHANGED systemVars
  BY <1>1, <1>3, <1>11 DEF systemVars, controllerVars, AgesOK
<1> QED BY <1>4, <1>5, <1>6, <1>7, <1>8, <1>9, <1>10, <1>11 DEF AdaptiveNext

-----------------------------------------------------------------------------
(* The envelope holds in every reachable state.                            *)
THEOREM AdaptiveInvariant == AdaptiveSpec => []AdaptiveInv
<1>1. AdaptiveInit => AdaptiveInv
  BY AdaptiveInitInv
<1>2. AdaptiveInv /\ [AdaptiveNext]_systemVars => AdaptiveInv'
  BY AdaptiveNextInv
<1> QED BY <1>1, <1>2, PTL DEF AdaptiveSpec

(* The limit never leaves minLimit..maxLimit, whatever is posted, and the  *)
(* ages stay below their caps.                                             *)
THEOREM AdaptiveTypeCorrect == AdaptiveSpec => []AdaptiveTypeOK
<1>1. AdaptiveInv => AdaptiveTypeOK
  BY DEF AdaptiveInv
<1> QED BY <1>1, AdaptiveInvariant, PTL

(* No step moves the limit by more than maxDelta, the fallback's included. *)
THEOREM StepsStayBounded == AdaptiveSpec => StepBounded
<1>1. AdaptiveInv /\ [AdaptiveNext]_systemVars
        => [limit' - limit =< maxDelta /\ limit - limit' =< maxDelta]_systemVars
  BY AdaptiveNextInv
<1> QED BY <1>1, AdaptiveInvariant, PTL DEF AdaptiveSpec, StepBounded

-----------------------------------------------------------------------------
(* The way to the fallback.                                                *)

Distance == IF limit >= fallbackTo THEN limit - fallbackTo ELSE fallbackTo - limit

(* The service has gone, and none of its posts is still in a handler.      *)
Abandoned == ~online /\ \A p \in Posters : poster[p] = Idle

(***************************************************************************)
(* Until the service is back nothing moves the limit away from the         *)
(* fallback; an Apply of the watchdog outside of the cooldown brings it    *)
(* there, or a whole maxDelta nearer.                                      *)
(***************************************************************************)
Approaching ==
    Abandoned =>
        /\ Abandoned' \/ online'
        /\ Distance' =< Distance
        /\ ApplyFallback /\ ~InCooldown(watchdog) =>
             limit' = fallbackTo \/ Distance' = Distance - maxDelta

LEMMA FallbackMoves ==
    ASSUME AdaptiveInv, ApplyFallback
    PROVE  /\ Distance' =< Distance
           /\ ~InCooldown(watchdog) => limit' = fallbackTo \/ Distance' = Distance - maxDelta
<1>1. /\ limit \in minLimit..maxLimit /\ minLimit \in Nat \ {0} /\ maxLimit \in Nat
      /\ maxDelta \in Nat \ {0} /\ fallbackTo \in minLimit..maxLimit
  BY ConfigFacts DEF AdaptiveInv, AdaptiveTypeOK
<1>2. clampInt(fallbackTo, minLimit, maxLimit) = fallbackTo
  BY <1>1 DEF clampInt
<1>3. PICK n \in Int : n = Trimmed(fallbackTo) /\ n \in minLimit..maxLimit
  BY <1>1, TrimmedFacts
<1>4. n = IF fallbackTo > limit + maxDelta THEN limit + maxDelta
          ELSE IF fallbackTo < limit - maxDelta THEN limit - maxDelta
          ELSE fallbackTo
  BY <1>3 DEF Trimmed
<1>5. \/ limit' = limit /\ (fallbackTo = limit \/ InCooldown(watchdog))
      \/ limit' = n
  <2>1. \/ /\ fallbackTo = limit \/ InCooldown(watchdog)
           /\ UNCHANGED controllerVars
        \/ SetLimit(n)
    BY <1>2, <1>3 DEF ApplyFallback, Apply
  <2>2. AtLeastOne(n) = n
    BY <1>1, <1>3 DEF AtLeastOne
  <2> QED BY <2>1, <2>2 DEF SetLimit, controllerVars
<1>6. fallbackTo' = fallbackTo
  BY DEF fallbackTo, clampInt, minLimit, maxLimit
<1>7. CASE limit' = limit /\ (fallbackTo = limit \/ InCooldown(watchdog))
  BY <1>1, <1>6, <1>7 DEF Distance
<1>8. CASE limit' = n
  BY <1>1, <1>3, <1>4, <1>6, <1>8 DEF Distance
<1> QED BY <1>5, <1>7, <1>8

LEMMA ApproachStep ==
    ASSUME AdaptiveInv, AdaptiveNext
    PROVE  Approaching
<1> SUFFICES ASSUME Abandoned
             PROVE  /\ Abandoned' \/ online'
                    /\ Distance' =< Distance
                    /\ ApplyFallback /\ ~InCooldown(watchdog) =>
                         limit' = fallbackTo \/ Distance' = Distance - maxDelta
  BY DEF Approaching
<1>1. Abandoned' \/ online'
  BY DEF Abandoned, AdaptiveNext, Post, ApplyPosted, CheckFresh, EnterFallback, ApplyFallback,
         GoOffline, GoOnline, Tick, adaptiveVars
<1>2. CASE ApplyFallback
  BY <1>1, <1>2, FallbackMoves
<1>3. CASE ~ApplyFallback
  <2>1. \A p \in Posters : ~ApplyPosted(p) /\ ~Post(p)
    BY DEF Abandoned, ApplyPosted, Post
  <2>2. limit' = limit
    <3>1. CASE \E r \in Requests : RequestStep(r)
      BY <3>1, RequestFacts DEF AdaptiveInv
    <3>2. CASE CheckFresh \/ EnterFallback \/ GoOffline \/ GoOnline \/ Tick
      BY <3>2 DEF CheckFresh, EnterFallback, GoOffline, GoOnline, Tick, controllerVars
    <3> QED BY <1>3, <2>1, <3>1, <3>2 DEF AdaptiveNext
  <2>3. Distance' = Distance /\ Distance \in Int
    BY <2>2, ConfigFacts
       DEF Distance, AdaptiveInv, AdaptiveTypeOK, fallbackTo, clampInt, minLimit, maxLimit
  <2> QED BY <1>1, <1>3, <2>3
<1> QED BY <1>2, <1>3

(* The part of FallbackReached that needs no fairness: what each step does *)
(* to the distance from the fallback (strategy.go:286-353).                *)
THEOREM FallbackApproached == AdaptiveSpec => [][Approaching]_systemVars
<1>1. AdaptiveInv /\ [AdaptiveNext]_systemVars => [Approaching]_systemVars
  BY ApproachStep
<1> QED BY <1>1, AdaptiveInvariant, PTL DEF AdaptiveSpec

-----------------------------------------------------------------------------
(* Apply is a call of SetLimit, with a limit up to the maximum, or leaves  *)
(* the controller alone.                                                   *)
LEMMA ApplyStepsController ==
    ASSUME limit \in minLimit..maxLimit, NEW candidate \in Int, NEW lag \in Lag,
           Apply(candidate, lag)
    PROVE  [ControllerNext]_controllerVars
<1> DEFINE clamped == clampInt(candidate, minLimit, maxLimit)
<1>1. CASE UNCHANGED <<controllerVars, applyAge>>
  BY <1>1
<1>2. CASE SetLimit(Trimmed(clamped))
  <2>1. Trimmed(clamped) \in minLimit..maxLimit
    BY ClampFacts, TrimmedFacts
  <2>2. Trimmed(clamped) \in LimitInputs
    BY <2>1, ConfigFacts, LimitsSettable
  <2> QED BY <1>2, <2>2 DEF ControllerNext
<1> QED BY <1>1, <1>2 DEF Apply

(***************************************************************************)
(* Seen from the requests the strategy, its handlers and its watchdog are  *)
(* a sequence of SetLimit calls.                                           *)
(***************************************************************************)
LEMMA AdaptiveStepsController ==
    ASSUME AdaptiveInv, [AdaptiveNext]_systemVars
    PROVE  [ControllerNext]_controllerVars
<1>1. limit \in minLimit..maxLimit
  BY DEF AdaptiveInv, AdaptiveTypeOK
<1>2. CASE \E r \in Requests : RequestStep(r)
  BY <1>2 DEF ControllerNext
<1>3. ASSUME NEW p \in Posters, ApplyPosted(p) PROVE [ControllerNext]_controllerVars
  <2>1. poster[p] \in Lag
    BY <1>3, CallersFacts DEF ApplyPosted
  <2>2. PICK c \in Candidates : Apply(c, poster[p])
    BY <1>3 DEF ApplyPosted
  <2>3. c \in Int
    BY CallersFacts
  <2> QED BY <1>1, <2>1, <2>2, <2>3, ApplyStepsController
<1>4. CASE ApplyFallback
  <2>1. watchdog \in Lag /\ fallbackTo \in Int /\ Apply(fallbackTo, watchdog)
    BY <1>4, CallersFacts DEF ApplyFallback
  <2> QED BY <1>1, <2>1, ApplyStepsController
<1>5. CASE \/ \E p \in Posters : Post(p)
           \/ CheckFresh \/ EnterFallback \/ GoOffline \/ GoOnline \/ Tick
           \/ UNCHANGED systemVars
  <2>1. UNCHANGED controllerVars
    BY <1>5 DEF Post, CheckFresh, EnterFallback, GoOffline, GoOnline, Tick,
                systemVars, controllerVars
  <2> QED BY <2>1
<1> QED BY <1>2, <1>3, <1>4, <1>5 DEF AdaptiveNext

(* Under this strategy the gateway's admission is the controller, and so   *)
(* everything proved of the controller holds under it.                     *)
THEOREM AdaptiveImplementsController == AdaptiveSpec => ControllerSpec
<1>1. AdaptiveInit => ControllerInit
  BY DEF AdaptiveInit
<1>2. AdaptiveInv /\ [AdaptiveNext]_systemVars => [ControllerNext]_controllerVars
  BY AdaptiveStepsController
<1> QED BY <1>1, <1>2, AdaptiveInvariant, PTL DEF AdaptiveSpec, ControllerSpec

(* ... and the gate, however candidates and fallbacks come.                *)
THEOREM AdaptiveImplementsGate == AdaptiveSpec => Gate!GateSpec
BY AdaptiveImplementsController, ControllerImplementsGate
=============================================================================
