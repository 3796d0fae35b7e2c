-------------------------- MODULE AdaptiveStrategy --------------------------
(***************************************************************************)
(* The adaptive strategy (backend/internal/domain/admission/strategy.go,   *)
(* 210-394) and the loop that calls its EnsureFresh                        *)
(* (backend/internal/application/admission/service.go): candidates posted  *)
(* by the controller service go through a safety envelope, and a fallback  *)
(* limit is approached when the service is silent.                         *)
(*                                                                         *)
(* Time is an age: of lastSignal, of lastApply and of the `now' each       *)
(* caller of Apply has read, in ticks of a second.  Apply reads the clock  *)
(* before it locks a.mu, so the time it works with may be old by the time  *)
(* it has the lock: MaxLag bounds by how much.  Ages stop growing where    *)
(* the code no longer tells them apart.                                    *)
(*                                                                         *)
(* Apply holds a.mu to its end and nothing else calls SetLimit, so it is   *)
(* one action from the lock on; requests act on the controller between any *)
(* two actions.                                                            *)
(***************************************************************************)
EXTENDS AdmissionController

CONSTANTS
    CfgMinLimit, CfgMaxLimit, CfgMaxDelta,          \* AdaptiveConfig
    CfgCooldown, CfgFallbackTo, CfgFreshTimeout,
    Posters,        \* the HTTP handlers that may be in Apply at a time
    Candidates,     \* the limits the service may post
    MaxLag,         \* bound: ticks from reading the clock to having the lock
    Never,          \* the age of a lastApply that IsZero
    Idle, Stale     \* where a caller of Apply is when it has read no clock

ASSUME AdaptiveAssumption ==
    /\ {CfgMinLimit, CfgMaxLimit, CfgMaxDelta, CfgCooldown, CfgFallbackTo,
        CfgFreshTimeout} \subseteq Int
    /\ Candidates \subseteq Int
    /\ MaxLag \in Nat
    /\ {Never, Idle, Stale} \cap Int = {}
    /\ Idle # Stale

VARIABLES
    applyAge,   \* since lastApply, or Never
    signalAge,  \* since lastSignal
    poster,     \* per handler: Idle, or the age of the `now' it has read
    watchdog,   \* the Start loop: Idle, Stale once EnsureFresh has seen
                \* silence and let go of the lock, or the age of its `now'
    online      \* whether the controller service posts

adaptiveVars == <<applyAge, signalAge, poster, watchdog, online>>
systemVars == <<limit, active, waiting, queue, granted, pc,
                applyAge, signalAge, poster, watchdog, online>>

-----------------------------------------------------------------------------
(* NewAdaptiveStrategy replaces what makes no sense in its configuration.  *)
minLimit == IF CfgMinLimit < 1 THEN 1 ELSE CfgMinLimit
maxLimit == IF CfgMaxLimit < minLimit THEN minLimit ELSE CfgMaxLimit
maxDelta == IF CfgMaxDelta < 1 THEN 4 ELSE CfgMaxDelta
cooldown == IF CfgCooldown =< 0 THEN 5 ELSE CfgCooldown
freshTimeout == IF CfgFreshTimeout =< 0 THEN 60 ELSE CfgFreshTimeout

(* The upper bound forgotten.                                              *)
clampInt_noUpperBound(v, lo, hi) == IF v < lo THEN lo ELSE v

clampInt(v, lo, hi) == IF v < lo THEN lo ELSE IF v > hi THEN hi ELSE v

fallbackTo == clampInt(CfgFallbackTo, minLimit, maxLimit)

(* Where the two ages stop: past it no comparison changes its answer.      *)
LongAgo == cooldown + MaxLag
TooLong == freshTimeout + 1

Older(age, cap) == IF age < cap THEN age + 1 ELSE age

Lag == 0..MaxLag

(* config.Load makes the limit start within the bounds (Configuration).    *)
ASSUME StartsWithinBounds == AtLeastOne(InitialLimit) \in minLimit..maxLimit

(* SetLimit may be called with any limit up to the maximum.                *)
ASSUME LimitsSettable == 1..maxLimit \subseteq LimitInputs

-----------------------------------------------------------------------------
AdaptiveInit ==
    /\ ControllerInit
    /\ applyAge = Never
    /\ signalAge = 0
    /\ poster = [p \in Posters |-> Idle]
    /\ watchdog = Idle
    /\ online = TRUE

(* No cooldown.                                                            *)
InCooldown_unset(lag) == FALSE

(* Not before the first change; lag is how old the `now' of Apply is.      *)
InCooldown(lag) == applyAge # Never /\ applyAge - lag < cooldown

(* No bound on the size of a change.                                       *)
Trimmed_untrimmed(target) == target

(* At most maxDelta away from the current limit.                           *)
Trimmed(target) ==
    IF target > limit + maxDelta THEN limit + maxDelta
    ELSE IF target < limit - maxDelta THEN limit - maxDelta
    ELSE target

(* Only an accepted candidate counts as a sign of life.                    *)
Apply_refreshesLate(candidate, lag) ==
    LET clamped == clampInt(candidate, minLimit, maxLimit) IN
        \/ /\ clamped = limit \/ InCooldown(lag)
           /\ UNCHANGED <<controllerVars, applyAge, signalAge>>
        \/ /\ clamped # limit /\ ~InCooldown(lag)
           /\ SetLimit(Trimmed(clamped))
           /\ signalAge' = lag
           /\ applyAge' = lag

(***************************************************************************)
(* Apply with the lock held, its `now' being lag old: the signal is        *)
(* recorded, then no change, cooldown or a trimmed change.                 *)
(***************************************************************************)
Apply(candidate, lag) ==
    LET clamped == clampInt(candidate, minLimit, maxLimit) IN
        /\ signalAge' = lag
        /\ \/ /\ clamped = limit \/ InCooldown(lag)
              /\ UNCHANGED <<controllerVars, applyAge>>
           \/ /\ clamped # limit /\ ~InCooldown(lag)
              /\ SetLimit(Trimmed(clamped))
              /\ applyAge' = lag

(* A post of the service reaches its handler, which enters Apply and reads *)
(* the clock.                                                              *)
Post(p) ==
    /\ online
    /\ poster[p] = Idle
    /\ poster' = [poster EXCEPT ![p] = 0]
    /\ UNCHANGED <<controllerVars, applyAge, signalAge, watchdog, online>>

ApplyPosted(p) ==
    /\ poster[p] # Idle
    /\ \E c \in Candidates : Apply(c, poster[p])
    /\ poster' = [poster EXCEPT ![p] = Idle]
    /\ UNCHANGED <<watchdog, online>>

(* The age of the last change taken for that of the last signal.           *)
CheckFresh_byLastApply ==
    /\ watchdog = Idle
    /\ applyAge # Never
    /\ applyAge > freshTimeout
    /\ watchdog' = Stale
    /\ UNCHANGED <<controllerVars, applyAge, signalAge, poster, online>>

(* EnsureFresh up to the unlock, when it finds the signal too old; when it *)
(* does not, it changes nothing.                                           *)
CheckFresh ==
    /\ watchdog = Idle
    /\ signalAge > freshTimeout
    /\ watchdog' = Stale
    /\ UNCHANGED <<controllerVars, applyAge, signalAge, poster, online>>

(* ... its call of Apply reads the clock ...                               *)
EnterFallback ==
    /\ watchdog = Stale
    /\ watchdog' = 0
    /\ UNCHANGED <<controllerVars, applyAge, signalAge, poster, online>>

(* ... and has the lock.                                                   *)
ApplyFallback ==
    /\ watchdog \notin {Idle, Stale}
    /\ Apply(fallbackTo, watchdog)
    /\ watchdog' = Idle
    /\ UNCHANGED <<poster, online>>

(* The controller service stops posting (crash, network), or comes back.   *)
GoOffline ==
    /\ online
    /\ online' = FALSE
    /\ UNCHANGED <<controllerVars, applyAge, signalAge, poster, watchdog>>

GoOnline ==
    /\ ~online
    /\ online' = TRUE
    /\ UNCHANGED <<controllerVars, applyAge, signalAge, poster, watchdog>>

(* A second passes, while nobody has waited for a.mu too long.             *)
Tick ==
    /\ watchdog # MaxLag
    /\ \A p \in Posters : poster[p] # MaxLag
    /\ applyAge' = IF applyAge = Never THEN Never ELSE Older(applyAge, LongAgo)
    /\ signalAge' = Older(signalAge, TooLong)
    /\ poster' = [p \in Posters |-> IF poster[p] = Idle THEN Idle ELSE poster[p] + 1]
    /\ watchdog' = IF watchdog \in {Idle, Stale} THEN watchdog ELSE watchdog + 1
    /\ UNCHANGED <<controllerVars, online>>

AdaptiveNext ==
    \/ \E r \in Requests : RequestStep(r) /\ UNCHANGED adaptiveVars
    \/ \E p \in Posters : Post(p) \/ ApplyPosted(p)
    \/ CheckFresh \/ EnterFallback \/ ApplyFallback
    \/ GoOffline \/ GoOnline
    \/ Tick

AdaptiveSpec == AdaptiveInit /\ [][AdaptiveNext]_systemVars

-----------------------------------------------------------------------------
(* Every variable has its type, and the limit, which config.Load makes     *)
(* start within the bounds, never leaves them.                             *)
AdaptiveTypeOK ==
    /\ ControllerTypeOK
    /\ limit \in minLimit..maxLimit
    /\ applyAge \in 0..LongAgo \cup {Never}
    /\ signalAge \in 0..TooLong \cup Lag
    /\ poster \in [Posters -> Lag \cup {Idle}]
    /\ watchdog \in Lag \cup {Idle, Stale}
    /\ online \in BOOLEAN

(* However candidates, fallbacks and rejections interleave, no single step *)
(* moves the limit by more than maxDelta, the fallback's included.         *)
StepBounded ==
    [][limit' - limit =< maxDelta /\ limit - limit' =< maxDelta]_systemVars

(* When the service has gone for good the limit ends up at the fallback    *)
(* and stays there, wherever it was and however late the last posts were.  *)
FallbackReached == <>[](~online) => <>[](limit = fallbackTo)

(* strategy.go:334: silent for longer than FreshTimeout, EnsureFresh       *)
(* reverts to the fallback limit.                                          *)
FallbackReverts ==
    [][watchdog \notin {Idle, Stale} /\ watchdog' = Idle => limit' = fallbackTo]_systemVars
=============================================================================
