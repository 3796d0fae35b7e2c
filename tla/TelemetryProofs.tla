--------------------------- MODULE TelemetryProofs ---------------------------
(***************************************************************************)
(* Changes of the limit are spaced, the watchdog is patient and the gauge  *)
(* fresh, for every configuration, every number of handlers and any wait   *)
(* for the lock.                                                           *)
(***************************************************************************)
EXTENDS Telemetry, AdaptiveStrategyProofs

-----------------------------------------------------------------------------
(* Publishing the limit does nothing to the strategy.                      *)
LEMMA TelemetryStepsStrategy ==
    ASSUME [TelemetryNext]_telemetryVars
    PROVE  [AdaptiveNext]_systemVars
<1>1. CASE UNCHANGED systemVars
  BY <1>1
<1>2. CASE UNCHANGED telemetryVars
  BY <1>2 DEF telemetryVars, systemVars
<1>3. CASE Collect \/ UpdateAdmission \/ ReadLimit \/ SetAdmissionLimit
  BY <1>3 DEF Collect, UpdateAdmission, ReadLimit, SetAdmissionLimit
<1>4. CASE TelemetryNext
  BY <1>3, <1>4 DEF TelemetryNext, Handle, EnsureFresh, Second, AdaptiveNext
<1> QED BY <1>2, <1>4

(* So what is proved of the strategy holds of the whole.                   *)
THEOREM TelemetryImplementsStrategy == TelemetrySpec => AdaptiveSpec
<1>1. TelemetryInit => AdaptiveInit
  BY DEF TelemetryInit
<1>2. [TelemetryNext]_telemetryVars => [AdaptiveNext]_systemVars
  BY TelemetryStepsStrategy
<1> QED BY <1>1, <1>2, PTL DEF TelemetrySpec, AdaptiveSpec

-----------------------------------------------------------------------------
PublishedOK ==
    /\ gauge \in minLimit..maxLimit
    /\ sampled \in minLimit..maxLimit \cup {Idle}
    /\ synced \in minLimit..maxLimit \cup {Idle}
    /\ rounds \subseteq {"collector", "loop"}
    /\ silence \in 0..TooLong
    /\ changeAge \in 0..Settled

(***************************************************************************)
(* What the code's clocks say lags behind what happened: by no more than a *)
(* caller may have waited for the lock.                                    *)
(***************************************************************************)
ClocksLag ==
    /\ applyAge = Never => changeAge = Settled
    /\ applyAge # Never => applyAge =< changeAge + MaxLag
    /\ signalAge =< silence + MaxLag

(***************************************************************************)
(* What a reader has taken is the limit, unless that has changed in this   *)
(* second; and so is the gauge when the collector has written it in this   *)
(* second, or in the last one.                                             *)
(***************************************************************************)
ReadersLag ==
    /\ changeAge >= 1 /\ sampled # Idle => sampled = limit
    /\ changeAge >= 1 /\ synced # Idle => synced = limit
    /\ changeAge >= 1 /\ "collector" \in rounds /\ sampled = Idle => gauge = limit
    /\ GaugeFresh

TelemetryInv == AdaptiveInv /\ PublishedOK /\ ClocksLag /\ ReadersLag

LEMMA AgeFacts ==
    /\ Settled \in Nat /\ Settled = cooldown + 1 /\ Settled >= 2
    /\ \A n \in minLimit..maxLimit : n \in Int /\ n # Idle
    /\ \A a \in 0..Settled : Older(a, Settled) \in 0..Settled
    /\ \A a \in 0..TooLong : Older(a, TooLong) \in 0..TooLong
<1>1. Settled \in Nat /\ Settled = cooldown + 1 /\ Settled >= 2
  BY ConfigFacts DEF Settled
<1>2. ASSUME NEW n \in minLimit..maxLimit PROVE n \in Int /\ n # Idle
  BY ConfigFacts, AdaptiveAssumption
<1> QED BY <1>1, <1>2, ConfigFacts DEF Older

LEMMA TelemetryInitInv == TelemetryInit => TelemetryInv
<1> SUFFICES ASSUME TelemetryInit PROVE TelemetryInv
  OBVIOUS
<1>1. AdaptiveInv /\ limit \in minLimit..maxLimit
  BY AdaptiveInitInv DEF TelemetryInit, AdaptiveInv, AdaptiveTypeOK
<1>2. PublishedOK
  BY <1>1, AgeFacts, ConfigFacts DEF TelemetryInit, PublishedOK
<1>3. ClocksLag
  BY AgeFacts, ConfigFacts DEF TelemetryInit, AdaptiveInit, ClocksLag
<1>4. ReadersLag
  BY DEF TelemetryInit, ReadersLag, GaugeFresh
<1> QED BY <1>1, <1>2, <1>3, <1>4 DEF TelemetryInv

(***************************************************************************)
(* A caller in Apply, with its sink: the clocks keep their bound, what the *)
(* readers have taken is still the limit or the change has just happened,  *)
(* and a change comes when the cooldown is over.                           *)
(***************************************************************************)
LEMMA ApplySinkStep ==
    ASSUME TelemetryInv, NEW candidate \in Int, NEW lag \in Lag,
           Apply(candidate, lag), Sink, silence' \in 0..TooLong
    PROVE  /\ PublishedOK' /\ ClocksLag' /\ ReadersLag'
           /\ limit' # limit => changeAge >= cooldown - MaxLag
<1>1. /\ limit \in minLimit..maxLimit /\ applyAge \in 0..LongAgo \cup {Never}
      /\ PublishedOK /\ ClocksLag /\ ReadersLag /\ ControllerInv
  BY DEF TelemetryInv, AdaptiveInv, AdaptiveTypeOK
<1>2. /\ limit' \in minLimit..maxLimit
      /\ signalAge' = lag
      /\ IF limit' = limit THEN applyAge' = applyAge
         ELSE applyAge' = lag /\ ~InCooldown(lag)
  BY <1>1, ApplyFacts
<1>3. lag \in 0..MaxLag /\ MaxLag \in Nat /\ cooldown \in Nat /\ lag # Never
  BY ConfigFacts, AdaptiveAssumption DEF Lag
<1>4. silence' \in 0..TooLong /\ changeAge' \in 0..Settled
  BY <1>1, ConfigFacts, AgeFacts DEF PublishedOK, Sink
<1>5. PublishedOK'
  BY <1>1, <1>2, <1>4 DEF PublishedOK, Sink
<1>6. ClocksLag'
  <2>1. signalAge' =< silence' + MaxLag
    <3>1. signalAge' \in 0..MaxLag /\ MaxLag \in Nat
      BY <1>2, <1>3
    <3>2. PICK s \in Nat : silence' = s
      BY <1>4, ConfigFacts
    <3> QED BY <3>1, <3>2
  <2>2. CASE limit' = limit
    BY <1>1, <1>2, <2>1, <2>2 DEF ClocksLag, Sink
  <2>3. CASE limit' # limit
    <3>1. applyAge' = lag /\ changeAge' = 0
      BY <1>2, <2>3 DEF Sink
    <3>2. applyAge' # Never /\ applyAge' =< changeAge' + MaxLag
      BY <1>3, <3>1
    <3> QED BY <2>1, <3>2 DEF ClocksLag
  <2> QED BY <2>2, <2>3
<1>7. ReadersLag'
  BY <1>1 DEF ReadersLag, GaugeFresh, Sink
<1>8. ASSUME limit' # limit PROVE changeAge >= cooldown - MaxLag
  <2>1. applyAge = Never \/ applyAge - lag >= cooldown
    BY <1>1, <1>2, <1>3, <1>8, ConfigFacts DEF InCooldown
  <2> QED BY <1>1, <1>3, <2>1, AgeFacts, ConfigFacts DEF ClocksLag, PublishedOK
<1> QED BY <1>5, <1>6, <1>7, <1>8

(* Every step keeps the invariant, and does what the action properties say.*)
LEMMA TelemetryNextInv ==
    ASSUME TelemetryInv, [TelemetryNext]_telemetryVars
    PROVE  /\ TelemetryInv'
           /\ limit' # limit => changeAge >= cooldown - MaxLag
           /\ watchdog = Idle /\ watchdog' = Stale => silence > freshTimeout - MaxLag
<1> DEFINE Spaced == limit' # limit => changeAge >= cooldown - MaxLag
           Patient == watchdog = Idle /\ watchdog' = Stale => silence > freshTimeout - MaxLag
           Good == /\ PublishedOK' /\ ClocksLag' /\ ReadersLag'
                   /\ Spaced /\ Patient
<1>1. AdaptiveInv'
  BY TelemetryStepsStrategy, AdaptiveNextInv DEF TelemetryInv
<1> SUFFICES Good
  BY <1>1 DEF TelemetryInv
<1>2. /\ limit \in minLimit..maxLimit /\ limit' \in minLimit..maxLimit
      /\ applyAge \in 0..LongAgo \cup {Never}
      /\ signalAge \in 0..TooLong \cup Lag
      /\ PublishedOK /\ ClocksLag /\ ReadersLag
      /\ Lag \subseteq 0..MaxLag /\ Idle # Stale
  BY <1>1, AdaptiveAssumption DEF TelemetryInv, AdaptiveInv, AdaptiveTypeOK, Lag
<1> DEFINE own == <<limit, applyAge, signalAge>>
<1>3. ASSUME UNCHANGED <<own, gauge, sampled, synced, rounds, ages>>, Patient PROVE Good
  BY <1>2, <1>3 DEF PublishedOK, ClocksLag, ReadersLag, GaugeFresh, ages
<1>4. ASSUME NEW p \in Posters, Handle(p) PROVE Good
  <2>1. poster[p] \in Lag /\ Candidates \subseteq Int
    BY <1>4, CallersFacts DEF Handle, ApplyPosted, TelemetryInv
  <2>2. PICK c \in Candidates : Apply(c, poster[p])
    BY <1>4 DEF Handle, ApplyPosted
  <2>3. PublishedOK' /\ ClocksLag' /\ ReadersLag' /\ Spaced
    <3>1. silence' \in 0..TooLong
      BY <1>4, ConfigFacts DEF Handle
    <3> QED BY <1>4, <2>1, <2>2, <3>1, ApplySinkStep DEF Handle
  <2>4. Patient
    BY <1>2, <1>4 DEF Handle, ApplyPosted
  <2> QED BY <2>3, <2>4
<1>5. CASE EnsureFresh /\ ApplyFallback
  <2>1. watchdog \in Lag /\ fallbackTo \in Int
    BY <1>5, CallersFacts DEF ApplyFallback, TelemetryInv
  <2>2. PublishedOK' /\ ClocksLag' /\ ReadersLag' /\ Spaced
    <3>1. silence' \in 0..TooLong
      BY <1>2, <1>5 DEF EnsureFresh, PublishedOK
    <3> QED BY <1>5, <2>1, <3>1, ApplySinkStep DEF EnsureFresh, ApplyFallback
  <2>3. Patient
    BY <1>5 DEF ApplyFallback
  <2> QED BY <2>2, <2>3
<1>6. CASE EnsureFresh /\ (CheckFresh \/ EnterFallback)
  <2>1. UNCHANGED own
    BY <1>6 DEF CheckFresh, EnterFallback, controllerVars
  <2>2. UNCHANGED <<gauge, sampled, synced, rounds, ages>>
    BY <1>6, <2>1 DEF EnsureFresh, Sink, ages
  <2>3. CASE CheckFresh
    <3>1. signalAge > freshTimeout /\ signalAge =< silence + MaxLag
      BY <1>2, <2>3 DEF CheckFresh, ClocksLag
    <3>2. /\ silence \in Int /\ freshTimeout \in Int /\ MaxLag \in Int /\ signalAge \in Int
      BY <1>2, ConfigFacts DEF PublishedOK
    <3>3. silence > freshTimeout - MaxLag
      BY <3>1, <3>2
    <3> QED BY <1>3, <2>1, <2>2, <3>3
  <2>4. CASE EnterFallback
    <3>1. Patient
      BY <1>2, <2>4 DEF EnterFallback
    <3> QED BY <1>3, <2>1, <2>2, <3>1
  <2> QED BY <1>6, <2>3, <2>4
<1>7. CASE \/ \E p \in Posters : Post(p) /\ UNCHANGED <<gaugeVars, ages>>
           \/ (GoOffline \/ GoOnline) /\ UNCHANGED <<gaugeVars, ages>>
           \/ UNCHANGED telemetryVars
  <2>1. UNCHANGED <<own, gauge, sampled, synced, rounds, ages, watchdog>>
    BY <1>7 DEF Post, GoOffline, GoOnline, controllerVars, gaugeVars, ages, telemetryVars
  <2> QED BY <1>2, <1>3, <2>1
<1>8. ASSUME NEW r \in Requests, RequestStep(r), UNCHANGED <<adaptiveVars, gaugeVars, ages>>
      PROVE  Good
  <2>1. limit' = limit
    BY <1>8, RequestFacts DEF TelemetryInv, AdaptiveInv
  <2>2. UNCHANGED <<own, gauge, sampled, synced, rounds, ages, watchdog>>
    BY <1>8, <2>1 DEF adaptiveVars, gaugeVars
  <2> QED BY <1>2, <1>3, <2>2
<1>9. CASE Collect \/ UpdateAdmission \/ ReadLimit \/ SetAdmissionLimit
  <2>1. UNCHANGED <<limit, applyAge, signalAge, watchdog, silence, changeAge>>
    BY <1>9 DEF Collect, UpdateAdmission, ReadLimit, SetAdmissionLimit, systemVars, ages
  <2>2. PublishedOK'
    BY <1>2, <1>9, <2>1 DEF Collect, UpdateAdmission, ReadLimit, SetAdmissionLimit, PublishedOK
  <2>3. ClocksLag' /\ Spaced /\ Patient
    BY <1>2, <2>1 DEF ClocksLag
  <2>4. limit # Idle
    BY <1>2, AgeFacts
  <2>5. changeAge \in Int
    BY <1>2, AgeFacts DEF PublishedOK
  <2>6. ReadersLag'
    <3>1. CASE Collect
      BY <1>2, <2>1, <2>4, <3>1 DEF Collect, ReadersLag, GaugeFresh
    <3>2. CASE UpdateAdmission
      BY <1>2, <2>1, <2>5, <3>2 DEF UpdateAdmission, ReadersLag, GaugeFresh
    <3>3. CASE ReadLimit
      BY <1>2, <2>1, <3>3 DEF ReadLimit, ReadersLag, GaugeFresh
    <3>4. CASE SetAdmissionLimit
      BY <1>2, <2>1, <2>5, <3>4 DEF SetAdmissionLimit, ReadersLag, GaugeFresh
    <3> QED BY <1>9, <3>1, <3>2, <3>3, <3>4
  <2> QED BY <2>2, <2>3, <2>6
<1>10. CASE Second
  <2>1. /\ limit' = limit /\ UNCHANGED <<gauge, sampled, synced>>
        /\ "collector" \in rounds /\ sampled = Idle /\ synced = Idle
        /\ rounds' = {}
        /\ applyAge' = IF applyAge = Never THEN Never ELSE Older(applyAge, LongAgo)
        /\ signalAge' = Older(signalAge, TooLong)
        /\ silence' = Older(silence, TooLong) /\ changeAge' = Older(changeAge, Settled)
    BY <1>10 DEF Second, Tick, controllerVars
  <2>2. PublishedOK'
    BY <1>2, <2>1, AgeFacts DEF PublishedOK
  <2>3. ClocksLag'
    <3>1. applyAge = Never => changeAge' = Settled
      BY <1>2, <2>1, AgeFacts DEF ClocksLag, Older
    <3>4. ASSUME applyAge # Never PROVE applyAge' =< changeAge' + MaxLag
      <4>1. /\ applyAge \in 0..LongAgo /\ changeAge \in 0..Settled
            /\ applyAge =< changeAge + MaxLag
        BY <1>2, <3>4 DEF ClocksLag, PublishedOK
      <4>2. CASE changeAge < Settled
        BY <2>1, <3>4, <4>1, <4>2, ConfigFacts, AgeFacts DEF Older
      <4>3. CASE changeAge = Settled
        BY <2>1, <3>4, <4>1, <4>3, ConfigFacts, AgeFacts DEF Older
      <4> QED BY <4>1, <4>2, <4>3, AgeFacts
    <3>2. signalAge' =< silence' + MaxLag
      BY <1>2, <2>1, ConfigFacts DEF ClocksLag, PublishedOK, Older
    <3>3. applyAge' = Never <=> applyAge = Never
      <4>1. ASSUME applyAge # Never PROVE applyAge' \in Int
        BY <1>2, <2>1, <4>1, ConfigFacts DEF Older
      <4> QED BY <2>1, <4>1, AdaptiveAssumption
    <3> QED BY <3>1, <3>2, <3>3, <3>4 DEF ClocksLag
  <2>4. changeAge' >= 2 => changeAge >= 1
    BY <1>2, <2>1, AgeFacts DEF PublishedOK, Older
  <2>5. ReadersLag'
    BY <1>2, <2>1, <2>4 DEF ReadersLag, GaugeFresh
  <2>6. Spaced /\ Patient
    <3>1. watchdog' = Stale => watchdog = Stale
      <4>1. watchdog \in Lag \cup {Idle, Stale}
        BY DEF TelemetryInv, AdaptiveInv, AdaptiveTypeOK
      <4> QED BY <1>2, <1>10, <4>1, ConfigFacts, AdaptiveAssumption DEF Second, Tick
    <3> QED BY <1>2, <2>1, <3>1
  <2> QED BY <2>2, <2>3, <2>5, <2>6
<1> QED BY <1>4, <1>5, <1>6, <1>7, <1>8, <1>9, <1>10 DEF TelemetryNext, EnsureFresh

-----------------------------------------------------------------------------
(* The invariant holds in every reachable state.                           *)
THEOREM TelemetryInvariant == TelemetrySpec => []TelemetryInv
<1>1. TelemetryInit => TelemetryInv
  BY TelemetryInitInv
<1>2. TelemetryInv /\ [TelemetryNext]_telemetryVars => TelemetryInv'
  BY TelemetryNextInv
<1> QED BY <1>1, <1>2, PTL DEF TelemetrySpec

(* What is published and what readers hold are limits within the bounds.   *)
THEOREM TelemetryTypeCorrect == TelemetrySpec => []TelemetryTypeOK
<1>1. TelemetryInv => TelemetryTypeOK
  BY DEF TelemetryInv, AdaptiveInv, PublishedOK, TelemetryTypeOK
<1> QED BY <1>1, TelemetryInvariant, PTL

(* The gauge is the limit again two seconds after the last change.         *)
THEOREM GaugeStaysFresh == TelemetrySpec => []GaugeFresh
<1>1. TelemetryInv => GaugeFresh
  BY DEF TelemetryInv, ReadersLag
<1> QED BY <1>1, TelemetryInvariant, PTL

(* Two changes are a cooldown apart, less what a caller waited for a.mu.   *)
THEOREM ChangesStaySpaced == TelemetrySpec => ChangesSpaced
<1>1. TelemetryInv /\ [TelemetryNext]_telemetryVars
        => [limit' # limit => changeAge >= cooldown - MaxLag]_telemetryVars
  BY TelemetryNextInv
<1> QED BY <1>1, TelemetryInvariant, PTL DEF TelemetrySpec, ChangesSpaced

(* The watchdog takes the service for silent only when it has been.        *)
THEOREM WatchdogStaysPatient == TelemetrySpec => PatientWatchdog
<1>1. TelemetryInv /\ [TelemetryNext]_telemetryVars
        => [watchdog = Idle /\ watchdog' = Stale
                => silence > freshTimeout - MaxLag]_telemetryVars
  BY TelemetryNextInv
<1> QED BY <1>1, TelemetryInvariant, PTL DEF TelemetrySpec, PatientWatchdog
=============================================================================
