----------------------------- MODULE Telemetry -----------------------------
(***************************************************************************)
(* The gauge adaptive_db_pool_admission_limit, through which the controller*)
(* service sees the limit of the adaptive strategy, and its three writers, *)
(* none of which waits for another: the decision sink of Apply             *)
(* (backend/cmd/api/main.go), the collector that takes a snapshot of the   *)
(* controller every second                                                 *)
(* (backend/internal/infrastructure/metrics/prometheus.go), and the Start  *)
(* loop, which reads the limit after each EnsureFresh                      *)
(* (backend/internal/application/admission/service.go).  The last two set  *)
(* the gauge to what they read a while ago.                                *)
(*                                                                         *)
(* The sink runs within Apply with a.mu held.  Another reader can see the  *)
(* limit before the sink has set the gauge, but what it writes is then     *)
(* what the sink writes, so that Apply and its sink are one action.        *)
(*                                                                         *)
(* A tick is a second: the collector takes one sample in each, and neither *)
(* reader is so slow that it sets the gauge in a later second than that in *)
(* which it read the limit.                                                *)
(***************************************************************************)
EXTENDS AdaptiveStrategy

VARIABLES
    gauge,      \* Registry.admissionLimit
    sampled,    \* the limit in the snapshot of the collector, or Idle
    synced,     \* the limit the Start loop has read, or Idle
    rounds,     \* which of the two have read it in this second
    silence,    \* history: since a candidate last arrived
    changeAge   \* history: since the limit last changed

gaugeVars == <<gauge, sampled, synced, rounds>>
ages == <<silence, changeAge>>
telemetryVars == <<limit, active, waiting, queue, granted, pc, applyAge, signalAge,
                   poster, watchdog, online, gauge, sampled, synced, rounds,
                   silence, changeAge>>

(* Where changeAge stops.                                                  *)
Settled == cooldown + 1

(* NewService publishes the limit it finds.                                *)
TelemetryInit ==
    /\ AdaptiveInit
    /\ gauge = limit
    /\ sampled = Idle /\ synced = Idle
    /\ rounds = {}
    /\ silence = 0 /\ changeAge = Settled

-----------------------------------------------------------------------------
(* OnDecision is called when the limit changed, with the new one.          *)
Sink ==
    /\ gauge' = IF limit' # limit THEN limit' ELSE gauge
    /\ changeAge' = IF limit' # limit THEN 0 ELSE changeAge
    /\ UNCHANGED <<sampled, synced, rounds>>

(* A candidate gets the lock; and EnsureFresh, which the Start loop calls  *)
(* before it reads the limit.                                              *)
Handle(p) == ApplyPosted(p) /\ Sink /\ silence' = 0

EnsureFresh ==
    /\ synced = Idle
    /\ CheckFresh \/ EnterFallback \/ ApplyFallback
    /\ Sink
    /\ UNCHANGED silence

(* A tick of the collector: Snapshot, then UpdateAdmission.                *)
Collect ==
    /\ "collector" \notin rounds
    /\ sampled' = limit
    /\ rounds' = rounds \cup {"collector"}
    /\ UNCHANGED <<systemVars, gauge, synced, ages>>

(* UpdateAdmission without the limit.                                      *)
UpdateAdmission_noLimit ==
    /\ sampled # Idle
    /\ sampled' = Idle
    /\ UNCHANGED <<systemVars, gauge, synced, rounds, ages>>

UpdateAdmission ==
    /\ sampled # Idle
    /\ gauge' = sampled
    /\ sampled' = Idle
    /\ UNCHANGED <<systemVars, synced, rounds, ages>>

(* The Start loop, EnsureFresh having found the signal fresh or made it so *)
(* by its fallback, in the same moment: Limit, then SetAdmissionLimit.     *)
ReadLimit ==
    /\ watchdog = Idle /\ synced = Idle
    /\ signalAge =< freshTimeout
    /\ "loop" \notin rounds
    /\ synced' = limit
    /\ rounds' = rounds \cup {"loop"}
    /\ UNCHANGED <<systemVars, gauge, sampled, ages>>

SetAdmissionLimit ==
    /\ synced # Idle
    /\ gauge' = synced
    /\ synced' = Idle
    /\ UNCHANGED <<systemVars, sampled, rounds, ages>>

Second ==
    /\ "collector" \in rounds /\ sampled = Idle /\ synced = Idle
    /\ Tick
    /\ rounds' = {}
    /\ silence' = Older(silence, TooLong) /\ changeAge' = Older(changeAge, Settled)
    /\ UNCHANGED <<gauge, sampled, synced>>

TelemetryNext ==
    \/ \E p \in Posters : Handle(p)
    \/ \E p \in Posters : Post(p) /\ UNCHANGED <<gaugeVars, ages>>
    \/ EnsureFresh
    \/ (GoOffline \/ GoOnline) /\ UNCHANGED <<gaugeVars, ages>>
    \/ \E r \in Requests : RequestStep(r) /\ UNCHANGED <<adaptiveVars, gaugeVars, ages>>
    \/ Collect \/ UpdateAdmission \/ ReadLimit \/ SetAdmissionLimit
    \/ Second

TelemetrySpec == TelemetryInit /\ [][TelemetryNext]_telemetryVars

(* The tickers of both loops fire, and handlers get the lock.              *)
TelemetryFairSpec ==
    /\ TelemetrySpec
    /\ WF_telemetryVars(Collect) /\ WF_telemetryVars(UpdateAdmission)
    /\ WF_telemetryVars(SetAdmissionLimit) /\ WF_telemetryVars(Second)
    /\ WF_telemetryVars(EnsureFresh)
    /\ \A p \in Posters : WF_telemetryVars(Handle(p))

-----------------------------------------------------------------------------
(* Every variable has its type.                                            *)
TelemetryTypeOK ==
    /\ AdaptiveTypeOK
    /\ gauge \in minLimit..maxLimit
    /\ sampled \in minLimit..maxLimit \cup {Idle}
    /\ synced \in minLimit..maxLimit \cup {Idle}
    /\ rounds \subseteq {"collector", "loop"}
    /\ silence \in 0..TooLong
    /\ changeAge \in 0..Settled

(***************************************************************************)
(* Two changes of the limit are a cooldown apart, whoever makes them: with *)
(* the clock read before the lock is taken the cooldown is cut short by no *)
(* more than the time its first caller waited for the lock, and a caller   *)
(* that read the clock before the last change never passes.                *)
(***************************************************************************)
ChangesSpaced == [][limit' # limit => changeAge >= cooldown - MaxLag]_telemetryVars

(***************************************************************************)
(* A live but content controller does not look stale (strategy.go:289): a  *)
(* candidate counts as a sign of life even when it changes nothing, so     *)
(* EnsureFresh only takes the service for silent when no candidate arrived *)
(* for the timeout, less what a handler may wait for the lock.             *)
(***************************************************************************)
PatientWatchdog ==
    [][watchdog = Idle /\ watchdog' = Stale
            => silence > freshTimeout - MaxLag]_telemetryVars

(***************************************************************************)
(* What the controller service can scrape is never more than two seconds   *)
(* behind: a stale sample may overwrite what the sink has just published,  *)
(* but the next round of the collector corrects it (the interval of a      *)
(* second at main.go:106; the Start loop alone would need five).           *)
(***************************************************************************)
GaugeFresh == changeAge >= 2 => gauge = limit
=============================================================================
