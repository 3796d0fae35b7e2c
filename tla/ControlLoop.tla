----------------------------- MODULE ControlLoop -----------------------------
(***************************************************************************)
(* The closed loop: the controller service (controller/src/main.py), the   *)
(* POSTs by which its actuator reaches the gateway, and the adaptive       *)
(* strategy behind them (AdaptiveStrategy), which meanwhile watches how    *)
(* long the service has been silent.  What the service decides in a cycle  *)
(* is in Decision.                                                         *)
(*                                                                         *)
(* A tick is the interval of the loop.  A POST is in the network until it  *)
(* reaches the gateway or is lost; the service waits for its answer for    *)
(* less than a tick (actuator.py: 3 s) and then goes on, while the POST    *)
(* may still arrive.  The handler that has a POST calls Apply at once:     *)
(* what may happen before it has the lock is in AdaptiveStrategy, and so   *)
(* are the requests, which neither read nor change anything here.          *)
(*                                                                         *)
(* The service sees the limit through Prometheus: `metric' is the last     *)
(* sample, and nothing says how old it is.                                 *)
(***************************************************************************)
EXTENDS AdaptiveStrategy, Decision

CONSTANTS
    SafetyCooldown, Heartbeat,  \* ControllerConfig, in ticks
    Predictors,     \* the functions from limits to costs a predictor may be
    MaxGap,         \* bound: ticks from one cycle of a live loop to the next
    SteadyCost,     \* the one it settles for, where convergence is spoken of
    NoPost

ASSUME ControlLoopAssumption ==
    /\ {SafetyCooldown, Heartbeat, MaxGap} \subseteq Nat
    /\ MaxLag = 0
    /\ NoPost \notin Posters
    /\ SteadyCost \in Predictors
    /\ \A f \in Predictors : \A c \in minLimit..maxLimit : f[c] \in Int \cup {Failed}

(* Started from one environment, the two layers have the same envelope     *)
(* (SameEnvelope of Configuration).                                        *)
ASSUME LayersConfigured ==
    /\ SafetyMin = minLimit /\ SafetyMax = maxLimit
    /\ SafetyDelta =< maxDelta

(* The slowest cycle still comes in time when a heartbeat is due just      *)
(* after the one before it; 15 s, about 35 s and 60 s in the code.         *)
ASSUME HeartbeatInTime ==
    Heartbeat >= 1 /\ Heartbeat - 1 + MaxGap =< freshTimeout

VARIABLES
    metric,     \* adaptive_db_pool_admission_limit, as last scraped
    nap,        \* ticks since the last cycle ended
    awaited,    \* the POST whose answer the loop waits for, or NoPost
    mail,       \* the POSTs on their way to the gateway
    sincePost,  \* age of last_post_ts, up to Heartbeat
    sinceChange,\* age of SafetyLayer._last_change_ts, up to SafetyCooldown
    steady,     \* history: whether the last cycle was given SteadyCost
    calm        \* history: ticks since something last went wrong

serviceVars == <<metric, nap, awaited, mail, sincePost, sinceChange, steady, calm>>
clocks == <<applyAge, signalAge, poster, watchdog, online>>
loopVars == <<limit, active, waiting, queue, granted, pc, applyAge, signalAge, poster,
              watchdog, online,
              metric, nap, awaited, mail, sincePost, sinceChange, steady, calm>>

-----------------------------------------------------------------------------
(* The ages of timestamps that are 0.0 are those of the longest ago.       *)
LoopInit ==
    /\ AdaptiveInit
    /\ metric = limit
    /\ nap = 0
    /\ awaited = NoPost
    /\ mail = [p \in Posters |-> NoPost]
    /\ sincePost = Heartbeat
    /\ sinceChange = SafetyCooldown
    /\ calm = 0 /\ steady = TRUE

(* The gauge, which a collector of the gateway refreshes every second, is  *)
(* scraped.                                                                *)
Scrape ==
    /\ metric' = limit
    /\ UNCHANGED <<controllerVars, clocks, nap, awaited, mail, sincePost, sinceChange, steady, calm>>

(* apply_limit: the POST of n leaves, the loop waits for its answer.       *)
Send(n, kind) ==
    \E p \in Posters :
        /\ mail[p] = NoPost
        /\ mail' = [mail EXCEPT ![p] = [limit |-> n, kind |-> kind, basis |-> metric]]
        /\ awaited' = p
        /\ UNCHANGED nap

GoToSleep == nap' = 0 /\ awaited' = NoPost

(* What Decide answers, tabulated.                                         *)
Verdict ==
    [m \in minLimit..maxLimit |-> [cost \in Predictors |-> [cooling \in BOOLEAN |->
        Decide(m, cost, cooling)]]]

(* No heartbeat: an unchanged limit is not worth a POST.                   *)
Cycle_noHeartbeat ==
    /\ online /\ awaited = NoPost /\ nap > 0
    /\ \E cost \in Predictors :
        /\ steady' = (cost = SteadyCost)
        /\ LET decision == Verdict[metric][cost][sinceChange < SafetyCooldown] IN
            \/ /\ decision.changed
               /\ Send(decision.limit, "change")
               /\ sinceChange' = 0
            \/ /\ ~decision.changed
               /\ GoToSleep
               /\ UNCHANGED <<mail, sinceChange>>
    /\ UNCHANGED <<controllerVars, clocks, metric, sincePost, calm>>

(***************************************************************************)
(* A cycle that has its telemetry: a change is posted (_last_change_ts is  *)
(* set before it is known to arrive), and otherwise a heartbeat with the   *)
(* limit the metric showed, when the last POST is long enough ago.         *)
(***************************************************************************)
Cycle ==
    /\ online /\ awaited = NoPost /\ nap > 0
    /\ \E cost \in Predictors :
        /\ steady' = (cost = SteadyCost)
        /\ LET decision == Verdict[metric][cost][sinceChange < SafetyCooldown] IN
            \/ /\ decision.changed
               /\ Send(decision.limit, "change")
               /\ sinceChange' = 0
            \/ /\ ~decision.changed
               /\ sincePost >= Heartbeat
               /\ Send(metric, "heartbeat")
               /\ UNCHANGED sinceChange
            \/ /\ ~decision.changed
               /\ sincePost < Heartbeat
               /\ GoToSleep
               /\ UNCHANGED <<mail, sinceChange>>
    /\ UNCHANGED <<controllerVars, clocks, metric, sincePost, calm>>

(* A cycle that has none, because a query for the limit or the pool's size *)
(* fails or finds nothing (fetch), or that raises: it is skipped, and the  *)
(* heartbeat with it.                                                      *)
CycleFails ==
    /\ online /\ awaited = NoPost /\ nap > 0
    /\ GoToSleep
    /\ calm' = 0
    /\ UNCHANGED <<controllerVars, clocks, metric, mail, sincePost, sinceChange, steady>>

(* A POST reaches the gateway and is answered; its answer finds the loop   *)
(* waiting.                                                                *)
Answered(p) ==
    /\ mail[p] # NoPost /\ awaited = p
    /\ Apply(mail[p].limit, 0)
    /\ mail' = [mail EXCEPT ![p] = NoPost]
    /\ sincePost' = 0
    /\ GoToSleep
    /\ UNCHANGED <<poster, watchdog, online, metric, sinceChange, steady, calm>>

(* ... or is lost, or the loop no longer waits for it.                     *)
Unanswered(p) ==
    /\ mail[p] # NoPost
    /\ Apply(mail[p].limit, 0)
    /\ mail' = [mail EXCEPT ![p] = NoPost]
    /\ UNCHANGED <<poster, watchdog, online, metric, nap, awaited, sincePost, sinceChange, steady, calm>>

Lose(p) ==
    /\ mail[p] # NoPost
    /\ mail' = [mail EXCEPT ![p] = NoPost]
    /\ UNCHANGED <<controllerVars, clocks, metric, nap, awaited, sincePost, sinceChange, steady, calm>>

(* BackendActuatorError: refused, timed out, or not the answer expected.   *)
GiveUp ==
    /\ awaited # NoPost
    /\ GoToSleep
    /\ calm' = 0
    /\ UNCHANGED <<controllerVars, clocks, metric, mail, sincePost, sinceChange, steady>>

(* The service crashes; restarted, it knows nothing of what it did.        *)
Crash ==
    /\ GoOffline
    /\ GoToSleep
    /\ UNCHANGED <<metric, mail, sincePost, sinceChange, steady, calm>>

Restart ==
    /\ GoOnline
    /\ sincePost' = Heartbeat
    /\ sinceChange' = SafetyCooldown
    /\ calm' = 0
    /\ UNCHANGED <<metric, nap, awaited, mail, steady>>

(***************************************************************************)
(* The gateway crashes, its requests with it, and is started again         *)
(* (docker-compose.yml: restart).  It begins anew with the configured      *)
(* limit, no cooldown and a signal that counts as just received; what the  *)
(* service has sampled or sent before outlives it.                         *)
(***************************************************************************)
GatewayRestarts ==
    /\ limit' = AtLeastOne(InitialLimit)
    /\ active' = 0 /\ waiting' = 0 /\ queue' = <<>> /\ granted' = {}
    /\ pc' = [r \in Requests |-> "idle"]
    /\ applyAge' = Never
    /\ signalAge' = 0
    /\ poster' = [p \in Posters |-> Idle]
    /\ watchdog' = Idle
    /\ calm' = 0
    /\ UNCHANGED <<online, metric, nap, awaited, mail, sincePost, sinceChange, steady>>

(* EnsureFresh of the gateway.                                             *)
Watchdog == (CheckFresh \/ EnterFallback \/ ApplyFallback) /\ UNCHANGED serviceVars

LoopTick ==
    /\ Tick
    /\ awaited = NoPost
    /\ online => nap < MaxGap
    /\ nap' = Older(nap, MaxGap)
    /\ sincePost' = Older(sincePost, Heartbeat)
    /\ sinceChange' = Older(sinceChange, SafetyCooldown)
    /\ calm' = IF online THEN Older(calm, TooLong) ELSE 0
    /\ UNCHANGED <<metric, awaited, mail, steady>>

LoopNext ==
    \/ Scrape
    \/ Cycle \/ CycleFails
    \/ \E p \in Posters : Answered(p) \/ Unanswered(p) \/ Lose(p)
    \/ GiveUp
    \/ Crash \/ Restart \/ GatewayRestarts
    \/ Watchdog
    \/ LoopTick

LoopSpec == LoopInit /\ [][LoopNext]_loopVars

(* Prometheus scrapes, the loop runs, time passes, POSTs do not stay in    *)
(* the network for ever, and the gateway runs its watchdog.                *)
LoopFairSpec ==
    /\ LoopSpec
    /\ WF_loopVars(Scrape) /\ WF_loopVars(Cycle) /\ WF_loopVars(LoopTick)
    /\ \A p \in Posters : WF_loopVars(Unanswered(p) \/ Lose(p))
    /\ WF_loopVars(GiveUp)
    /\ WF_loopVars(Watchdog)

-----------------------------------------------------------------------------
(* Every variable has its type, and every limit posted is in the bounds of *)
(* the service, however old the metric it was derived from.                *)
LoopTypeOK ==
    /\ AdaptiveTypeOK
    /\ metric \in minLimit..maxLimit
    /\ nap \in 0..MaxGap
    /\ awaited \in Posters \cup {NoPost}
    /\ mail \in [Posters -> {NoPost} \cup
                    [limit : SafetyMin..SafetyMax, kind : {"change", "heartbeat"},
                     basis : minLimit..maxLimit]]
    /\ sincePost \in 0..Heartbeat
    /\ sinceChange \in 0..SafetyCooldown
    /\ steady \in BOOLEAN
    /\ calm \in 0..TooLong

(***************************************************************************)
(* A live loop is never taken for dead: when EnsureFresh finds the signal  *)
(* too old, the service was down, or a cycle of it or a POST failed, not   *)
(* longer than the timeout ago.  So heartbeats are frequent enough, also   *)
(* when changes, cooldowns, retries and slow cycles delay them.            *)
(***************************************************************************)
LiveLoopStaysFresh ==
    [][watchdog = Idle /\ watchdog' = Stale => calm =< freshTimeout]_loopVars

(***************************************************************************)
(* The two safety layers agree: when a POST was derived from the limit the *)
(* gateway still has, the gateway takes it as it is or (in its cooldown)   *)
(* not at all; neither bounds nor max_delta of the second layer alter what *)
(* has passed the first.                                                   *)
(***************************************************************************)
LayersAgree ==
    [][\A p \in Posters :
            /\ mail[p] # NoPost /\ mail'[p] = NoPost
            /\ mail[p].basis = limit
            /\ limit' # limit
            => limit' = mail[p].limit]_loopVars

Target == CHOOSE t \in SafetyMin..SafetyMax :
            \A c \in SafetyMin..SafetyMax : SteadyCost[t] =< SteadyCost[c]

(***************************************************************************)
(* When from some time on the predictor no longer changes its mind and     *)
(* nothing goes wrong, the limit ends up next to the best one, as close as  *)
(* the step of the grid allows, and stays there: neither samples a cycle    *)
(* old nor POSTs left over from before make it oscillate.                  *)
(***************************************************************************)
ConvergesToTarget ==
    <>[](calm = TooLong /\ steady) => <>[](limit - Target < GridStep /\ Target - limit < GridStep)

(* main.py:104: a heartbeat proves liveness; the limit is logged as held.  *)
HeartbeatHoldsLimit ==
    [][\A p \in Posters :
            mail[p] # NoPost /\ mail'[p] = NoPost /\ mail[p].kind = "heartbeat"
                => limit' = limit]_loopVars
=============================================================================
