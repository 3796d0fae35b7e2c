-------------------------- MODULE ControlLoopProofs --------------------------
(***************************************************************************)
(* Heartbeats come in time, for every configuration that leaves room for   *)
(* the slowest cycle, whatever the predictors say, whatever the network    *)
(* does to the POSTs, and though service and gateway crash.                *)
(***************************************************************************)
EXTENDS ControlLoop, AdaptiveStrategyProofs, DecisionProofs

-----------------------------------------------------------------------------
(* What the clocks of the loop may show.                                   *)
LoopClocksOK ==
    /\ signalAge \in Nat /\ nap \in 0..MaxGap /\ calm \in Nat
    /\ sincePost \in 0..Heartbeat
    /\ watchdog \in {Idle, Stale, 0}
    /\ online \in BOOLEAN

(***************************************************************************)
(* The signal is at most as old as last_post_ts, as long as that says that *)
(* no heartbeat is due.  Since the last cycle ended something has gone     *)
(* wrong, or it ended with no heartbeat due.  So an old signal means that  *)
(* something went wrong not long ago, also once the service is down.       *)
(***************************************************************************)
PostsSeen == sincePost < Heartbeat => signalAge =< sincePost

CyclesPost == online => calm =< nap \/ signalAge =< Heartbeat - 1 + nap

SilenceExplained == signalAge > freshTimeout => calm =< freshTimeout

LoopInv == LoopClocksOK /\ PostsSeen /\ CyclesPost /\ SilenceExplained

LEMMA LoopBounds ==
    /\ Heartbeat \in Nat \ {0} /\ MaxGap \in Nat /\ freshTimeout \in Nat \ {0}
    /\ Heartbeat - 1 + MaxGap =< freshTimeout
    /\ TooLong = freshTimeout + 1
    /\ Idle \notin Int /\ Stale \notin Int /\ Idle # Stale
<1>1. freshTimeout \in Nat \ {0}
    BY AdaptiveAssumption DEF freshTimeout
<1> QED
    BY <1>1, ControlLoopAssumption, HeartbeatInTime, AdaptiveAssumption DEF TooLong

(* As long as the service runs the last part follows from the third.       *)
LEMMA SilenceFromCycles ==
    ASSUME LoopClocksOK, CyclesPost, online
    PROVE  SilenceExplained
BY LoopBounds DEF LoopClocksOK, CyclesPost, SilenceExplained

LEMMA LoopInitInv == LoopInit => LoopInv
BY LoopBounds
   DEF LoopInit, AdaptiveInit, LoopInv, LoopClocksOK, PostsSeen, CyclesPost, SilenceExplained

-----------------------------------------------------------------------------
(* A candidate or a fallback that gets through makes the signal fresh, and *)
(* nothing the service remembers older.                                    *)
LEMMA SignalFresh ==
    ASSUME LoopInv, LoopClocksOK', signalAge' = 0
    PROVE  LoopInv'
<1>1. PICK n \in Nat : nap' = n
    BY LoopBounds DEF LoopClocksOK
<1>2. PICK s \in Nat : sincePost' = s
    BY LoopBounds DEF LoopClocksOK
<1>3. PostsSeen'
    BY <1>2 DEF PostsSeen
<1>4. CyclesPost'
    BY <1>1, LoopBounds DEF CyclesPost
<1>5. SilenceExplained'
    BY LoopBounds DEF SilenceExplained
<1> QED
    BY <1>3, <1>4, <1>5 DEF LoopInv

(* A cycle or a wait that ends with something having gone wrong.           *)
LEMMA FailureStep ==
    ASSUME LoopInv, GoToSleep, calm' = 0,
           UNCHANGED <<signalAge, watchdog, online, sincePost>>
    PROVE  LoopInv'
BY LoopBounds
   DEF LoopInv, LoopClocksOK, PostsSeen, CyclesPost, SilenceExplained, GoToSleep

LEMMA CycleStep == ASSUME LoopInv, Cycle PROVE LoopInv'
<1>1. UNCHANGED <<signalAge, watchdog, online, calm, sincePost>> /\ online
    BY DEF Cycle, clocks
<1>2. CASE UNCHANGED nap
    BY <1>1, <1>2
       DEF LoopInv, LoopClocksOK, PostsSeen, CyclesPost, SilenceExplained
<1>3. CASE GoToSleep /\ sincePost < Heartbeat
    BY <1>1, <1>3, LoopBounds
       DEF LoopInv, LoopClocksOK, PostsSeen, CyclesPost, SilenceExplained, GoToSleep
<1> QED
    BY <1>2, <1>3 DEF Cycle, Send

LEMMA AnsweredStep == ASSUME LoopInv, NEW p \in Posters, Answered(p) PROVE LoopInv'
<1>1. /\ signalAge' = 0 /\ nap' = 0 /\ sincePost' = 0
      /\ UNCHANGED <<watchdog, online, calm>>
    BY DEF Answered, Apply, GoToSleep
<1>2. LoopClocksOK'
    BY <1>1, LoopBounds DEF LoopInv, LoopClocksOK
<1> QED
    BY <1>1, <1>2, SignalFresh

LEMMA UnansweredStep == ASSUME LoopInv, NEW p \in Posters, Unanswered(p) PROVE LoopInv'
<1>1. signalAge' = 0 /\ UNCHANGED <<nap, sincePost, watchdog, online, calm>>
    BY DEF Unanswered, Apply
<1>2. LoopClocksOK'
    BY <1>1 DEF LoopInv, LoopClocksOK
<1> QED
    BY <1>1, <1>2, SignalFresh

LEMMA WatchdogStep == ASSUME LoopInv, Watchdog PROVE LoopInv'
<1>1. CASE CheckFresh \/ EnterFallback
    <2>1. /\ UNCHANGED <<signalAge, nap, sincePost, online, calm>>
          /\ watchdog' \in {Stale, 0}
        BY <1>1 DEF Watchdog, CheckFresh, EnterFallback, serviceVars
    <2> QED
        BY <2>1
           DEF LoopInv, LoopClocksOK, PostsSeen, CyclesPost, SilenceExplained
<1>2. CASE ApplyFallback
    <2>1. watchdog = 0
        BY <1>2 DEF ApplyFallback, LoopInv, LoopClocksOK
    <2>2. /\ signalAge' = 0 /\ watchdog' = Idle
          /\ UNCHANGED <<nap, sincePost, online, calm>>
        BY <1>2, <2>1 DEF Watchdog, ApplyFallback, Apply, serviceVars
    <2>3. LoopClocksOK'
        BY <2>2 DEF LoopInv, LoopClocksOK
    <2> QED
        BY <2>2, <2>3, SignalFresh
<1> QED
    BY <1>1, <1>2 DEF Watchdog

(* The service goes down and comes back, and so does the gateway.          *)
LEMMA CrashStep == ASSUME LoopInv, Crash PROVE LoopInv'
<1>1. /\ UNCHANGED <<signalAge, watchdog, sincePost, calm>>
      /\ online' = FALSE /\ nap' = 0
    BY DEF Crash, GoOffline, GoToSleep
<1>2. online' \in BOOLEAN /\ CyclesPost'
    BY <1>1, Zenon DEF CyclesPost
<1>3. LoopClocksOK'
    BY <1>1, <1>2, LoopBounds DEF LoopInv, LoopClocksOK
<1>4. PostsSeen' /\ SilenceExplained'
    BY <1>1 DEF LoopInv, PostsSeen, SilenceExplained
<1> QED
    BY <1>2, <1>3, <1>4 DEF LoopInv

LEMMA RestartStep == ASSUME LoopInv, Restart PROVE LoopInv'
<1>1. /\ UNCHANGED <<signalAge, watchdog, nap>>
      /\ online' = TRUE /\ calm' = 0 /\ sincePost' = Heartbeat
    BY DEF Restart, GoOnline
<1> QED
    BY <1>1, LoopBounds
       DEF LoopInv, LoopClocksOK, PostsSeen, CyclesPost, SilenceExplained

LEMMA GatewayRestartsStep == ASSUME LoopInv, GatewayRestarts PROVE LoopInv'
<1>1. /\ signalAge' = 0 /\ watchdog' = Idle /\ calm' = 0
      /\ UNCHANGED <<nap, sincePost, online>>
    BY DEF GatewayRestarts
<1> QED
    BY <1>1, LoopBounds
       DEF LoopInv, LoopClocksOK, PostsSeen, CyclesPost, SilenceExplained

(* Every clock advances by one, the clock of a live loop within MaxGap.    *)
LEMMA LoopTickStep == ASSUME LoopInv, LoopTick PROVE LoopInv'
<1>1. /\ signalAge \in Nat /\ nap \in 0..MaxGap /\ calm \in Nat
      /\ sincePost \in 0..Heartbeat
    BY DEF LoopInv, LoopClocksOK
<1>2. /\ signalAge' \in Nat /\ signalAge' =< signalAge + 1
      /\ calm' \in Nat /\ calm' =< calm + 1
      /\ ~online => calm' = 0
      /\ sincePost' \in 0..Heartbeat
      /\ sincePost' < Heartbeat => sincePost' = sincePost + 1
    BY <1>1, LoopBounds DEF LoopTick, Tick, Older
<1>3. /\ nap' \in 0..MaxGap
      /\ online => nap' = nap + 1
    BY <1>1, LoopBounds DEF LoopTick, Older
<1>4. watchdog' \in {Idle, Stale, 0} /\ online' = online
    <2>1. watchdog \in {Idle, Stale, 0} /\ watchdog # 0
        BY ControlLoopAssumption DEF LoopInv, LoopClocksOK, LoopTick, Tick
    <2> QED
        BY <2>1 DEF LoopTick, Tick
<1>5. LoopClocksOK'
    BY <1>2, <1>3, <1>4 DEF LoopInv, LoopClocksOK
<1>6. PostsSeen'
    BY <1>1, <1>2, LoopBounds DEF LoopInv, PostsSeen
<1>7. CyclesPost'
    BY <1>1, <1>2, <1>3, <1>4, LoopBounds DEF LoopInv, CyclesPost
<1>8. SilenceExplained'
    <2>1. CASE ~online
        BY <1>2, <2>1, LoopBounds DEF SilenceExplained
    <2>2. CASE online
        BY <1>2, <1>3, <1>4, <1>7, <2>2, LoopBounds DEF CyclesPost, SilenceExplained
    <2> QED
        BY <2>1, <2>2
<1> QED
    BY <1>5, <1>6, <1>7, <1>8 DEF LoopInv

(* What only reads, sends or loses changes no clock.                       *)
LEMMA IdleStep ==
    ASSUME LoopInv, UNCHANGED <<signalAge, watchdog, online, nap, sincePost, calm>>
    PROVE  LoopInv'
BY DEF LoopInv, LoopClocksOK, PostsSeen, CyclesPost, SilenceExplained

LEMMA LoopStep == LoopInv /\ [LoopNext]_loopVars => LoopInv'
<1> SUFFICES ASSUME LoopInv, [LoopNext]_loopVars
             PROVE  LoopInv'
    OBVIOUS
<1>1. CASE Scrape \/ UNCHANGED loopVars \/ \E p \in Posters : Lose(p)
    <2>1. UNCHANGED <<signalAge, watchdog, online, nap, sincePost, calm>>
        BY <1>1 DEF Scrape, Lose, loopVars, clocks
    <2> QED
        BY <2>1, IdleStep
<1>2. CASE CycleFails \/ GiveUp
    <2>1. GoToSleep /\ calm' = 0 /\ UNCHANGED <<signalAge, watchdog, online, sincePost>>
        BY <1>2 DEF CycleFails, GiveUp, clocks
    <2> QED
        BY <2>1, FailureStep
<1>3. CASE Cycle
    BY <1>3, CycleStep
<1>4. CASE \E p \in Posters : Answered(p) \/ Unanswered(p)
    BY <1>4, AnsweredStep, UnansweredStep
<1>5. CASE Crash \/ Restart \/ GatewayRestarts
    BY <1>5, CrashStep, RestartStep, GatewayRestartsStep
<1>6. CASE Watchdog
    BY <1>6, WatchdogStep
<1>7. CASE LoopTick
    BY <1>7, LoopTickStep
<1> QED
    BY <1>1, <1>2, <1>3, <1>4, <1>5, <1>6, <1>7 DEF LoopNext

-----------------------------------------------------------------------------
(* The inductive invariant.                                                *)
THEOREM LoopInvariant == LoopSpec => []LoopInv
BY LoopInitInv, LoopStep, PTL DEF LoopSpec

(***************************************************************************)
(* A live loop is never taken for dead (main.py:103-112, strategy.go:338): *)
(* when EnsureFresh finds the signal too old, the service was down, or a   *)
(* cycle or a POST failed, not longer ago than the timeout.                *)
(***************************************************************************)
THEOREM LiveLoopIsSeen == LoopSpec => LiveLoopStaysFresh
<1>1. LoopInv /\ [LoopNext]_loopVars
        => [watchdog = Idle /\ watchdog' = Stale => calm =< freshTimeout]_loopVars
    <2> SUFFICES ASSUME LoopInv, [LoopNext]_loopVars,
                        watchdog = Idle, watchdog' = Stale, UNCHANGED loopVars => FALSE
                 PROVE  calm =< freshTimeout
        OBVIOUS
    <2>1. signalAge > freshTimeout
        <3>1. CASE Watchdog
            BY <3>1, LoopBounds DEF Watchdog, CheckFresh, EnterFallback, ApplyFallback
        <3>2. CASE ~Watchdog
            <4>1. watchdog' = watchdog \/ watchdog' = Idle
                <5>1. CASE LoopTick
                    BY <5>1 DEF LoopTick, Tick
                <5>2. CASE ~LoopTick
                    BY <3>2, <5>2
                       DEF LoopNext, Scrape, Cycle, CycleFails, Answered, Unanswered, Lose,
                           GiveUp, Crash, GoOffline, Restart, GoOnline, GatewayRestarts,
                           loopVars, clocks
                <5> QED
                    BY <5>1, <5>2
            <4> QED
                BY <4>1, LoopBounds
        <3> QED
            BY <3>1, <3>2
    <2> QED
        BY <2>1 DEF LoopInv, SilenceExplained
<1>2. LoopSpec => []LoopInv
    BY LoopInvariant
<1> QED
    BY <1>1, <1>2, PTL DEF LoopSpec, LiveLoopStaysFresh
-----------------------------------------------------------------------------
(***************************************************************************)
(* The second invariant: the strategy's, with what the service keeps and   *)
(* what is in the network.  Wherever its basis came from, a POST asks for  *)
(* a limit within the bounds, at most max_delta away from that basis.      *)
(***************************************************************************)
PostsWithinDelta ==
    \A p \in Posters : mail[p] # NoPost =>
        /\ mail[p].limit - mail[p].basis =< SafetyDelta
        /\ mail[p].basis - mail[p].limit =< SafetyDelta

ServiceOK ==
    /\ metric \in minLimit..maxLimit
    /\ nap \in 0..MaxGap
    /\ awaited \in Posters \cup {NoPost}
    /\ mail \in [Posters -> {NoPost} \cup
                    [limit : SafetyMin..SafetyMax, kind : {"change", "heartbeat"},
                     basis : minLimit..maxLimit]]
    /\ sincePost \in 0..Heartbeat
    /\ sinceChange \in 0..SafetyCooldown
    /\ steady \in BOOLEAN
    /\ calm \in 0..TooLong

EnvelopeInv == AdaptiveInv /\ ServiceOK /\ PostsWithinDelta

LEMMA EnvelopeBounds ==
    /\ minLimit \in Nat /\ maxLimit \in Nat /\ SafetyMin = minLimit /\ SafetyMax = maxLimit
    /\ SafetyDelta \in Nat \ {0} /\ maxDelta \in Nat /\ SafetyDelta =< maxDelta
    /\ Heartbeat \in Nat /\ MaxGap \in Nat /\ SafetyCooldown \in Nat /\ TooLong \in Nat
    /\ Lag = {0}
BY ConfigFacts, ControlLoopAssumption, LayersConfigured, DecisionAssumption, DeltaPositive
   DEF Lag

(* What a cycle decides from a limit within the bounds is within them, and *)
(* within max_delta of it.                                                 *)
LEMMA VerdictFacts ==
    ASSUME NEW m \in minLimit..maxLimit, NEW f \in Predictors, NEW b \in BOOLEAN
    PROVE  /\ Verdict[m][f][b].limit \in SafetyMin..SafetyMax
           /\ Verdict[m][f][b].limit - m =< SafetyDelta
           /\ m - Verdict[m][f][b].limit =< SafetyDelta
<1> DEFINE d == Decide(m, f, b)
           target == Bounded(Best(m, f))
<1>1. Verdict[m][f][b] = d
  BY DEF Verdict
<1>2. m \in Int /\ m \in SafetyMin..SafetyMax /\ SafetyMin =< SafetyMax
  BY EnvelopeBounds
<1>3. Predicted(m, f)
  BY <1>2, EnvelopeBounds, ControlLoopAssumption DEF Predicted
<1>4. /\ d.changed \in BOOLEAN /\ d.limit \in Int /\ target \in Int
      /\ ~d.changed => d.limit = m
      /\ d.changed =>
           \/ target > m /\ d.limit \in (m + 1)..target /\ d.limit - m =< SafetyDelta
           \/ target < m /\ d.limit \in target..(m - 1) /\ m - d.limit =< SafetyDelta
  BY <1>2, <1>3, DecideFacts
<1>5. target \in SafetyMin..SafetyMax
  <2>1. Best(m, f) \in Int
    BY <1>2, <1>3, BestFacts
  <2> QED BY <1>2, <2>1, BoundedFacts DEF InBounds
<1> HIDE DEF d, target
<1>6. /\ d.limit \in SafetyMin..SafetyMax
      /\ d.limit - m =< SafetyDelta /\ m - d.limit =< SafetyDelta
  <2>1. CASE d.changed
    BY <1>2, <1>4, <1>5, <2>1, EnvelopeBounds
  <2>2. CASE ~d.changed
    BY <1>2, <1>4, <2>2, EnvelopeBounds
  <2> QED BY <2>1, <2>2
<1> QED BY <1>1, <1>6

-----------------------------------------------------------------------------
(* The strategy's part.  Only three steps of the loop reach its variables: *)
(* a POST that arrives, its own steps and a restart of the gateway.        *)
LEMMA LoopKeepsStrategy ==
    ASSUME EnvelopeInv, [LoopNext]_loopVars
    PROVE  AdaptiveInv'
<1>1. AdaptiveInv /\ limit \in minLimit..maxLimit /\ ControllerInv
  BY DEF EnvelopeInv, AdaptiveInv, AdaptiveTypeOK
<1>2. CASE UNCHANGED systemVars
  BY <1>1, <1>2, AdaptiveNextInv
<1>3. ASSUME NEW p \in Posters, Answered(p) \/ Unanswered(p) PROVE AdaptiveInv'
  <2>1. /\ mail[p] # NoPost /\ Apply(mail[p].limit, 0)
        /\ UNCHANGED <<poster, watchdog, online>>
    BY <1>3 DEF Answered, Unanswered
  <2>2. mail[p].limit \in Int /\ 0 \in Lag
    BY <2>1, EnvelopeBounds DEF EnvelopeInv, ServiceOK
  <2>3. /\ ControllerInv' /\ limit' \in minLimit..maxLimit
        /\ signalAge' = 0 /\ applyAge' \in {applyAge, 0}
    BY <1>1, <2>1, <2>2, ApplyFacts
  <2>4. /\ applyAge' \in 0..LongAgo \cup {Never} /\ signalAge' \in 0..TooLong \cup Lag
    BY <1>1, <2>2, <2>3, ConfigFacts DEF AdaptiveInv, AdaptiveTypeOK
  <2>5. /\ poster' \in [Posters -> Lag \cup {Idle}] /\ watchdog' \in Lag \cup {Idle, Stale}
        /\ online' \in BOOLEAN
    BY <1>1, <2>1 DEF AdaptiveInv, AdaptiveTypeOK
  <2> QED BY <2>3, <2>4, <2>5 DEF AdaptiveInv, AdaptiveTypeOK, ControllerInv
<1>4. CASE Crash \/ Restart \/ Watchdog \/ LoopTick
  <2>1. AdaptiveNext
    BY <1>4 DEF Crash, Restart, Watchdog, LoopTick, AdaptiveNext
  <2> QED BY <1>1, <2>1, AdaptiveNextInv
<1>5. CASE GatewayRestarts
  <2>1. ControllerInit'
    BY <1>5 DEF GatewayRestarts, ControllerInit
  <2>2. ControllerInv' /\ limit' \in minLimit..maxLimit
    <3>1. ControllerInit' => ControllerInv'
      BY InitInv, PTL
    <3>2. limit' = AtLeastOne(InitialLimit)
      BY <1>5 DEF GatewayRestarts
    <3> QED BY <2>1, <3>1, <3>2, StartsWithinBounds
  <2>3. /\ applyAge' = Never /\ signalAge' = 0 /\ watchdog' = Idle
        /\ poster' = [p \in Posters |-> Idle] /\ online' = online
    BY <1>5 DEF GatewayRestarts
  <2>4. /\ applyAge' \in 0..LongAgo \cup {Never} /\ signalAge' \in 0..TooLong \cup Lag
        /\ poster' \in [Posters -> Lag \cup {Idle}] /\ watchdog' \in Lag \cup {Idle, Stale}
        /\ online' \in BOOLEAN
    BY <1>1, <2>3, EnvelopeBounds DEF AdaptiveInv, AdaptiveTypeOK
  <2> QED BY <2>2, <2>4 DEF AdaptiveInv, AdaptiveTypeOK, ControllerInv
<1>6. CASE Scrape \/ Cycle \/ CycleFails \/ GiveUp \/ (\E p \in Posters : Lose(p))
           \/ UNCHANGED loopVars
  <2>1. UNCHANGED systemVars
    BY <1>6 DEF Scrape, Cycle, CycleFails, GiveUp, Lose, loopVars, systemVars,
                controllerVars, clocks
  <2> QED BY <1>2, <2>1
<1> QED BY <1>3, <1>4, <1>5, <1>6 DEF LoopNext
-----------------------------------------------------------------------------
(* The service's part.                                                     *)

PostTypes == [limit : SafetyMin..SafetyMax, kind : {"change", "heartbeat"},
              basis : minLimit..maxLimit]

PostsOK == mail \in [Posters -> {NoPost} \cup PostTypes] /\ PostsWithinDelta

(* Sending adds one POST, derived from the metric.                         *)
LEMMA SendFacts ==
    ASSUME PostsOK, metric \in minLimit..maxLimit,
           NEW n \in SafetyMin..SafetyMax, n - metric =< SafetyDelta, metric - n =< SafetyDelta,
           NEW kind \in {"change", "heartbeat"}, Send(n, kind)
    PROVE  PostsOK' /\ awaited' \in Posters /\ nap' = nap
<1> DEFINE post == [limit |-> n, kind |-> kind, basis |-> metric]
<1>1. PICK p \in Posters : mail' = [mail EXCEPT ![p] = post] /\ awaited' = p
  BY DEF Send
<1>2. post \in PostTypes /\ post.limit = n /\ post.basis = metric
  BY DEF PostTypes
<1> HIDE DEF post
<1>3. mail' \in [Posters -> {NoPost} \cup PostTypes]
  BY <1>1, <1>2 DEF PostsOK
<1>4. ASSUME NEW q \in Posters, mail'[q] # NoPost
      PROVE  /\ mail'[q].limit - mail'[q].basis =< SafetyDelta
             /\ mail'[q].basis - mail'[q].limit =< SafetyDelta
  <2>1. CASE q = p
    <3>1. mail'[q] = post
      BY <1>1, <2>1 DEF PostsOK
    <3> QED BY <1>2, <3>1
  <2>2. CASE q # p
    <3>1. mail'[q] = mail[q]
      BY <1>1, <2>2 DEF PostsOK
    <3> QED BY <1>4, <3>1 DEF PostsOK, PostsWithinDelta
  <2> QED BY <2>1, <2>2
<1>5. PostsWithinDelta'
  BY <1>4 DEF PostsWithinDelta
<1>6. awaited' \in Posters /\ nap' = nap
  BY <1>1 DEF Send
<1> QED BY <1>3, <1>5, <1>6 DEF PostsOK

(* A POST that has arrived or is lost is no longer in the network.         *)
LEMMA RemovedFacts ==
    ASSUME PostsOK, NEW p \in Posters, mail' = [mail EXCEPT ![p] = NoPost]
    PROVE  PostsOK'
<1>1. mail' \in [Posters -> {NoPost} \cup PostTypes]
  BY DEF PostsOK
<1>2. \A q \in Posters : mail'[q] # NoPost => mail'[q] = mail[q]
  BY DEF PostsOK
<1> QED BY <1>1, <1>2 DEF PostsOK, PostsWithinDelta

(* What the service remembers, apart from the limit it saw and the POSTs.  *)
MemoryOK ==
    /\ nap \in 0..MaxGap
    /\ awaited \in Posters \cup {NoPost}
    /\ sincePost \in 0..Heartbeat
    /\ sinceChange \in 0..SafetyCooldown
    /\ steady \in BOOLEAN
    /\ calm \in 0..TooLong

LEMMA CycleKeepsService ==
    ASSUME EnvelopeInv, Cycle
    PROVE  PostsOK' /\ MemoryOK' /\ metric' = metric
<1>1. PostsOK /\ MemoryOK /\ metric \in minLimit..maxLimit
  BY DEF EnvelopeInv, ServiceOK, PostsOK, PostTypes, MemoryOK
<1>2. UNCHANGED <<metric, sincePost, calm>>
  BY DEF Cycle
<1> DEFINE cool == sinceChange < SafetyCooldown
<1>3. cool \in BOOLEAN
  OBVIOUS
<1>4. PICK f \in Predictors :
         /\ steady' = (f = SteadyCost)
         /\ \/ /\ Send(Verdict[metric][f][cool].limit, "change")
               /\ sinceChange' = 0
            \/ /\ Send(metric, "heartbeat")
               /\ UNCHANGED sinceChange
            \/ GoToSleep /\ UNCHANGED <<mail, sinceChange>>
  BY Zenon DEF Cycle
<1>5. steady' \in BOOLEAN
  BY <1>4, Zenon
<1>6. CASE Send(Verdict[metric][f][cool].limit, "change") /\ sinceChange' = 0
  <2>1. PostsOK' /\ awaited' \in Posters /\ nap' = nap
    <3> HIDE DEF cool
    <3>1. /\ Verdict[metric][f][cool].limit \in SafetyMin..SafetyMax
          /\ Verdict[metric][f][cool].limit - metric =< SafetyDelta
          /\ metric - Verdict[metric][f][cool].limit =< SafetyDelta
      BY <1>1, <1>3, VerdictFacts
    <3> QED BY <1>1, <1>6, <3>1, SendFacts
  <2>2. MemoryOK'
    BY <1>1, <1>2, <1>5, <1>6, <2>1, EnvelopeBounds DEF MemoryOK
  <2> QED BY <1>2, <2>1, <2>2
<1>7. CASE Send(metric, "heartbeat") /\ UNCHANGED sinceChange
  <2>1. PostsOK' /\ awaited' \in Posters /\ nap' = nap
    <3>1. metric \in SafetyMin..SafetyMax /\ metric - metric =< SafetyDelta
      BY <1>1, EnvelopeBounds
    <3> QED BY <1>1, <1>7, <3>1, SendFacts
  <2>2. MemoryOK'
    BY <1>1, <1>2, <1>5, <1>7, <2>1 DEF MemoryOK
  <2> QED BY <1>2, <2>1, <2>2
<1>8. CASE GoToSleep /\ UNCHANGED <<mail, sinceChange>>
  <2>1. MemoryOK'
    BY <1>1, <1>2, <1>5, <1>8, EnvelopeBounds DEF MemoryOK, GoToSleep
  <2>2. PostsOK'
    BY <1>1, <1>8 DEF PostsOK, PostsWithinDelta
  <2> QED BY <1>2, <2>1, <2>2
<1> QED BY <1>4, <1>6, <1>7, <1>8

LEMMA LoopKeepsService ==
    ASSUME EnvelopeInv, [LoopNext]_loopVars
    PROVE  ServiceOK' /\ PostsWithinDelta'
<1> DEFINE Good == PostsOK' /\ MemoryOK' /\ metric' \in minLimit..maxLimit
<1> SUFFICES Good
  BY DEF ServiceOK, PostsOK, PostTypes, MemoryOK
<1>1. /\ PostsOK /\ MemoryOK
      /\ metric \in minLimit..maxLimit /\ limit \in minLimit..maxLimit
  BY DEF EnvelopeInv, ServiceOK, PostsOK, PostTypes, MemoryOK, AdaptiveInv, AdaptiveTypeOK
<1>2. ASSUME UNCHANGED mail PROVE PostsOK'
  BY <1>1, <1>2 DEF PostsOK, PostsWithinDelta
<1>3. CASE Scrape
  <2>1. metric' = limit /\ UNCHANGED <<nap, awaited, mail, sincePost, sinceChange, steady, calm>>
    BY <1>3 DEF Scrape
  <2> QED BY <1>1, <1>2, <2>1 DEF MemoryOK
<1>4. CASE Cycle
  BY <1>1, <1>4, CycleKeepsService
<1>5. CASE CycleFails \/ GiveUp
  <2>1. /\ nap' = 0 /\ awaited' = NoPost /\ calm' = 0
        /\ UNCHANGED <<metric, mail, sincePost, sinceChange, steady>>
    BY <1>5 DEF CycleFails, GiveUp, GoToSleep
  <2> QED BY <1>1, <1>2, <2>1, EnvelopeBounds DEF MemoryOK
<1>6. ASSUME NEW p \in Posters, Answered(p) PROVE Good
  <2>1. /\ mail' = [mail EXCEPT ![p] = NoPost]
        /\ sincePost' = 0 /\ nap' = 0 /\ awaited' = NoPost
        /\ UNCHANGED <<metric, sinceChange, steady, calm>>
    BY <1>6 DEF Answered, GoToSleep
  <2>2. PostsOK'
    BY <1>1, <2>1, RemovedFacts
  <2>3. MemoryOK'
    BY <1>1, <2>1, EnvelopeBounds DEF MemoryOK
  <2> QED BY <1>1, <2>1, <2>2, <2>3
<1>7. ASSUME NEW p \in Posters, Unanswered(p) \/ Lose(p) PROVE Good
  <2>1. /\ mail' = [mail EXCEPT ![p] = NoPost]
        /\ UNCHANGED <<metric, nap, awaited, sincePost, sinceChange, steady, calm>>
    BY <1>7 DEF Unanswered, Lose
  <2> QED BY <1>1, <2>1, RemovedFacts DEF MemoryOK
<1>8. CASE Crash
  <2>1. nap' = 0 /\ awaited' = NoPost
        /\ UNCHANGED <<metric, mail, sincePost, sinceChange, steady, calm>>
    BY <1>8 DEF Crash, GoToSleep
  <2> QED BY <1>1, <1>2, <2>1, EnvelopeBounds DEF MemoryOK
<1>9. CASE Restart
  <2>1. /\ sincePost' = Heartbeat /\ sinceChange' = SafetyCooldown /\ calm' = 0
        /\ UNCHANGED <<metric, nap, awaited, mail, steady>>
    BY <1>9 DEF Restart
  <2> QED BY <1>1, <1>2, <2>1, EnvelopeBounds DEF MemoryOK
<1>10. CASE GatewayRestarts
  <2>1. calm' = 0 /\ UNCHANGED <<metric, nap, awaited, mail, sincePost, sinceChange, steady>>
    BY <1>10 DEF GatewayRestarts
  <2> QED BY <1>1, <1>2, <2>1, EnvelopeBounds DEF MemoryOK
<1>11. CASE LoopTick
  <2>1. UNCHANGED <<metric, awaited, mail, steady>>
    BY <1>11 DEF LoopTick
  <2>2. /\ nap' \in 0..MaxGap /\ sincePost' \in 0..Heartbeat
        /\ sinceChange' \in 0..SafetyCooldown /\ calm' \in 0..TooLong
    BY <1>1, <1>11, EnvelopeBounds DEF LoopTick, Older, MemoryOK
  <2> QED BY <1>1, <1>2, <2>1, <2>2 DEF MemoryOK
<1>12. CASE Watchdog \/ UNCHANGED loopVars
  <2>1. UNCHANGED serviceVars
    BY <1>12 DEF Watchdog, loopVars, serviceVars
  <2> QED BY <1>1, <1>2, <2>1 DEF serviceVars, MemoryOK
<1> QED BY <1>3, <1>4, <1>5, <1>6, <1>7, <1>8, <1>9, <1>10, <1>11, <1>12 DEF LoopNext
-----------------------------------------------------------------------------
LEMMA EnvelopeInitInv == LoopInit => EnvelopeInv
<1> SUFFICES ASSUME LoopInit PROVE EnvelopeInv
  OBVIOUS
<1>1. AdaptiveInv
  BY AdaptiveInitInv DEF LoopInit
<1>2. metric \in minLimit..maxLimit
  BY <1>1 DEF LoopInit, AdaptiveInv, AdaptiveTypeOK
<1>3. mail = [p \in Posters |-> NoPost] /\ awaited = NoPost /\ steady = TRUE
      /\ nap = 0 /\ sincePost = Heartbeat /\ sinceChange = SafetyCooldown /\ calm = 0
  BY DEF LoopInit
<1>4. ServiceOK
  BY <1>2, <1>3, EnvelopeBounds DEF ServiceOK
<1>5. PostsWithinDelta
  BY <1>3 DEF PostsWithinDelta
<1> QED BY <1>1, <1>4, <1>5 DEF EnvelopeInv

LEMMA EnvelopeStep == EnvelopeInv /\ [LoopNext]_loopVars => EnvelopeInv'
BY LoopKeepsStrategy, LoopKeepsService DEF EnvelopeInv

(* The second inductive invariant.                                         *)
THEOREM EnvelopeInvariant == LoopSpec => []EnvelopeInv
BY EnvelopeInitInv, EnvelopeStep, PTL DEF LoopSpec

(***************************************************************************)
(* Every limit in the network is within the bounds of both layers, however *)
(* old the metric it comes from, whatever crashed or got lost meanwhile,   *)
(* and the gateway's limit never leaves them.                              *)
(***************************************************************************)
THEOREM LoopTypeCorrect == LoopSpec => []LoopTypeOK
<1>1. EnvelopeInv => LoopTypeOK
  BY DEF EnvelopeInv, ServiceOK, AdaptiveInv, LoopTypeOK
<1> QED BY <1>1, EnvelopeInvariant, PTL

(* Only a POST that reaches Apply changes both the limit and the network.  *)
LEMMA ArrivalsOnly ==
    ASSUME EnvelopeInv, LoopNext, NEW p \in Posters,
           mail[p] # NoPost, mail'[p] = NoPost, limit' # limit
    PROVE  Apply(mail[p].limit, 0)
<1>1. mail' # mail
  OBVIOUS
<1>2. ~ (Crash \/ Restart \/ GatewayRestarts \/ Watchdog \/ LoopTick \/ CycleFails \/ GiveUp)
  BY <1>1 DEF Crash, Restart, GatewayRestarts, Watchdog, LoopTick, CycleFails, GiveUp, serviceVars
<1>3. ~ (Scrape \/ Cycle \/ \E q \in Posters : Lose(q))
  BY DEF Scrape, Cycle, Lose, controllerVars
<1>4. PICK q \in Posters : Answered(q) \/ Unanswered(q)
  BY <1>2, <1>3 DEF LoopNext
<1>5. Apply(mail[q].limit, 0) /\ mail' = [mail EXCEPT ![q] = NoPost]
  BY <1>4 DEF Answered, Unanswered
<1>6. p = q
  BY <1>5 DEF EnvelopeInv, ServiceOK
<1> QED BY <1>5, <1>6

(***************************************************************************)
(* The gateway's envelope (strategy.go:286-326) alters nothing that has    *)
(* passed the service's (safety.py:41-74), unless the limit has moved      *)
(* between the two: it takes the limit posted, or in its cooldown none.    *)
(***************************************************************************)
THEOREM LayersAlwaysAgree == LoopSpec => LayersAgree
<1> DEFINE Agree == \A p \in Posters :
                        /\ mail[p] # NoPost /\ mail'[p] = NoPost
                        /\ mail[p].basis = limit
                        /\ limit' # limit
                        => limit' = mail[p].limit
<1>1. EnvelopeInv /\ [LoopNext]_loopVars => [Agree]_loopVars
  <2> SUFFICES ASSUME EnvelopeInv, LoopNext, NEW p \in Posters,
                      mail[p] # NoPost, mail'[p] = NoPost,
                      mail[p].basis = limit, limit' # limit
               PROVE  limit' = mail[p].limit
    OBVIOUS
  <2>1. Apply(mail[p].limit, 0)
    BY ArrivalsOnly
  <2>2. PICK n \in Int : n = mail[p].limit /\ n \in minLimit..maxLimit
    BY EnvelopeBounds DEF EnvelopeInv, ServiceOK
  <2>3. n - limit =< maxDelta /\ limit - n =< maxDelta /\ limit \in Nat
    <3>1. limit \in Nat /\ n - limit =< SafetyDelta /\ limit - n =< SafetyDelta
      BY <2>2, EnvelopeBounds DEF EnvelopeInv, PostsWithinDelta, AdaptiveInv, AdaptiveTypeOK
    <3> QED BY <2>2, <3>1, EnvelopeBounds
  <2>4. clampInt(n, minLimit, maxLimit) = n /\ Trimmed(n) = n /\ AtLeastOne(n) = n
    BY <2>2, <2>3, ConfigFacts DEF clampInt, Trimmed, AtLeastOne
  <2>5. UNCHANGED controllerVars \/ SetLimit(n)
    BY <2>1, <2>2, <2>4 DEF Apply
  <2> QED BY <2>2, <2>4, <2>5 DEF SetLimit, controllerVars
<1> QED BY <1>1, EnvelopeInvariant, PTL DEF LoopSpec, LayersAgree
=============================================================================
