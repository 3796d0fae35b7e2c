# adaptive-db-pool in TLA+

A verification development of the concurrency and control logic of
adaptive-db-pool: the admission controller in front of PostgreSQL, the
strategies that move its limit, the path of a request through the gateway, and
the controller service that closes the loop from the outside. Every definition
is translated from the source; paths below are relative to the repository, and
`controller.go`, `strategy.go` are those of `backend/internal/domain/admission`.

## 1. The system

| Part | State | Operations | Talks to |
| --- | --- | --- | --- |
| Admission controller (`controller.go`) | `limit`, `active`, `waiting`, `queue` of channels, all under `c.mu` | `Acquire`, `abandon`, `Release`, `SetLimit`, `notifyLocked` | called by requests and strategies; wakes requests through channels |
| Static strategy (`strategy.go:10-37`) | none of its own | delegates, never sets the limit | controller |
| Heuristic strategy (`strategy.go:60-208`) | thresholds, `done` | loop: `Observe`, `adjust`, `apply`; `Stop` | reads and sets the controller's limit |
| Adaptive strategy (`strategy.go:210-393`) | `lastApply`, `lastSignal` under `a.mu` | `Apply`, `EnsureFresh` | called by HTTP handlers and by the loop of the admission service; sets the limit |
| Admission service (`application/admission/service.go`) | `done` | `ApplyLimit`, `Start` (watchdog loop, which also publishes the limit), `Stop` | adaptive strategy, metrics |
| Workload service (`application/workload/service.go`) | a context with the timeout per request | `execute`: Acquire, fn, deferred Release | strategy, repository |
| HTTP layer (`delivery/http`) | the response of each request | handlers, `RespondError`, `requestMetrics`, `Logging`, `Recovery` | workload and admission services |
| Repository and pool (`infrastructure/database`) | pgxpool's connections | five read methods of one or two queries | PostgreSQL |
| Metrics (`infrastructure/metrics`) | Prometheus registry; the gauge of the limit has three writers | collectors, counters, histograms | controller, pool; scraped for the controller service |
| Configuration and assembly (`config.go`, `main.go`) | the configuration, constant after the start; the life of the process | `Load`, wiring, listening, the way from SIGTERM to the exit | everything |
| Controller service (`controller/src`) | `current_limit`, `last_post_ts`, `_last_change_ts`, all in memory | cycle: fetch, optimize, evaluate, post or heartbeat | Prometheus (reads), gateway (POST) |
| ML pipeline (`ml/`), experiments, SQL, dashboards | files | batch scripts | – |

What is hard here: a context that ends in the moment a slot is granted; a queue
that three different operations must drain; a limit that shrinks under the
feet of those inside; decisions taken on an observation, a clock or a sample
that is no longer true when they are carried out; a fallback that refreshes the
signal it watches; POSTs that arrive late, twice as it were, or not at all; a
service, or a gateway, that crashes and forgets its cooldown; heartbeats that must
come in time although cycles fail and are slow; a gauge written by three goroutines
from what each read a while ago; a shutdown that must neither cut off a request nor
wait for ever. `PROJECT.json` lists each of these at its
line, with the properties that are about it.

What makes each part correct:

* controller – slots are counted exactly, no waiter is forgotten or passed,
  nobody starves, nothing is handed out beyond the limit of the moment;
* heuristic – the limit moves in the right direction for what really happens,
  within its bounds, and gets where lasting load calls for;
* adaptive – bounds, step and spacing hold however callers interleave; a live
  service is not taken for dead and a dead one is replaced by the fallback;
* request path – a slot is held exactly while the database is used, everyone is
  answered, and with the status that fits what happened;
* metrics – what the controller service can see of the limit is at most two seconds old;
* shutdown – it ends, and cuts nobody off whose timeout is shorter than its window;
* controller service – the safety layer means what it says, both layers agree,
  the loop settles;
* configuration – what `Load` lets through is what the strategies rely on, and two
  parsers of one environment never understand it differently.

## 2. The modules

| Module | Models | Composes |
| --- | --- | --- |
| `AdmissionGate` | the promise: a resizable FIFO semaphore without counters, channels or lock | – |
| `AdmissionController` | `controller.go` | implements `AdmissionGate` |
| `HeuristicStrategy` | the heuristic loop | extends the controller |
| `AdaptiveStrategy` | `Apply`, `EnsureFresh`, the watchdog loop, clocks | extends the controller |
| `Telemetry` | the gauge of the limit, its three writers and their second | extends `AdaptiveStrategy`, implements it |
| `RequestPath` | `execute`, handlers, error mapping, repository, pool | extends the controller, implements it |
| `Shutdown` | the life of the gateway process: listen, signal, drain, close, exit | extends `RequestPath`, implements it |
| `Decision` | grid optimizer (online and offline) and safety layer as operators | – |
| `Predictor` | the analytic predictor as an operator | – |
| `DecisionCycle` | one cycle of the service, from what it sees to what it decides | extends `Decision` and `Predictor` |
| `Configuration` | how both programs start from their environment | – |
| `ControlLoop` | the controller service, the network, Prometheus' sample, restarts | extends `AdaptiveStrategy` and `Decision` |
| `MC...` | small instances for TLC | one each |
| `...Proofs` | theorems about the module they are named after; `DecisionProofs` about `DecisionCycle`, `GatewayProofs` about `RequestPath` and `Shutdown` | `TelemetryProofs` and `ControlLoopProofs` extend `AdaptiveStrategyProofs`, the latter also `DecisionProofs`; `AdaptiveStrategyProofs`, `HeuristicStrategyProofs` and `GatewayProofs` extend `AdmissionControllerProofs` |

A definition `X_something` just before `X` is a plausible mistake in the code `X`
stands for. Every property of every passing run was tried against one of them and
is violated by it; they are not used anywhere else.

### AdmissionController

One action per critical section. `Acquire` is three: the part under the lock
(`AcquireFast` or `AcquireEnqueue`), and the select, which takes the token
(`ReceiveGrant`) or the end of the context (`ContextDone`); when both are ready it
may take either. `abandon` is a critical section of its own, with one action for
each of its two outcomes. The channel of a waiter is reduced to membership of
`granted`: it holds its token. `notifyLocked` is an operator on the values its
caller has just computed, for each of its iterations does the same to the head of
the queue; `Eligible` is their number. `waiting` is an integer, because the code
lets it go below 0. Requests call `Acquire` again and again; `LimitInputs` are the
arguments of `SetLimit`, nonsensical ones included.

`recordWait`, a running sum only telemetry reads, is left out.

### HeuristicStrategy

`adjust` is two actions, `Observe` and `Adjust`, with requests between them.
`Adjust` reads and sets the limit in one step, because the loop is the only
caller of `SetLimit` under this strategy. Thresholds are percentages compared in
integers. The observation carries the real length of the queue for the properties
only. Ticks may come at any time.

### AdaptiveStrategy

Time is kept as ages, in ticks, and stops where no comparison of the code changes
its answer any more (`LongAgo`, `TooLong`). `Apply` reads the clock before it locks
`a.mu`; a caller is therefore two actions, and the lag between them is bounded by
`MaxLag` ticks, a bound of the model on how long a goroutine may wait for the lock.
`EnsureFresh` is three: the check under the lock, the reading of the clock in `Apply`,
and the rest of `Apply`. From the lock on `Apply` is one action.

### Telemetry

The gauge of the limit is what the controller service sees of the gateway. The decision
sink of `main.go` sets it within `Apply`; the collector takes a snapshot of the
controller and then sets the gauge to it; the loop of the admission service reads the
limit after each `EnsureFresh` and then sets the gauge to it. The last two are two
actions each, with anything between. A tick is a second: the collector takes one sample
in each, and both readers set the gauge within the second in which they read. `silence`
and `changeAge` are history variables for the properties.

### RequestPath

A request is `away`, in `admission`, `working` without a connection, in a `query`
with one, `returned` with the deferred Release due, `responding`, `answered`. An
error is the set of what `errors.Is` and `errors.As` find in it, and
`RespondError` looks at it in the order of the code. A method issues one or two
queries, each on a connection of its own. Only the end of its context is sure to
end a query; the pool may also have no usable connection to give. The response is its
status. What `requestMetrics` counts is left out.

### Shutdown

`main` listens in a goroutine and waits for a signal. `ShutdownWithContext` closes the
listener and waits for the open requests or the end of its window; then the loops are
stopped, the deferred `pool.Close` waits for every connection, and the process ends,
with whatever still runs. A signal may also come before anything listens. Time counts
from the signal on: what is left of the timeout of each request is arbitrary at that
moment, afterwards a tick passes for all timers at once, and only when the gateway has
nothing to do itself, for what it does takes no time next to a tick. Fiber and pgxpool
are external and modelled from how `main.go` uses them.

### Decision and ControlLoop

`Decision` has the grid, the argmin with its order of ties, the improvement hint
with Python's truth of numbers, and `SafetyLayer.evaluate`; `cost` is an arbitrary
function, or `Failed` where the predictor raised. `Recommended` is the optimizer of the
ML pipeline, which looks at a grid over all limits. `min(evaluated, key=...)` is
`FirstLeast`: the first position in the order of trial whose cost none undercuts.
`DecisionCycle` takes one decision: any current limit the gateway may report, in or out of
the bounds, and any costs of a trained model, or telemetry for the analytic predictor.

`ControlLoop` takes the time of
`AdaptiveStrategy` with a tick the length of the loop's interval, and adds the
service: a cycle reads the last scraped limit and posts a change, a heartbeat or
nothing. A POST arrives and is answered, arrives without the answer being received,
is lost, or arrives after the service gave up on it. The service may crash and
restart with its memory lost, and so may the gateway (`GatewayRestarts`), whose limit,
cooldown and signal start anew while samples and POSTs from before live on. `Verdict` is
`Decide` as a table (a function of the sample, the cost and the cooldown), which TLC computes
once.

### Predictor

`HeuristicCost` is the cost the service predicts when it has no trained model, term
by term. Floating point is replaced by exact arithmetic: weights in twentieths, the
result in a unit in which every quotient by a limit is an integer. `DecisionCycle` feeds
it to `Decision`; the trained model stays an arbitrary cost.

### Configuration

Two actions, one for the start of each program. A variable's text is unset (or
empty), garbage, or a number with or without the unit `s`, and each program parses it
as its own parser does: `strconv.Atoi`, `time.ParseDuration`, `int`, `float`. `Load`
is the parsing and the validation, with Go's precedence of its last condition;
`Assembled` is what `main.go`, `NewController` and `NewAdaptiveStrategy` make of the
result, replacements of nonsense included; `FromEnv` takes the environment before the
YAML file. `compose` says whether `docker-compose.yml`, which hands four of the
variables to the service only, is between the operator and the gateway. Variables
that are parsed and not compared with anything (addresses, DSN, timeouts) are left
out.

## 3. What is checked

Bounds are those of the `.cfg` files.

| Run | Instance | Shows |
| --- | --- | --- |
| `controller` | 4 requests, limits −1..3 | exact accounting, exact queue, no lost wakeup, bounded drift, no over-admission, no barging; no starvation, shrinks take effect, implements `AdmissionGate` (so waiters are served in order) with its fairness |
| `heuristic` | 4 requests, bounds 1..2, step 2, thresholds 90 and 60 | bounds; growing and shrinking mean what they should in spite of stale observations and the drift; lasting saturation ends at the upper bound, and lasting idleness at the lower one unless the counter has drifted below 0 |
| `adaptive` | `Telemetry`: 1 request, 2 handlers, limits 1..5, lag 1 | bounds, step, spacing of changes, patience of the watchdog; the fallback is reached and kept; the gauge is at most two seconds behind |
| `gateway` | `Shutdown`: 2 requests, 1 connection, limit 1..2, window and timeout of 2 ticks | slots follow the work, one queue, honest 504s, everyone is answered; a shutdown ends and cuts nobody off |
| `decision` | limits 0..7, bounds 1..6, costs arbitrary on the grid, convex, or analytic | envelope; for convex costs no regret, no change that the next cycle takes back, and nearness to the offline recommendation; under pressure the analytic predictor only makes the limit grow |
| `configuration` | every combination of 9216 environments, 3 YAML files, with and without compose | what is accepted is sound, what makes sense is accepted, both programs have one safety layer or one of them refuses to start |
| `loop` | limits 1..5, grid step 2, 2 POSTs in the network, two predictors | a live loop stays fresh, both layers agree, the loop settles next to the optimum |

Safety and liveness of a component are one run, under the fair specification and
without symmetry.

Why the bounds are enough: the controller's rules compare `active` with `limit`
and look at the two ends of the queue, so four requests and a limit of three show
every combination of running, granted, queued and abandoning requests around a
resize; what is proved (section 5) holds for any number. `heuristic` has two requests more
than its largest limit: with both slots of the maximum taken one request can wait while
another releases and comes back, so saturation can last at every limit, the
maximum included, and staying there is put to the test; abandoned grants take the counter
to -1 as well. There the minimum is 1; a start below a larger one is part of the
proofs only. In `adaptive` the limits
are more than two steps apart, the timeout is longer than the cooldown, and
candidates lie below, in, at the edge of and above the bounds. In `gateway` the
limit is at and above the size of the pool, one request queues behind the other for
admission or for the connection, and what is left of a timeout at the signal is below
or at the window. In `loop` Heartbeat, MaxGap (the
slowest cycle) and the timeout relate as 15 s, about 35 s and 60 s do:
`Heartbeat - 1 + MaxGap` ticks just fit in the timeout (`HeartbeatInTime`); the optimum
lies two steps of max_delta away from the fallback, one from a restarted gateway.

`decision` makes one decision per behaviour and `configuration` starts two programs;
then they stop. They are the only passing runs for which deadlock is not looked for.

### Disagreements between code and documents

Each of these is a run in which TLC must find the stated property violated.

| Run | What is said | What the code does |
| --- | --- | --- |
| `controller_waiting_count` | `controller.go:170`: Waiting is the number of queued requests | an abandoned grant is subtracted twice |
| `heuristic_never_shrinks` | `architecture.md:142`: nobody waiting and a utilization below 0.3, the limit shrinks | `main.go` leaves the threshold at 0, which is kept |
| `adaptive_fallback_creeps` | `strategy.go:335`: silent for longer than the timeout, the limit is reverted to the fallback | it takes one step of max_delta per timeout, for `Apply` refreshes the signal that the timeout watches, or none at all when a candidate came in between |
| `decision_hysteresis_skipped` | `safety.py:8`: insignificant improvements are ignored | costs of 0.0 are taken for missing ones, no hint is made, and the limit is changed for no gain at all |
| `loop_heartbeat_reverts` | `main.py:104`: proves liveness | posts an old limit, which is applied |

Others were met while reading and modelling and have no run of their own. The
definitions follow the code in each of them:

* `controller.go:35` says that active never exceeds limit; it does after a shrink
  below the number of active requests (`SetLimit`; `ShrinkConverges` is what holds).
* `architecture.md:141` lets the heuristic grow when somebody waits; the drift of
  `waiting` may hide the waiter for ever (`AbandonGranted`), so `GrowsWhenSaturated`
  speaks of the counter.
* `strategy.go:66` says that adjustments stay within the bounds and respect a
  cooldown. `config.go:142` lets the heuristic start below its minimum, from where
  a step need not reach it (`Grown`; `lowest` is what holds), and there is no cooldown.
* `strategy.go:63` has waiting *or* utilization where the code has *and*
  (`Saturated`).
* `strategy.go:290` says that any candidate refreshes the signal; one that arrives
  between the check and the `Apply` of `EnsureFresh` does not keep the fallback away
  (`CheckFresh`, `ApplyFallback`).
* `operations.md:293` has 503 for a request that is not admitted in time; the answer
  is 504, for `RespondError` looks at the context error first.
* `architecture.md:142` lets an idle gateway shrink. Even with the threshold it names
  (and not `main.go`'s 0) the drift may keep it from that: when abandoned grants have left
  `waiting` at -1, `obs.Waiting == 0` is false for as long as nobody comes. That is why
  `ShrinksWhenIdle` has `waiting < 0` among its outcomes; without it (`IdleShrinks`) TLC
  finds the property violated under the thresholds of `heuristic` too.
* `safety.py:8` once more: a failed baseline skips the threshold as well (`HintKnown`), and so do
  latencies of NaN, which `histogram_quantile` yields when nothing came in for 30 s and
  `telemetry.py` hands on; all costs are then NaN, which compare like costs that are
  all 0, so `DecisionCycle` has no NaN among its observations.
* `predictor.py:52` has waiting pressure shrink as capacity grows. A drifted `waiting` of -1,
  which the gateway publishes and `telemetry.py:88` hands on, is a pressure that grows with
  the limit: with one request inside and a p99 of 50 ms the loop shrinks the limit
  under that request. `GrowsUnderPressure` therefore asks that latencies outweigh a
  negative counter (`LinearPressure`); without that TLC finds it violated in `decision`.
* `prometheus.go:69` counts all error responses. `requestMetrics` reads the status before
  Fiber's `ErrorHandler` has made a 400 of an error that `applyLimit` returned (`admin.go:53`),
  which is counted as a 2xx, and is passed by a panic, which is not counted.
* `architecture.md:192` says that a cycle whose prediction throws is skipped; only the
  candidate is (`Evaluated`).
* `controller.yaml:1` says that both layers agree; `docker-compose.yml:81` passes
  overrides to one of them only. `SameEnvelope` is about a start without compose.
* `README.md:149` documents `ADMISSION_COOLDOWN` as `5s`; `float("5s")` raises in the
  service, and a bare `5` is refused by the gateway, so the documented override
  starts at most one of the two programs (`Resolve`, `ParseDuration`).
* `predictor.py:31` and `config.py:54` have the resource term as the pressure against
  over-provisioning; the term does not depend on the candidate (`HeuristicCost`), so
  without a trained model the loop grows under load (`GrowsUnderPressure`).

## 4. Fairness

Every fairness assumption is about something the runtime does by itself.

* Controller: a goroutine whose channel has its token, or that wants `c.mu`, gets
  on (`ReceiveGrant`, `AbandonQueued`, `AbandonGranted`), and an admitted request
  releases, which `execute` does with `defer`. Nothing makes requests arrive,
  contexts end or limits change.
* Heuristic: the ticker ticks and the loop runs. Nothing makes anyone call `Stop`.
* Adaptive: time passes, the tickers of watchdog and collector fire, handlers get the
  lock. The service need not post.
* Gateway: timers fire, goroutines run, and once the signal has come time passes and
  `main` goes on. A query need not return, a connection need not become free, no
  signal need come and the limit need not move.
* Closed loop: Prometheus scrapes, the loop runs, a POST does not stay in the network
  for ever, and the watchdog of the gateway runs. That nothing goes wrong any more is a premise of `ConvergesToTarget`,
  not an assumption.

## 5. What is proved

Eight modules hold theorems. A theorem holds for every value of the constants that
satisfies the assumptions named with it. Each module has one inductive invariant, or one
per program, and the theorems are its consequences.

### The controller (`AdmissionControllerProofs`)

For every finite, nonempty set of requests, every initial limit and every set of inputs
of `SetLimit` (`ControllerAssumption`):

| Theorem | States |
| --- | --- |
| `ControllerInvariant` | `ControllerSpec => []ControllerInv` |
| `ControllerTypeCorrect`, `SlotsNeverLeak`, `QueueAlwaysExact`, `AlwaysWorkConserving`, `DriftAlwaysBounded` | its parts, the invariants of the run `controller` |
| `NeverOverAdmits`, `NobodyBarges` | two of its action properties |
| `ServedInOrder` | nobody falls back in the queue or is passed in it: the safety half of `NoStarvation` |
| `ControllerImplementsGate` | the controller implements the abstract gate, fairness aside |

`ControllerInv` is the conjunction of all five invariants; none of the four after
the typing is inductive alone. That `active` counts the holders survives
`notifyLocked` only because the queue has no duplicates and nobody in it holds a
token (`QueueExact`); that the drift is below the number of requests survives
`AbandonGranted` only because the abandoning request is not in the queue, so the
queue is shorter than the number of requests; `NobodyBarges` is `WorkConserving`
read the other way round. `NotifyFacts` says once what `notifyLocked` does to
queue, tokens and counters, given facts about splitting an injective sequence
(`SplitInjective`) and removing an element of it (`RemoveInjective`), and every
action that calls it cites it. The refinement needs the invariant too: a slot the
counter calls free is one nobody holds, and `NotifyServes` turns one `notifyLocked` into
one step of the gate. For `ServedInOrder` the same facts say that `notifyLocked` serves a
prefix of the queue, and `abandon` closes the gap its request leaves.

### The heuristic strategy (`HeuristicStrategyProofs`)

From `HeuristicAssumption` and `StartsBelowMaximum` (all that `Load` sees to under this strategy):
`HeuristicTypeCorrect`, `ShrinksForAReason`, `GrowsForAReason`, and, with `LimitsSettable`,
`HeuristicImplementsController` and `HeuristicImplementsGate`. The heart of `HeuristicInv`
is `ObservationOK`: the counter never overcounts the queue, so whoever saw it positive
saw a queue, and a queue means a full controller (`WorkConserving`, at the moment of the
observation). `ShareFacts` has the nonlinear part, percentages of a limit.

That a strategy implements the controller says that, seen from the requests, it is a
sequence of `SetLimit` calls and nothing else, so all theorems of the controller hold under
it. `LimitsSettable` asks that the controller was told (in `LimitInputs`) that it may be set
to any limit up to the maximum; `SetLimit` takes any integer. That the limits set are
among these is where the strategy's own invariant comes in.

### The adaptive strategy and its gauge (`AdaptiveStrategyProofs`, `TelemetryProofs`)

From `AdaptiveAssumption` and `StartsWithinBounds`, for any number of handlers and
requests, any configuration (nonsense included, for `NewAdaptiveStrategy` replaces it)
and any bound on the wait for the lock:

| Theorem | States |
| --- | --- |
| `AdaptiveTypeCorrect`, `StepsStayBounded` | the limit within its bounds and its steps within max_delta |
| `TelemetryImplementsStrategy` | `TelemetrySpec => AdaptiveSpec` |
| `TelemetryTypeCorrect`, `GaugeStaysFresh` | the invariants of the run `adaptive` |
| `ChangesStaySpaced`, `WatchdogStaysPatient` | two of its action properties |
| `FallbackApproached` | with the service gone and no handler about, nothing leads away from the fallback, and each fallback outside the cooldown reaches it or comes a whole max_delta nearer: the safety half of `FallbackReached` |
| `AdaptiveImplementsController`, `AdaptiveImplementsGate` | as under the heuristic, with `LimitsSettable` |

`ApplyFacts` says what one `Apply` does, whoever calls it. `ClocksLag` is the invariant
behind spacing and patience: what the code's clocks say lags behind what happened by no
more than a wait for the lock. `ReadersLag` is the one behind the gauge: what a reader
holds is the limit, unless that changed in this second.

### The gateway (`GatewayProofs`)

From `RequestPathAssumption` and `ShutdownAssumption`, for any number of requests, any
size of the pool, any window and any timeout:

| Theorem | States |
| --- | --- |
| `GatewayImplementsController`, `ShutdownImplementsGateway` | each layer only restricts the one below, so that all theorems of the controller hold of the gateway |
| `GatewayTypeCorrect`, `SlotFollowsWork`, `AdmissionIsTheQueue`, `TimeoutsStayReal` | the invariants of the run `gateway` about requests |
| `ShutdownTypeCorrect`, `NobodyIsCutOff` | those about the process |

`GatewayInv` says of each request that where it stands in the gateway and in the controller
fit together (`RequestOK`). `ShutdownInv` adds that while the gateway drains, no timeout
reaches past the window, if none did at the signal; a tick takes one from each, so when
the window is over nobody is left.

### Configuration (`ConfigurationProofs`)

For every set of environments and files, numbers of any size included, from
`ConfigurationAssumption`, which types the texts and tells the outcomes of the parsers
apart: `EnvelopeAlwaysSound`, `EnvelopesAgree`, `SenseIsAccepted`, all invariants of the run
`configuration`.

`GatewayInv`, `ServiceInv` and `RefusalInv` say where the state of a program comes from: the
environment does not change, so it is what `Assembled` and `FromEnv` make of it. The
rest is about the parsers. `LoadFacts`: what is not an error is an integer and has
been validated. `SameInt`, `SameDuration`: a text both programs understand has the
same value for both, for no cooldown but 0 has a text that both understand.

### One decision (`DecisionProofs`)

For any bounds, window, step, threshold and any prediction, integers of any sign and failures
included (`DecisionAssumption`, `CycleAssumption`):

| Theorem | States |
| --- | --- |
| `EnvelopeCorrect` | a change is at most max_delta, does not leave the bounds, and comes nearer to them from outside |
| `StepsNeverUndone` | for convex costs a change made for a gain is not taken back by the next cycle, whose grid is another one |
| `NoRegretCorrect` | for convex costs the rate-limited change is never worse than staying |
| `ContentNearCorrect` | for convex costs the windowed optimizer is content only next to what the offline one recommends, or with what costs no more |
| `PressureCorrect` | under pressure a change by the analytic predictor is a growth; pressure is somebody waiting, or somebody inside whose latency is known, and no negative counter that outweighs the latencies |

These are all properties of the run `decision`. Beyond the typing they assume:

* `DeltaPositive` (max_delta at least 1) for all of them. The gateway replaces anything less
  by 4, the service takes it as it is; the default and the file say 4, and
  `SameEnvelope` names this exception too. With 0 the service would take the same limit for
  a change, with less it would always step up;
* `WindowHoldsStep` for `ContentNearCorrect`: `main.py` builds the optimizer with its defaults,
  8 and 2;
* `PressureAssumption` for `PressureCorrect`: the bounds start at 1, which the gateway's
  `Load` sees to, and the weight of latency is above 0.

`CycleInv` says that a decision is what `Decide` makes of the cycle's inputs; the rest is
about operators. `FirstLeastFacts` and `BestFacts`: the argmin is one of the candidates
that could be predicted and costs no more than any of them. The existence of a least
element is an induction in disguise; it comes from the well-foundedness of the naturals,
taken at the relation `<` and at the set in question. The convex part is done likewise: `RiseGoesOn`
looks at the least point at which a rising convex cost would fall, and `ChordFacts` has what
follows for three points in a row; `ChordFactsMirrored` applies it to the cost read
backwards. `ContentNearCorrect` then finds a neighbour on the grid (`SteppingFacts`,
`SteppingCovers`) between the current limit and the recommended one. `StepsNeverUndone`
puts two decisions together: the limit reached costs less than the one that was left, and for
the next one to go back there something at least as far back would have to cost no more than
the limit reached, and then, between the two, so would the one that was left. Without
convexity it is false: from 5 the grid of `decision` sees 2, 4 and 6, a cheap 2 takes the limit
to 3, and from there the grid has 1, 3 and 5; if 3 is dear the limit goes back to 5. Without a
gain it is false as well: where the cost is 0 from 4 on the limit goes 4, 5, 4.

`PressureCorrect` is nonlinear. With `Scale` divisible by the candidates 1 / limit is an exact
quotient, and the cost a polynomial of second degree in it (`CostIsPolynomial`), whose linear
coefficient is `LinearPressure` and whose quadratic one is that of contention: neither is
negative and one is positive, so the cost falls as the limit grows (`CostFalls`).

### The closed loop (`ControlLoopProofs`)

`LiveLoopIsSeen`: `LoopSpec => LiveLoopStaysFresh`, for any heartbeat, slowest cycle and
timeout with `HeartbeatInTime`, any predictor, and whatever is lost, late or crashes
(`ControlLoopAssumption`, `AdaptiveAssumption`). `PostsSeen`: the signal is at most as old
as `last_post_ts`, as long as that says that no heartbeat is due. `CyclesPost`: since the
last cycle ended something went wrong, or it ended with no heartbeat due.
`SilenceExplained` carries the consequence over to when the service is down.

`LoopTypeCorrect` and `LayersAlwaysAgree`: the types and bounds of what the service keeps and
sends, and `LoopSpec => LayersAgree`, for any set of predictors. They rest on a second
invariant, `EnvelopeInv`: the strategy's own (`AdaptiveInv`), the types, and
`PostsWithinDelta`, that a POST asks for a limit at most max_delta from the sample it was
decided from. The last is what carries the service's rate limit to the gateway's: a POST may
wait in the network while the limit moves, and only when the limit is its basis again does
the gateway leave it as it is. `VerdictFacts` gets from `DecisionProofs` what a cycle decides;
`SendFacts` and `RemovedFacts` are about the network, and `ArrivalsOnly` says that a POST
which leaves it together with a change of the limit has been applied.

The assumption is `LayersConfigured`: the bounds of both layers are equal and the service's
max_delta is not above the gateway's. `EnvelopesAgree` proves that of two programs started
from one environment without compose; through `docker-compose.yml` it can be broken.

### Only model-checked

Every safety property of every passing run is stated by a theorem. What is under fairness is
out of the prover's reach and checked by TLC on the instances of section 3: `NoStarvation`,
`ShrinkConverges`, `GrowsWhenSaturated`, `ShrinksWhenIdle`, `FallbackReached`,
`EveryRequestAnswered`, `ShutdownEnds`, `ConvergesToTarget`, and the fairness half of
`ImplementsGate`. Of `NoStarvation` and `FallbackReached` the safety halves are proved
(`ServedInOrder`, `FallbackApproached`): no step undoes the progress, and what a fair
scheduler runs makes some.

## 6. What is not modelled

* the ML pipeline but for its optimizer: loading, splitting and training are batch
  computation on data frames, without state or interaction; the trained model is an
  arbitrary cost;
* experiments, dashboards, deployment: scripts and data; of compose only what it passes on;
* SQL and the generated queries: an external step that succeeds, finds nothing, fails or
  does not return;
* histograms, the collector of the pool's numbers, log texts, request ids, JSON and rows;
  `RecordDecision` of the admission service, which has no caller;
* the heuristic's clock: its interval is any time.

## 7. Plan

Done: all modules of section 2, with the proofs of section 5.

Left:

1. The safety halves of the other liveness properties, as `FallbackApproached` is of
   `FallbackReached`: that with a constant, convex prediction no cycle sends the limit away from
   `Target` (from `NoRegretCorrect` and `EnvelopeInv`), and that the
   work left in a draining gateway only shrinks (of `ShutdownEnds`).
2. The collector of the pool's numbers and the histograms, if a property of what the
   pipeline is trained on is wanted: its windows are computed from those series.
3. A gateway with several instances behind one controller service: the code has one.
