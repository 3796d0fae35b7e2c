------------------------------ MODULE Shutdown ------------------------------
(***************************************************************************)
(* The life of the gateway process (backend/cmd/api/main.go) around the    *)
(* requests of RequestPath: it listens in a goroutine, waits for SIGTERM   *)
(* or SIGINT, gives Fiber a window to let the requests in flight finish,   *)
(* stops the background loops, closes the pool in a deferred call, and     *)
(* exits, which ends whatever still runs.                                  *)
(*                                                                         *)
(* Time counts from the signal on.  What is left of the timeout of each    *)
(* request at that moment is arbitrary; afterwards a tick passes for all   *)
(* at once, and only when nothing is due: what the gateway itself does     *)
(* takes no time next to a tick, a query may take for ever.                *)
(*                                                                         *)
(* ShutdownWithContext (Fiber) and Pool.Close (pgxpool) are external: the  *)
(* former takes no new request and waits for the open ones or the end of   *)
(* its context, the latter hands out no connection and waits until all are *)
(* returned.                                                               *)
(***************************************************************************)
EXTENDS RequestPath

CONSTANTS
    DrainWindow,    \* the timeout of shutdownCtx, in ticks
    RequestTimeout  \* REQUEST_TIMEOUT, in ticks

ASSUME ShutdownAssumption ==
    /\ DrainWindow \in Nat \ {0}
    /\ RequestTimeout \in Nat \ {0}

VARIABLES
    phase,      \* "starting", "serving", "draining", "closing" or "exited"
    drain,      \* what is left of shutdownCtx
    left,       \* what is left of the timeout of each request
    fits        \* history: whether all had less left than the window then

lifeVars == <<phase, drain, left, fits>>
processVars == <<limit, active, waiting, queue, granted, pc,
                 stage, queries, done, expired, error, reply,
                 phase, drain, left, fits>>

(* The requests whose timeout runs.                                        *)
Timed == {r \in Requests : HasTimeout /\ r \notin expired
                            /\ stage[r] \in {"admission", "working", "query"}}

(* The gateway itself has something to do for r, or its timer has fired.   *)
Due(r) ==
    \/ r \in Timed /\ left[r] = 0
    \/ stage[r] = "admission" /\ (pc[r] # "waiting" \/ r \in granted)
    \/ stage[r] \in {"admission", "working", "query"} /\ r \in expired
    \/ stage[r] \in {"returned", "responding", "answered"}

Idle == \A r \in Requests : stage[r] = "away"

ShutdownInit ==
    /\ GatewayInit
    /\ phase = "starting"
    /\ drain = 0
    /\ left = [r \in Requests |-> 0]
    /\ fits = TRUE

-----------------------------------------------------------------------------
(* The goroutine listens.  If it cannot, it logs that, and main waits for  *)
(* a signal all the same: nothing makes this step happen.                  *)
Listen ==
    /\ phase = "starting"
    /\ phase' = "serving"
    /\ UNCHANGED <<gatewayVars, drain, left, fits>>

(* SIGTERM: ShutdownWithContext closes the listener and starts to wait.    *)
Signal ==
    /\ phase = "serving"
    /\ phase' = "draining"
    /\ drain' = DrainWindow
    /\ left' \in {f \in [Requests -> 0..RequestTimeout] :
                        \A r \in Requests \ Timed : f[r] = 0}
    /\ fits' = (HasTimeout /\ \A r \in Timed : left'[r] < DrainWindow)
    /\ UNCHANGED gatewayVars

(* Nothing listens yet: there is nothing to wait for.  That the goroutine  *)
(* begins to listen in the moment that is left of the process is left out. *)
SignalEarly ==
    /\ phase = "starting"
    /\ phase' = "closing"
    /\ UNCHANGED <<gatewayVars, drain, left, fits>>

(* The requests, as long as the process lives.  None comes in after the    *)
(* signal, and the pool hands out no connection once it is closed.         *)
Arrival(r) == phase = "serving" /\ NewRequest(r)

TimeoutFires(r) == (phase # "serving" => left[r] = 0) /\ Timeout(r)

PoolGives(r) == phase # "closing" /\ Connect(r)

Works(r) ==
    \/ Enter(r) \/ Admitted(r) \/ WaitEnds(r) \/ Rejected(r)
    \/ Cancelled(r) \/ Leave(r) \/ Respond(r) \/ Finish(r)

Alive == phase # "exited" /\ UNCHANGED lifeVars

RequestRuns(r) ==
    /\ Alive
    /\ Arrival(r) \/ TimeoutFires(r) \/ PoolGives(r) \/ Works(r) \/ Database(r)

(* The loop of the heuristic strategy runs until its Stop, after the drain.*)
LimitMoves(n) ==
    /\ phase \in {"starting", "serving", "draining"}
    /\ SetLimit(n)
    /\ UNCHANGED <<pathVars, lifeVars>>

(* A tick passes for every timer.                                          *)
Tick ==
    /\ phase \in {"draining", "closing"}
    /\ \A r \in Requests : ~Due(r)
    /\ drain > 0 \/ \E r \in Requests : left[r] > 0
    /\ drain' = IF drain > 0 THEN drain - 1 ELSE 0
    /\ left' = [r \in Requests |-> IF r \in Timed /\ left[r] > 0 THEN left[r] - 1 ELSE 0]
    /\ UNCHANGED <<gatewayVars, phase, fits>>

(* The drain waits for the database, not for the answers.                  *)
DrainEnds_queriesOnly ==
    /\ phase = "draining"
    /\ Connections = {} \/ drain = 0
    /\ phase' = "closing"
    /\ UNCHANGED <<gatewayVars, drain, left, fits>>

(* ShutdownWithContext returns, with an error that is only logged when its *)
(* context ended first; the strategy is stopped and Pool.Close begins.     *)
DrainEnds ==
    /\ phase = "draining"
    /\ Idle \/ drain = 0
    /\ phase' = "closing"
    /\ UNCHANGED <<gatewayVars, drain, left, fits>>

(* Pool.Close has every connection back, and main returns.                 *)
Exit ==
    /\ phase = "closing"
    /\ Connections = {}
    /\ phase' = "exited"
    /\ UNCHANGED <<gatewayVars, drain, left, fits>>

Gone == phase = "exited" /\ UNCHANGED processVars

ShutdownNext ==
    \/ Listen \/ Signal \/ SignalEarly
    \/ \E r \in Requests : RequestRuns(r)
    \/ \E n \in LimitInputs : LimitMoves(n)
    \/ Tick \/ DrainEnds \/ Exit \/ Gone

ShutdownSpec == ShutdownInit /\ [][ShutdownNext]_processVars

(* Goroutines run, timers fire and time passes; no signal has to come and  *)
(* PostgreSQL may never answer.                                            *)
ShutdownFairSpec ==
    /\ ShutdownSpec
    /\ WF_processVars(Tick) /\ WF_processVars(DrainEnds) /\ WF_processVars(Exit)
    /\ \A r \in Requests :
        /\ WF_processVars(Alive /\ TimeoutFires(r))
        /\ WF_processVars(Alive /\ Works(r))

-----------------------------------------------------------------------------
(* Every variable has its type.                                            *)
ShutdownTypeOK ==
    /\ GatewayTypeOK
    /\ phase \in {"starting", "serving", "draining", "closing", "exited"}
    /\ drain \in 0..DrainWindow
    /\ left \in [Requests -> 0..RequestTimeout]
    /\ fits \in BOOLEAN

(***************************************************************************)
(* With a timeout configured, and if at the signal no request had as much  *)
(* of it left as the window of the drain, every request has its answer     *)
(* before the pool is closed and before the process ends, though           *)
(* PostgreSQL may answer none of their queries (main.go:136-141).  The     *)
(* defaults, 10 s for both (main.go:136, config.go:62), keep this from a   *)
(* request that came in at the moment of the signal.                       *)
(***************************************************************************)
NobodyCutOff == fits /\ phase \in {"closing", "exited"} => Idle

(* With a timeout configured every request is answered, unless the process *)
(* ends before, though PostgreSQL may never answer a query, waiters be     *)
(* granted while they give up and the limit shrink.                        *)
EveryRequestAnswered ==
    \A r \in Requests : stage[r] # "away" ~> stage[r] = "away" \/ phase = "exited"

(***************************************************************************)
(* A shutdown comes to its end: Pool.Close, which knows no timeout of its  *)
(* own, waits for queries that are all bounded by the timeout of execute.  *)
(* Without one (REQUEST_TIMEOUT=0) a single query could keep it for ever.  *)
(***************************************************************************)
ShutdownEnds == phase \in {"draining", "closing"} ~> phase = "exited"
=============================================================================
