---------------------------- MODULE RequestPath ----------------------------
(***************************************************************************)
(* The way of a request through the gateway: middleware and handler        *)
(* (backend/internal/delivery/http), the use case that wraps every         *)
(* database call in Acquire and Release                                    *)
(* (backend/internal/application/workload/service.go: execute), the        *)
(* repository, and the pgxpool connections behind it.  The admission       *)
(* controller of AdmissionController decides who gets through.             *)
(*                                                                         *)
(* An error is the set of what errors.Is and errors.As recognise in it; no *)
(* error is {}.  A query may take as long as it likes: only the end of its *)
(* context is sure to end it.  Client disconnects do not reach the context *)
(* (Fiber's UserContext), so the timeout of execute is its only end.       *)
(***************************************************************************)
EXTENDS AdmissionController

CONSTANTS
    MaxConns,       \* pgxpool MaxConns (DB_MAX_CONNS)
    HasTimeout      \* whether REQUEST_TIMEOUT is positive

ASSUME RequestPathAssumption == MaxConns \in Nat \ {0} /\ HasTimeout \in BOOLEAN

VARIABLES
    stage,      \* where each request is, see Stages
    queries,    \* the queries the repository method of its class issues
    done,       \* those that have returned
    expired,    \* the requests whose context is done
    error,      \* what fn, Acquire or the handler returned
    reply       \* the status of the response

pathVars == <<stage, queries, done, expired, error, reply>>
gatewayVars == <<limit, active, waiting, queue, granted, pc,
                 stage, queries, done, expired, error, reply>>

(***************************************************************************)
(* "away" outside the gateway; "admission" in Acquire; "working" in fn     *)
(* without a connection, it may be waiting for one; "query" with one;      *)
(* "returned" when fn has returned or panicked and the deferred Release is *)
(* due; "responding" on the way out; "answered" when the client has it.    *)
(***************************************************************************)
Stages == {"away", "admission", "working", "query", "returned", "responding", "answered"}

Errors == {{}, {"invalid"}, {"notFound"}, {"deadline"}, {"deadline", "admission"},
           {"database"}, {"panic"}}

NoReply == 0

Replies == {NoReply, 200, 400, 404, 500, 503, 504}

Connections == {r \in Requests : stage[r] = "query"}

GatewayInit ==
    /\ ControllerInit
    /\ stage = [r \in Requests |-> "away"]
    /\ queries = [r \in Requests |-> 1]
    /\ done = [r \in Requests |-> 0]
    /\ expired = {}
    /\ error = [r \in Requests |-> {}]
    /\ reply = [r \in Requests |-> NoReply]

-----------------------------------------------------------------------------
(* The default case answers 504.                                           *)
RespondError_default(e) ==
    IF e = {} THEN 200
    ELSE IF "invalid" \in e THEN 400
    ELSE IF "notFound" \in e THEN 404
    ELSE 504

(* RespondError: what an error becomes, in the order it is looked at.      *)
RespondError(e) ==
    IF e = {} THEN 200
    ELSE IF "invalid" \in e THEN 400
    ELSE IF "notFound" \in e THEN 404
    ELSE IF "deadline" \in e THEN 504
    ELSE IF "admission" \in e THEN 503
    ELSE 500

(* A request with valid parameters reaches execute, which starts its timer.*)
Arrive(r, n) ==
    /\ stage[r] = "away"
    /\ stage' = [stage EXCEPT ![r] = "admission"]
    /\ queries' = [queries EXCEPT ![r] = n]
    /\ done' = [done EXCEPT ![r] = 0]
    /\ UNCHANGED <<controllerVars, expired, error, reply>>

(* One with invalid parameters is turned down by its handler.              *)
ArriveInvalid(r) ==
    /\ stage[r] = "away"
    /\ stage' = [stage EXCEPT ![r] = "responding"]
    /\ error' = [error EXCEPT ![r] = {"invalid"}]
    /\ UNCHANGED <<controllerVars, queries, done, expired, reply>>

(* A malformed POST to /api/admin/admission/limit: applyLimit returns the  *)
(* error, and Fiber's ErrorHandler responds.                               *)
ArriveMalformedLimit(r) ==
    /\ stage[r] = "away"
    /\ stage' = [stage EXCEPT ![r] = "answered"]
    /\ reply' = [reply EXCEPT ![r] = RespondError({"invalid"})]
    /\ UNCHANGED <<controllerVars, queries, done, expired, error>>

(* The timeout of execute: its context is done.                            *)
Timeout(r) ==
    /\ HasTimeout
    /\ stage[r] \in {"admission", "working", "query"}
    /\ r \notin expired
    /\ expired' = expired \cup {r}
    /\ UNCHANGED <<controllerVars, stage, queries, done, error, reply>>

(* execute's Acquire, up to its return or its select.                      *)
Enter(r) ==
    /\ stage[r] = "admission"
    /\ \/ AcquireFast(r) /\ stage' = [stage EXCEPT ![r] = "working"]
       \/ AcquireEnqueue(r) /\ UNCHANGED stage
    /\ UNCHANGED <<queries, done, expired, error, reply>>

Admitted(r) ==
    /\ ReceiveGrant(r)
    /\ stage' = [stage EXCEPT ![r] = "working"]
    /\ UNCHANGED <<queries, done, expired, error, reply>>

WaitEnds(r) ==
    /\ r \in expired
    /\ ContextDone(r)
    /\ UNCHANGED pathVars

(* The error of Acquire is not looked at.                                  *)
Rejected_ignored(r) ==
    /\ AbandonQueued(r) \/ AbandonGranted(r)
    /\ stage' = [stage EXCEPT ![r] = "working"]
    /\ UNCHANGED <<queries, done, expired, error, reply>>

(* Acquire returns ctx.Err(), which execute wraps into an AdmissionError.  *)
Rejected(r) ==
    /\ AbandonQueued(r) \/ AbandonGranted(r)
    /\ stage' = [stage EXCEPT ![r] = "responding"]
    /\ error' = [error EXCEPT ![r] = {"deadline", "admission"}]
    /\ UNCHANGED <<queries, done, expired, reply>>

(* pgxpool hands out a free connection, may be in the very moment the      *)
(* context of the one it goes to is done.                                  *)
Connect(r) ==
    /\ stage[r] = "working"
    /\ Cardinality(Connections) < MaxConns
    /\ stage' = [stage EXCEPT ![r] = "query"]
    /\ UNCHANGED <<controllerVars, queries, done, expired, error, reply>>

(* The pool has no usable connection to give: dialling PostgreSQL failed,  *)
(* or the pool is closed.  (A closed pool may also turn away at once who   *)
(* waits behind others; here they fail one by one, or with their context.) *)
ConnectFails(r) ==
    /\ stage[r] = "working"
    /\ Cardinality(Connections) < MaxConns
    /\ stage' = [stage EXCEPT ![r] = "returned"]
    /\ error' = [error EXCEPT ![r] = {"database"}]
    /\ UNCHANGED <<controllerVars, queries, done, expired, reply>>

(* Waiting for a connection without looking at the context.                *)
Cancelled_onlyQuery(r) ==
    /\ stage[r] = "query"
    /\ r \in expired
    /\ stage' = [stage EXCEPT ![r] = "returned"]
    /\ error' = [error EXCEPT ![r] = {"deadline"}]
    /\ UNCHANGED <<controllerVars, queries, done, expired, reply>>

(* A query without the context: nothing ends it.                           *)
Cancelled_onlyWaiting(r) ==
    /\ stage[r] = "working"
    /\ r \in expired
    /\ stage' = [stage EXCEPT ![r] = "returned"]
    /\ error' = [error EXCEPT ![r] = {"deadline"}]
    /\ UNCHANGED <<controllerVars, queries, done, expired, reply>>

(* No connection before the context is done, or a query cut short by it.   *)
Cancelled(r) ==
    /\ stage[r] \in {"working", "query"}
    /\ r \in expired
    /\ stage' = [stage EXCEPT ![r] = "returned"]
    /\ error' = [error EXCEPT ![r] = {"deadline"}]
    /\ UNCHANGED <<controllerVars, queries, done, expired, reply>>

(* A loop that runs once too often.                                        *)
QueryReturns_oneMore(r) ==
    /\ stage[r] = "query"
    /\ done' = [done EXCEPT ![r] = @ + 1]
    /\ stage' = [stage EXCEPT ![r] = IF done'[r] =< queries[r] THEN "working" ELSE "returned"]
    /\ UNCHANGED <<controllerVars, queries, expired, error, reply>>

(* A query returns rows and its connection goes back to the pool; the      *)
(* method goes on to its next query, or returns.                           *)
QueryReturns(r) ==
    /\ stage[r] = "query"
    /\ done' = [done EXCEPT ![r] = @ + 1]
    /\ stage' = [stage EXCEPT ![r] = IF done'[r] < queries[r] THEN "working" ELSE "returned"]
    /\ UNCHANGED <<controllerVars, queries, expired, error, reply>>

(***************************************************************************)
(* A query or the conversion of its rows fails, or panics.  Only the first *)
(* query of a method tells that there is no such row: GetOrderComplex      *)
(* lets the second one find nothing.                                       *)
(***************************************************************************)
QueryFails(r) ==
    /\ stage[r] = "query"
    /\ \E e \in {{"notFound"}, {"database"}, {"panic"}} :
        /\ e = {"notFound"} => done[r] = 0
        /\ error' = [error EXCEPT ![r] = e]
    /\ stage' = [stage EXCEPT ![r] = "returned"]
    /\ UNCHANGED <<controllerVars, queries, done, expired, reply>>

(* A Release that is not deferred is not reached by a panic.               *)
Leave_notDeferred(r) ==
    /\ stage[r] = "returned"
    /\ IF error[r] = {"panic"} THEN UNCHANGED controllerVars ELSE Release(r)
    /\ stage' = [stage EXCEPT ![r] = "responding"]
    /\ UNCHANGED <<queries, done, expired, error, reply>>

(* The deferred Release of execute, whichever way fn ended.                *)
Leave(r) ==
    /\ stage[r] = "returned"
    /\ Release(r)
    /\ stage' = [stage EXCEPT ![r] = "responding"]
    /\ UNCHANGED <<queries, done, expired, error, reply>>

(* The response on its way out; after a panic it is that of Recovery.      *)
Respond(r) ==
    /\ stage[r] = "responding"
    /\ stage' = [stage EXCEPT ![r] = "answered"]
    /\ reply' = [reply EXCEPT ![r] =
            IF error[r] = {"panic"} THEN 500 ELSE RespondError(error[r])]
    /\ UNCHANGED <<controllerVars, queries, done, expired, error>>

(* The client has its answer; the goroutine is free for another request.   *)
Finish(r) ==
    /\ stage[r] = "answered"
    /\ stage' = [stage EXCEPT ![r] = "away"]
    /\ queries' = [queries EXCEPT ![r] = 1]
    /\ done' = [done EXCEPT ![r] = 0]
    /\ expired' = expired \ {r}
    /\ error' = [error EXCEPT ![r] = {}]
    /\ reply' = [reply EXCEPT ![r] = NoReply]
    /\ UNCHANGED controllerVars

-----------------------------------------------------------------------------
(* What the gateway does for a request; what PostgreSQL and its pool do;   *)
(* and what the clients do.                                                *)
Progress(r) ==
    \/ Enter(r) \/ Admitted(r) \/ WaitEnds(r) \/ Rejected(r)
    \/ Connect(r) \/ Cancelled(r) \/ Leave(r) \/ Respond(r) \/ Finish(r)

Database(r) == QueryReturns(r) \/ QueryFails(r) \/ ConnectFails(r)

NewRequest(r) ==
    (\E n \in 1..2 : Arrive(r, n)) \/ ArriveInvalid(r) \/ ArriveMalformedLimit(r)

GatewayNext ==
    \/ \E r \in Requests :
        NewRequest(r) \/ Timeout(r) \/ Database(r) \/ Progress(r)
    \/ \E n \in LimitInputs : SetLimit(n) /\ UNCHANGED pathVars

GatewaySpec == GatewayInit /\ [][GatewayNext]_gatewayVars

-----------------------------------------------------------------------------
(* Every variable has its type; no method issues more queries than it has. *)
GatewayTypeOK ==
    /\ ControllerTypeOK
    /\ stage \in [Requests -> Stages]
    /\ queries \in [Requests -> 1..2]
    /\ done \in [Requests -> 0..2]
    /\ \A r \in Requests : done[r] =< queries[r]
    /\ expired \subseteq Requests
    /\ error \in [Requests -> Errors]
    /\ reply \in [Requests -> Replies]

(***************************************************************************)
(* A request is admitted exactly as long as fn runs and until the deferred *)
(* Release: none reaches the database without a slot, and none, however fn *)
(* ended, is answered with a slot still in its hands.                      *)
(***************************************************************************)
SlotWhileWorking ==
    \A r \in Requests : stage[r] \in {"working", "query", "returned"} <=> pc[r] = "running"

(***************************************************************************)
(* The concurrency that reaches PostgreSQL is bounded by what the          *)
(* controller counts as admitted (service.go:14), and as long as no more   *)
(* are admitted than there are connections nobody waits for one: admission *)
(* is the only queue.  Neither config.Load nor main.go keeps the limit     *)
(* below DB_MAX_CONNS (64 and 50 by default).                              *)
(***************************************************************************)
OneQueue ==
    /\ Cardinality(Connections) =< active
    /\ active =< MaxConns =>
        \A r \in Requests : stage[r] = "working" => Cardinality(Connections) < MaxConns

(* Only a request whose deadline passed, waiting for admission, for a      *)
(* connection or for PostgreSQL, is answered 504.                          *)
TimeoutsAreReal == \A r \in Requests : reply[r] = 504 => r \in expired
=============================================================================
