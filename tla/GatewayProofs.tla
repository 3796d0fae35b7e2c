---------------------------- MODULE GatewayProofs ----------------------------
(***************************************************************************)
(* The request path and the shutdown are correct for every set of          *)
(* requests, every size of the pool, every sequence of limits and every    *)
(* pair of timeouts.                                                       *)
(***************************************************************************)
EXTENDS Shutdown, AdmissionControllerProofs

-----------------------------------------------------------------------------
(* The gateway moves the controller only as its methods do.                *)
LEMMA GatewayStepsController ==
    ASSUME [GatewayNext]_gatewayVars
    PROVE  [ControllerNext]_controllerVars
<1>1. ASSUME NEW r \in Requests,
             NewRequest(r) \/ Timeout(r) \/ Database(r) \/ Progress(r)
      PROVE  RequestStep(r) \/ UNCHANGED controllerVars
  <2>1. CASE NewRequest(r)
    BY <2>1 DEF NewRequest, Arrive, ArriveInvalid, ArriveMalformedLimit
  <2>2. CASE Timeout(r) \/ Database(r)
    BY <2>2 DEF Timeout, Database, QueryReturns, QueryFails, ConnectFails
  <2>3. CASE Progress(r)
    BY <2>3 DEF Progress, Enter, Admitted, WaitEnds, Rejected, Connect, Cancelled,
                Leave, Respond, Finish, RequestStep
  <2> QED BY <1>1, <2>1, <2>2, <2>3
<1>2. CASE UNCHANGED gatewayVars
  BY <1>2 DEF gatewayVars, controllerVars
<1> QED BY <1>1, <1>2 DEF GatewayNext, ControllerNext

(* So every behaviour of the gateway is one of the controller, and what is *)
(* proved of the controller holds of the gateway.                          *)
THEOREM GatewayImplementsController == GatewaySpec => ControllerSpec
<1>1. GatewayInit => ControllerInit
  BY DEF GatewayInit
<1>2. [GatewayNext]_gatewayVars => [ControllerNext]_controllerVars
  BY GatewayStepsController
<1> QED BY <1>1, <1>2, PTL DEF GatewaySpec, ControllerSpec

-----------------------------------------------------------------------------
(***************************************************************************)
(* The inductive invariant.  Where a request stands in the gateway and in  *)
(* the controller fit together; who abandons has its timeout behind it, as *)
(* has every error that wraps a deadline; a method with a query to go has  *)
(* not issued all.                                                         *)
(***************************************************************************)
RequestOK(r) ==
    /\ stage[r] \in {"working", "query", "returned"} <=> pc[r] = "running"
    /\ pc[r] \in {"waiting", "abandoning"} => stage[r] = "admission"
    /\ pc[r] = "abandoning" => r \in expired
    /\ done[r] =< queries[r]
    /\ stage[r] \in {"admission", "working", "query"} => done[r] < queries[r]
    /\ "deadline" \in error[r] => r \in expired
    /\ reply[r] = 504 => r \in expired

PathTypeOK ==
    /\ stage \in [Requests -> Stages]
    /\ queries \in [Requests -> 1..2]
    /\ done \in [Requests -> 0..2]
    /\ expired \subseteq Requests
    /\ error \in [Requests -> Errors]
    /\ reply \in [Requests -> Replies]

GatewayInv ==
    /\ ControllerInv
    /\ PathTypeOK
    /\ \A r \in Requests : RequestOK(r)
    /\ Cardinality(Connections) =< MaxConns

(* The connections are finitely many.                                      *)
LEMMA ConnectionsFinite ==
    /\ Connections \subseteq Requests
    /\ IsFiniteSet(Connections)
    /\ Cardinality(Connections) \in Nat
BY ControllerAssumption, FS_Subset, FS_CardinalityType DEF Connections

(* Nothing is in use when nobody has come yet.                             *)
LEMMA GatewayInitInv == GatewayInit => GatewayInv
<1> SUFFICES ASSUME GatewayInit PROVE GatewayInv
  OBVIOUS
<1>1. ControllerInv
  BY InitInv DEF GatewayInit
<1>2. PathTypeOK
  BY DEF GatewayInit, PathTypeOK, Stages, Errors, NoReply, Replies
<1>3. \A r \in Requests : RequestOK(r)
  BY DEF GatewayInit, ControllerInit, RequestOK, NoReply
<1>4. Cardinality(Connections) =< MaxConns
  <2>1. Connections = {}
    BY DEF GatewayInit, Connections
  <2> QED BY <2>1, FS_EmptySet, RequestPathAssumption
<1> QED BY <1>1, <1>2, <1>3, <1>4 DEF GatewayInv

(***************************************************************************)
(* What a request does concerns nobody else: a step that leaves the others *)
(* as they are, takes no connection and leaves its own request as it       *)
(* should be preserves the invariant.                                      *)
(***************************************************************************)
Alone(r) ==
    \A x \in Requests \ {r} :
        /\ pc'[x] = pc[x] /\ stage'[x] = stage[x]
        /\ done'[x] = done[x] /\ queries'[x] = queries[x]
        /\ error'[x] = error[x] /\ reply'[x] = reply[x]
        /\ x \in expired => x \in expired'

LEMMA OthersUndisturbed ==
    ASSUME GatewayInv, NEW r \in Requests, Alone(r), RequestOK(r)'
    PROVE  \A x \in Requests : RequestOK(x)'
<1> SUFFICES ASSUME NEW x \in Requests, x # r PROVE RequestOK(x)'
  OBVIOUS
<1>1. RequestOK(x)
  BY DEF GatewayInv
<1> QED BY <1>1 DEF Alone, RequestOK

LEMMA NoConnectionTaken ==
    ASSUME GatewayInv, Connections' \subseteq Connections
    PROVE  Cardinality(Connections)' =< MaxConns
<1>1. Cardinality(Connections') =< Cardinality(Connections)
  BY ConnectionsFinite, FS_Subset
<1>2. Cardinality(Connections') \in Nat
  BY ConnectionsFinite, FS_Subset, FS_CardinalityType
<1> QED BY <1>1, <1>2, ConnectionsFinite, RequestPathAssumption DEF GatewayInv

-----------------------------------------------------------------------------
(* What each step of a request leaves behind: types, its own request as it *)
(* should be, the others undisturbed, and no connection taken.             *)
Sound(r) ==
    /\ PathTypeOK'
    /\ RequestOK(r)'
    /\ Alone(r)

LEMMA NewRequestSound ==
    ASSUME GatewayInv, NEW r \in Requests, NewRequest(r)
    PROVE  Sound(r) /\ Connections' \subseteq Connections
<1> USE DEF GatewayInv, ControllerInv, ControllerTypeOK, PathTypeOK, RequestOK, Alone, Sound
<1>1. stage[r] = "away" /\ pc[r] = "idle" /\ pc' = pc
  <2>1. stage[r] = "away" /\ pc' = pc
    BY DEF NewRequest, Arrive, ArriveInvalid, ArriveMalformedLimit, controllerVars
  <2>2. RequestOK(r) /\ pc[r] \in {"idle", "waiting", "abandoning", "running"}
    OBVIOUS
  <2> QED BY <2>1, <2>2
<1>2. ASSUME NEW n \in 1..2, Arrive(r, n)
      PROVE  Sound(r) /\ Connections' \subseteq Connections
  <2>1. PathTypeOK'
    BY <1>1, <1>2 DEF Arrive, Stages, Errors, NoReply
  <2>2. RequestOK(r)'
    BY <1>1, <1>2 DEF Arrive, NoReply
  <2>3. Alone(r)
    BY <1>1, <1>2 DEF Arrive
  <2>4. Connections' \subseteq Connections
    BY <1>1, <1>2 DEF Arrive, Connections
  <2> QED BY <2>1, <2>2, <2>3, <2>4
<1>3. CASE ArriveInvalid(r)
  <2>1. PathTypeOK'
    BY <1>1, <1>3 DEF ArriveInvalid, Stages, Errors, NoReply
  <2>2. RequestOK(r)'
    BY <1>1, <1>3 DEF ArriveInvalid, NoReply
  <2>3. Alone(r)
    BY <1>1, <1>3 DEF ArriveInvalid
  <2>4. Connections' \subseteq Connections
    BY <1>1, <1>3 DEF ArriveInvalid, Connections
  <2> QED BY <2>1, <2>2, <2>3, <2>4
<1>4. CASE ArriveMalformedLimit(r)
  <2>1. RespondError({"invalid"}) = 400 /\ 400 \in Replies
    BY DEF RespondError, Replies
  <2>2. PathTypeOK'
    BY <1>1, <1>4, <2>1 DEF ArriveMalformedLimit, Stages, Errors, NoReply
  <2>3. RequestOK(r)'
    BY <1>1, <1>4, <2>1 DEF ArriveMalformedLimit, NoReply
  <2>4. Alone(r)
    BY <1>1, <1>4, <2>1 DEF ArriveMalformedLimit
  <2>5. Connections' \subseteq Connections
    BY <1>1, <1>4, <2>1 DEF ArriveMalformedLimit, Connections
  <2> QED BY <2>2, <2>3, <2>4, <2>5
<1> QED BY <1>2, <1>3, <1>4 DEF NewRequest

LEMMA TimeoutSound ==
    ASSUME GatewayInv, NEW r \in Requests, Timeout(r)
    PROVE  Sound(r) /\ Connections' \subseteq Connections
BY DEF GatewayInv, PathTypeOK, RequestOK, Alone, Sound, Timeout, controllerVars, Connections

LEMMA DatabaseSound ==
    ASSUME GatewayInv, NEW r \in Requests, Database(r)
    PROVE  Sound(r) /\ Connections' \subseteq Connections
<1> USE DEF GatewayInv, ControllerInv, ControllerTypeOK, PathTypeOK, RequestOK, Alone, Sound
<1>1. CASE QueryReturns(r)
  <2>1. PathTypeOK'
    BY <1>1 DEF QueryReturns, controllerVars, Stages, Errors, NoReply
  <2>2. RequestOK(r)'
    BY <1>1 DEF QueryReturns, controllerVars, NoReply
  <2>3. Alone(r)
    BY <1>1 DEF QueryReturns, controllerVars
  <2>4. Connections' \subseteq Connections
    BY <1>1 DEF QueryReturns, controllerVars, Connections
  <2> QED BY <2>1, <2>2, <2>3, <2>4
<1>2. CASE QueryFails(r)
  <2>1. PathTypeOK'
    BY <1>2 DEF QueryFails, controllerVars, Stages, Errors, NoReply
  <2>2. RequestOK(r)'
    BY <1>2 DEF QueryFails, controllerVars, NoReply
  <2>3. Alone(r)
    BY <1>2 DEF QueryFails, controllerVars
  <2>4. Connections' \subseteq Connections
    BY <1>2 DEF QueryFails, controllerVars, Connections
  <2> QED BY <2>1, <2>2, <2>3, <2>4
<1>3. CASE ConnectFails(r)
  <2>1. PathTypeOK'
    BY <1>3 DEF ConnectFails, controllerVars, Stages, Errors, NoReply
  <2>2. RequestOK(r)'
    BY <1>3 DEF ConnectFails, controllerVars, NoReply
  <2>3. Alone(r)
    BY <1>3 DEF ConnectFails, controllerVars
  <2>4. Connections' \subseteq Connections
    BY <1>3 DEF ConnectFails, controllerVars, Connections
  <2> QED BY <2>1, <2>2, <2>3, <2>4
<1> QED BY <1>1, <1>2, <1>3 DEF Database

(* The steps of Acquire.                                                   *)
LEMMA AdmissionSound ==
    ASSUME GatewayInv, NEW r \in Requests,
           Enter(r) \/ Admitted(r) \/ WaitEnds(r) \/ Rejected(r)
    PROVE  Sound(r) /\ Connections' \subseteq Connections
<1> USE DEF GatewayInv, ControllerInv, ControllerTypeOK, PathTypeOK, RequestOK, Alone, Sound
<1>1. CASE Enter(r)
  <2>1. PathTypeOK'
    BY <1>1 DEF Enter, AcquireFast, AcquireEnqueue, Stages, Errors, NoReply
  <2>2. RequestOK(r)'
    BY <1>1 DEF Enter, AcquireFast, AcquireEnqueue, NoReply
  <2>3. Alone(r)
    BY <1>1 DEF Enter, AcquireFast, AcquireEnqueue
  <2>4. Connections' \subseteq Connections
    BY <1>1 DEF Enter, AcquireFast, AcquireEnqueue, Connections
  <2> QED BY <2>1, <2>2, <2>3, <2>4
<1>2. CASE Admitted(r)
  <2>1. PathTypeOK'
    BY <1>2 DEF Admitted, ReceiveGrant, Stages, Errors, NoReply
  <2>2. RequestOK(r)'
    BY <1>2 DEF Admitted, ReceiveGrant, NoReply
  <2>3. Alone(r)
    BY <1>2 DEF Admitted, ReceiveGrant
  <2>4. Connections' \subseteq Connections
    BY <1>2 DEF Admitted, ReceiveGrant, Connections
  <2> QED BY <2>1, <2>2, <2>3, <2>4
<1>3. CASE WaitEnds(r)
  <2>1. PathTypeOK'
    BY <1>3 DEF WaitEnds, ContextDone, pathVars, Stages, Errors, NoReply
  <2>2. RequestOK(r)'
    BY <1>3 DEF WaitEnds, ContextDone, pathVars, NoReply
  <2>3. Alone(r)
    BY <1>3 DEF WaitEnds, ContextDone, pathVars
  <2>4. Connections' \subseteq Connections
    BY <1>3 DEF WaitEnds, ContextDone, pathVars, Connections
  <2> QED BY <2>1, <2>2, <2>3, <2>4
<1>4. CASE Rejected(r)
  <2>1. pc[r] = "abandoning" /\ pc' = [pc EXCEPT ![r] = "idle"]
    BY <1>4 DEF Rejected, AbandonQueued, AbandonGranted
  <2>2. /\ stage' = [stage EXCEPT ![r] = "responding"]
        /\ error' = [error EXCEPT ![r] = {"deadline", "admission"}]
        /\ UNCHANGED <<queries, done, expired, reply>>
    BY <1>4 DEF Rejected
  <2>3. PathTypeOK'
    BY <2>1, <2>2 DEF Stages, Errors, NoReply
  <2>4. RequestOK(r)'
    BY <2>1, <2>2 DEF NoReply
  <2>5. Alone(r)
    BY <2>1, <2>2
  <2>6. Connections' \subseteq Connections
    BY <2>1, <2>2 DEF Connections
  <2> QED BY <2>3, <2>4, <2>5, <2>6
<1> QED BY <1>1, <1>2, <1>3, <1>4

(* The steps after fn.                                                     *)
LEMMA AnswerSound ==
    ASSUME GatewayInv, NEW r \in Requests,
           Cancelled(r) \/ Leave(r) \/ Respond(r) \/ Finish(r)
    PROVE  Sound(r) /\ Connections' \subseteq Connections
<1> USE DEF GatewayInv, ControllerInv, ControllerTypeOK, PathTypeOK, RequestOK, Alone, Sound
<1>1. CASE Cancelled(r)
  <2>1. PathTypeOK'
    BY <1>1 DEF Cancelled, controllerVars, Stages, Errors, NoReply
  <2>2. RequestOK(r)'
    BY <1>1 DEF Cancelled, controllerVars, NoReply
  <2>3. Alone(r)
    BY <1>1 DEF Cancelled, controllerVars
  <2>4. Connections' \subseteq Connections
    BY <1>1 DEF Cancelled, controllerVars, Connections
  <2> QED BY <2>1, <2>2, <2>3, <2>4
<1>2. CASE Leave(r)
  <2>1. pc' = [pc EXCEPT ![r] = "idle"]
    BY <1>2 DEF Leave, Release
  <2>2. /\ stage[r] = "returned" /\ stage' = [stage EXCEPT ![r] = "responding"]
        /\ UNCHANGED <<queries, done, expired, error, reply>>
    BY <1>2 DEF Leave
  <2>3. PathTypeOK'
    BY <2>1, <2>2 DEF Stages, Errors, NoReply
  <2>4. RequestOK(r)'
    BY <2>1, <2>2 DEF NoReply
  <2>5. Alone(r)
    BY <2>1, <2>2
  <2>6. Connections' \subseteq Connections
    BY <2>1, <2>2 DEF Connections
  <2> QED BY <2>3, <2>4, <2>5, <2>6
<1>3. CASE Respond(r)
  <2> DEFINE code == RespondError(error[r])
             answer == IF error[r] = {"panic"} THEN 500 ELSE code
  <2>1. /\ code \in {200, 400, 404, 500, 503, 504}
        /\ code = 504 => "deadline" \in error[r]
    BY DEF RespondError
  <2>2. reply' = [reply EXCEPT ![r] = answer]
    BY <1>3 DEF Respond
  <2> HIDE DEF code
  <2>3. answer \in Replies /\ (answer = 504 => "deadline" \in error[r])
    BY <2>1 DEF Replies
  <2> HIDE DEF answer
  <2>4. /\ stage[r] = "responding" /\ stage' = [stage EXCEPT ![r] = "answered"]
        /\ UNCHANGED <<pc, queries, done, expired, error>>
    BY <1>3 DEF Respond, controllerVars
  <2>5. PathTypeOK'
    BY <2>2, <2>4, <2>3 DEF Stages
  <2>6. RequestOK(r)'
    BY <2>2, <2>4, <2>3
  <2>7. Alone(r)
    BY <2>2, <2>4
  <2>8. Connections' \subseteq Connections
    BY <2>4 DEF Connections
  <2> QED BY <2>5, <2>6, <2>7, <2>8
<1>4. CASE Finish(r)
  <2>1. NoReply \in Replies /\ NoReply = 0
    BY DEF NoReply, Replies
  <2>2. /\ stage[r] = "answered" /\ stage' = [stage EXCEPT ![r] = "away"]
        /\ queries' = [queries EXCEPT ![r] = 1] /\ done' = [done EXCEPT ![r] = 0]
        /\ expired' = expired \ {r} /\ error' = [error EXCEPT ![r] = {}]
        /\ reply' = [reply EXCEPT ![r] = NoReply] /\ pc' = pc
    BY <1>4 DEF Finish, controllerVars
  <2>3. PathTypeOK'
    BY <2>1, <2>2 DEF Stages, Errors
  <2>4. RequestOK(r)'
    BY <2>1, <2>2
  <2>5. Alone(r)
    BY <2>2
  <2>6. Connections' \subseteq Connections
    BY <2>2 DEF Connections
  <2> QED BY <2>3, <2>4, <2>5, <2>6
<1> QED BY <1>1, <1>2, <1>3, <1>4

(* The pool gives what it has, and no more.                                *)
LEMMA ConnectSound ==
    ASSUME GatewayInv, NEW r \in Requests, Connect(r)
    PROVE  Sound(r) /\ Cardinality(Connections)' =< MaxConns
<1> USE DEF GatewayInv, ControllerInv, ControllerTypeOK, PathTypeOK, RequestOK, Alone, Sound
<1>1. PathTypeOK'
  BY DEF Connect, controllerVars, Stages, Errors, NoReply
<1>2. RequestOK(r)'
  BY DEF Connect, controllerVars, NoReply
<1>3. Alone(r)
  BY DEF Connect, controllerVars
<1>4. Connections' = Connections \cup {r} /\ r \notin Connections
  BY DEF Connect, controllerVars, Connections
<1>5. Cardinality(Connections') = Cardinality(Connections) + 1
  BY <1>4, ConnectionsFinite, FS_AddElement
<1>6. Cardinality(Connections) < MaxConns
  BY DEF Connect
<1> QED BY <1>1, <1>2, <1>3, <1>5, <1>6, ConnectionsFinite, RequestPathAssumption

-----------------------------------------------------------------------------
(* Every step of the gateway preserves the invariant.                      *)
LEMMA GatewayNextInv ==
    ASSUME GatewayInv, [GatewayNext]_gatewayVars
    PROVE  GatewayInv'
<1>1. ControllerInv'
  BY GatewayStepsController, NextInv DEF GatewayInv
<1>2. ASSUME NEW r \in Requests, Sound(r)
      PROVE  PathTypeOK' /\ \A x \in Requests : RequestOK(x)'
  BY <1>2, OthersUndisturbed DEF Sound
<1>3. ASSUME NEW r \in Requests,
             NewRequest(r) \/ Timeout(r) \/ Database(r) \/ Progress(r)
      PROVE  Sound(r) /\ Cardinality(Connections)' =< MaxConns
  <2>1. CASE NewRequest(r)
    BY <2>1, NewRequestSound, NoConnectionTaken
  <2>2. CASE Timeout(r)
    BY <2>2, TimeoutSound, NoConnectionTaken
  <2>3. CASE Database(r)
    BY <2>3, DatabaseSound, NoConnectionTaken
  <2>4. CASE Enter(r) \/ Admitted(r) \/ WaitEnds(r) \/ Rejected(r)
    BY <2>4, AdmissionSound, NoConnectionTaken
  <2>5. CASE Connect(r)
    BY <2>5, ConnectSound
  <2>6. CASE Cancelled(r) \/ Leave(r) \/ Respond(r) \/ Finish(r)
    BY <2>6, AnswerSound, NoConnectionTaken
  <2> QED BY <1>3, <2>1, <2>2, <2>3, <2>4, <2>5, <2>6 DEF Progress
<1>4. ASSUME UNCHANGED pathVars,
             \A r \in Requests : pc'[r] = pc[r]
      PROVE  /\ PathTypeOK' /\ \A x \in Requests : RequestOK(x)'
             /\ Cardinality(Connections)' =< MaxConns
  <2>1. Connections' = Connections
    BY <1>4 DEF pathVars, Connections
  <2> QED BY <1>4, <2>1 DEF GatewayInv, pathVars, PathTypeOK, RequestOK
<1>5. CASE \E r \in Requests :
                NewRequest(r) \/ Timeout(r) \/ Database(r) \/ Progress(r)
  BY <1>1, <1>2, <1>3, <1>5 DEF GatewayInv
<1>6. CASE \E n \in LimitInputs : SetLimit(n) /\ UNCHANGED pathVars
  BY <1>1, <1>4, <1>6 DEF GatewayInv, SetLimit
<1>7. CASE UNCHANGED gatewayVars
  BY <1>1, <1>4, <1>7 DEF GatewayInv, gatewayVars, pathVars
<1> QED BY <1>5, <1>6, <1>7 DEF GatewayNext

(* The invariant holds in every reachable state of the gateway.            *)
THEOREM GatewayInvariant == GatewaySpec => []GatewayInv
<1>1. GatewayInit => GatewayInv
  BY GatewayInitInv
<1>2. GatewayInv /\ [GatewayNext]_gatewayVars => GatewayInv'
  BY GatewayNextInv
<1> QED BY <1>1, <1>2, PTL DEF GatewaySpec

(* Requests in the database hold slots, all of them different ones.        *)
LEMMA ConnectionsHoldSlots ==
    ASSUME GatewayInv
    PROVE  /\ Connections \subseteq Holders
           /\ IsFiniteSet(Holders) /\ Cardinality(Holders) = active
           /\ active \in Nat
<1>1. Connections \subseteq Holders
  BY DEF GatewayInv, RequestOK, Connections, Holders
<1> QED BY <1>1, HoldersFacts DEF GatewayInv, ControllerInv, ControllerTypeOK, SlotAccounting

(* What the runs check of the request path follows from the invariant.     *)
LEMMA GatewayInvImplies ==
    ASSUME GatewayInv
    PROVE  GatewayTypeOK /\ SlotWhileWorking /\ OneQueue /\ TimeoutsAreReal
<1>1. GatewayTypeOK
  BY DEF GatewayInv, ControllerInv, PathTypeOK, RequestOK, GatewayTypeOK, Replies
<1>2. SlotWhileWorking /\ TimeoutsAreReal
  BY DEF GatewayInv, RequestOK, SlotWhileWorking, TimeoutsAreReal
<1>3. Cardinality(Connections) =< active
  <2>1. Cardinality(Connections) =< Cardinality(Holders)
    BY ConnectionsHoldSlots, FS_Subset
  <2> QED BY <2>1, ConnectionsHoldSlots
<1>4. ASSUME active =< MaxConns, NEW r \in Requests, stage[r] = "working"
      PROVE  Cardinality(Connections) < MaxConns
  <2>1. r \in Holders /\ r \notin Connections
    BY <1>4 DEF GatewayInv, RequestOK, Holders, Connections
  <2>2. /\ Connections \subseteq Holders \ {r}
        /\ IsFiniteSet(Holders \ {r})
        /\ Cardinality(Holders \ {r}) = active - 1
    BY <2>1, ConnectionsHoldSlots, FS_RemoveElement
  <2>3. Cardinality(Connections) =< active - 1
    BY <2>2, FS_Subset
  <2> QED BY <1>4, <2>3, ConnectionsHoldSlots, ConnectionsFinite, RequestPathAssumption
<1> QED BY <1>1, <1>2, <1>3, <1>4 DEF OneQueue

(* The variables keep their types; no method issues more queries than it   *)
(* has.                                                                    *)
THEOREM GatewayTypeCorrect == GatewaySpec => []GatewayTypeOK
<1>1. GatewayInv => GatewayTypeOK
  BY GatewayInvImplies
<1> QED BY <1>1, GatewayInvariant, PTL

(* No request works without a slot or is answered with one in its hands,   *)
(* whichever way fn ends.                                                  *)
THEOREM SlotFollowsWork == GatewaySpec => []SlotWhileWorking
<1>1. GatewayInv => SlotWhileWorking
  BY GatewayInvImplies
<1> QED BY <1>1, GatewayInvariant, PTL

(* PostgreSQL never sees more queries than slots, and nobody waits for a   *)
(* connection unless more are admitted than there are.                     *)
THEOREM AdmissionIsTheQueue == GatewaySpec => []OneQueue
<1>1. GatewayInv => OneQueue
  BY GatewayInvImplies
<1> QED BY <1>1, GatewayInvariant, PTL

(* Only a request whose timeout has fired is answered 504.                 *)
THEOREM TimeoutsStayReal == GatewaySpec => []TimeoutsAreReal
<1>1. GatewayInv => TimeoutsAreReal
  BY GatewayInvImplies
<1> QED BY <1>1, GatewayInvariant, PTL

-----------------------------------------------------------------------------
(* The process around it starts, stops and lets the requests run; it does  *)
(* nothing to them that RequestPath does not know.                         *)
LEMMA ShutdownStepsGateway ==
    ASSUME [ShutdownNext]_processVars
    PROVE  [GatewayNext]_gatewayVars
<1>1. ASSUME NEW r \in Requests, RequestRuns(r)
      PROVE  NewRequest(r) \/ Timeout(r) \/ Database(r) \/ Progress(r)
  BY <1>1 DEF RequestRuns, Arrival, TimeoutFires, PoolGives, Works, Progress
<1>2. ASSUME NEW n \in LimitInputs, LimitMoves(n)
      PROVE  SetLimit(n) /\ UNCHANGED pathVars
  BY <1>2 DEF LimitMoves
<1>3. CASE \/ Listen \/ Signal \/ SignalEarly \/ Tick \/ DrainEnds \/ Exit \/ Gone
           \/ UNCHANGED processVars
  <2>1. UNCHANGED gatewayVars
    BY <1>3 DEF Listen, Signal, SignalEarly, Tick, DrainEnds, Exit, Gone,
                gatewayVars, processVars
  <2> QED BY <2>1
<1> QED BY <1>1, <1>2, <1>3 DEF ShutdownNext, GatewayNext

(* So what is proved of the request path holds through start and shutdown. *)
THEOREM ShutdownImplementsGateway == ShutdownSpec => GatewaySpec
<1>1. ShutdownInit => GatewayInit
  BY DEF ShutdownInit
<1>2. [ShutdownNext]_processVars => [GatewayNext]_gatewayVars
  BY ShutdownStepsGateway
<1> QED BY <1>1, <1>2, PTL DEF ShutdownSpec, GatewaySpec

-----------------------------------------------------------------------------
(***************************************************************************)
(* The inductive invariant of the shutdown.  While it drains, every timer  *)
(* that still runs has less left than the window, so that at the last tick *)
(* of the window no timer runs any more; a tick passes only when nothing   *)
(* is due, and so at that tick nobody is left inside.                      *)
(***************************************************************************)
ShutdownInv ==
    /\ GatewayInv
    /\ phase \in {"starting", "serving", "draining", "closing", "exited"}
    /\ drain \in 0..DrainWindow
    /\ left \in [Requests -> 0..RequestTimeout]
    /\ fits \in BOOLEAN
    /\ phase = "starting" => Idle
    /\ phase = "draining" /\ fits =>
        /\ HasTimeout
        /\ \A r \in Timed : left[r] < drain
        /\ drain = 0 => Idle
    /\ NobodyCutOff

InHand(r) == stage[r] \in {"admission", "working", "query"}

(* Without an arrival nobody comes in who was not inside, and no timer     *)
(* starts that did not run.                                                *)
LEMMA NobodyComesIn ==
    ASSUME GatewayInv, NEW r \in Requests,
           Timeout(r) \/ Connect(r) \/ Works(r) \/ Database(r)
    PROVE  ~Idle /\ Timed' \subseteq Timed
<1> USE DEF GatewayInv, ControllerInv, ControllerTypeOK, PathTypeOK
<1>1. RequestOK(r)
  OBVIOUS
<1>2. /\ stage[r] # "away"
      /\ InHand(r)' => InHand(r)
      /\ InHand(r)' /\ r \in expired => r \in expired'
  <2>1. CASE Timeout(r)
    BY <2>1 DEF Timeout, InHand
  <2>2. CASE Connect(r)
    BY <2>2 DEF Connect, InHand
  <2>3. CASE Database(r)
    BY <2>3 DEF Database, QueryReturns, QueryFails, ConnectFails, InHand
  <2>4. CASE Enter(r) \/ Admitted(r) \/ WaitEnds(r) \/ Rejected(r)
    BY <1>1, <2>4 DEF Enter, Admitted, WaitEnds, Rejected, ReceiveGrant, ContextDone,
                      AbandonQueued, AbandonGranted, RequestOK, pathVars, InHand
  <2>5. CASE Cancelled(r) \/ Leave(r) \/ Respond(r) \/ Finish(r)
    BY <2>5 DEF Cancelled, Leave, Respond, Finish, InHand
  <2> QED BY <2>1, <2>2, <2>3, <2>4, <2>5 DEF Works
<1>3. Alone(r)
  BY TimeoutSound, ConnectSound, DatabaseSound, AdmissionSound, AnswerSound DEF Sound, Works
<1>4. ASSUME NEW x \in Timed' PROVE x \in Timed
  BY <1>2, <1>3, <1>4 DEF Timed, InHand, Alone
<1> QED BY <1>2, <1>4 DEF Idle

(* Nobody is inside before the process listens.                            *)
LEMMA ShutdownInitInv == ShutdownInit => ShutdownInv
<1> SUFFICES ASSUME ShutdownInit PROVE ShutdownInv
  OBVIOUS
<1>1. GatewayInv
  BY GatewayInitInv DEF ShutdownInit
<1>2. Idle
  BY DEF ShutdownInit, GatewayInit, Idle
<1> QED BY <1>1, <1>2, ShutdownAssumption DEF ShutdownInit, ShutdownInv, NobodyCutOff

(* The requests run: before the signal they may come in, afterwards they   *)
(* only get fewer.                                                         *)
LEMMA RequestRunsInv ==
    ASSUME ShutdownInv, GatewayInv', NEW r \in Requests, RequestRuns(r)
    PROVE  ShutdownInv'
<1>1. UNCHANGED <<phase, drain, left, fits>>
  BY DEF RequestRuns, Alive, lifeVars
<1>2. CASE Arrival(r)
  BY <1>1, <1>2 DEF Arrival, ShutdownInv, NobodyCutOff
<1>3. CASE ~Arrival(r)
  <2>1. Timeout(r) \/ Connect(r) \/ Works(r) \/ Database(r)
    BY <1>3 DEF RequestRuns, TimeoutFires, PoolGives
  <2>2. ~Idle /\ Timed' \subseteq Timed
    BY <2>1, NobodyComesIn DEF ShutdownInv
  <2>3. Timed \subseteq Requests
    BY DEF Timed
  <2> QED BY <1>1, <2>2, <2>3 DEF ShutdownInv, NobodyCutOff
<1> QED BY <1>2, <1>3

(* A tick takes as much from every timer as from the window.               *)
LEMMA TickInv ==
    ASSUME ShutdownInv, GatewayInv', Tick
    PROVE  ShutdownInv'
<1>1. /\ phase' = phase /\ fits' = fits /\ stage' = stage /\ expired' = expired
      /\ drain' = IF drain > 0 THEN drain - 1 ELSE 0
      /\ left' = [r \in Requests |->
                    IF r \in Timed /\ left[r] > 0 THEN left[r] - 1 ELSE 0]
  BY DEF Tick, gatewayVars
<1>2. drain' \in 0..DrainWindow /\ left' \in [Requests -> 0..RequestTimeout]
  BY <1>1, ShutdownAssumption DEF ShutdownInv
<1>3. Timed' = Timed /\ Idle' = Idle /\ Timed \subseteq Requests
  BY <1>1 DEF Timed, Idle
<1>4. ASSUME phase = "draining", fits
      PROVE  (\A r \in Timed : left'[r] < drain') /\ (drain' = 0 => Idle)
  <2>1. /\ HasTimeout /\ \A r \in Timed : left[r] < drain
        /\ drain \in Nat /\ \A r \in Requests : left[r] \in Nat
    BY <1>4 DEF ShutdownInv
  <2>2. \A r \in Timed : left[r] > 0
    BY <1>3, <2>1 DEF Tick, Due
  <2>3. \A r \in Timed : left'[r] < drain'
    BY <1>1, <1>3, <2>1, <2>2
  <2>4. ASSUME drain' = 0 PROVE Idle
    <3>1. Timed = {}
      BY <1>1, <1>3, <2>1, <2>2, <2>4
    <3>2. ASSUME NEW r \in Requests PROVE stage[r] = "away"
      <4>1. stage[r] \in Stages
        BY DEF ShutdownInv, GatewayInv, PathTypeOK
      <4> QED BY <2>1, <3>1, <4>1 DEF Tick, Due, Timed, Stages
    <3> QED BY <3>2 DEF Idle
  <2> QED BY <2>3, <2>4
<1> QED BY <1>1, <1>2, <1>3, <1>4 DEF ShutdownInv, NobodyCutOff

(* The steps of main.                                                      *)
LEMMA MainInv ==
    ASSUME ShutdownInv, GatewayInv',
           Listen \/ Signal \/ SignalEarly \/ DrainEnds \/ Exit
    PROVE  ShutdownInv'
<1>1. stage' = stage /\ expired' = expired
  BY DEF Listen, Signal, SignalEarly, DrainEnds, Exit, gatewayVars
<1>2. Timed' = Timed /\ Idle' = Idle /\ Timed \subseteq Requests
  BY <1>1 DEF Timed, Idle
<1>3. CASE Listen \/ SignalEarly
  BY <1>2, <1>3 DEF Listen, SignalEarly, ShutdownInv, NobodyCutOff
<1>4. CASE Signal
  <2>1. /\ left' \in [Requests -> 0..RequestTimeout]
        /\ phase = "serving" /\ phase' = "draining" /\ drain' = DrainWindow
        /\ fits' = (HasTimeout /\ \A r \in Timed : left'[r] < DrainWindow)
    BY <1>4 DEF Signal
  <2>2. drain' \in 0..DrainWindow /\ drain' # 0
    BY <2>1, ShutdownAssumption
  <2>3. fits' \in BOOLEAN
    BY <2>1
  <2> QED BY <1>2, <2>1, <2>2, <2>3 DEF ShutdownInv, NobodyCutOff
<1>5. CASE DrainEnds
  BY <1>2, <1>5 DEF DrainEnds, ShutdownInv, NobodyCutOff
<1>6. CASE Exit
  BY <1>2, <1>6 DEF Exit, ShutdownInv, NobodyCutOff
<1> QED BY <1>3, <1>4, <1>5, <1>6

(* Every step of the process preserves the invariant.                      *)
LEMMA ShutdownNextInv ==
    ASSUME ShutdownInv, [ShutdownNext]_processVars
    PROVE  ShutdownInv'
<1>1. GatewayInv'
  BY ShutdownStepsGateway, GatewayNextInv DEF ShutdownInv
<1>2. ASSUME NEW n \in LimitInputs, LimitMoves(n) PROVE ShutdownInv'
  <2>1. /\ stage' = stage /\ expired' = expired
        /\ UNCHANGED <<phase, drain, left, fits>>
    BY <1>2 DEF LimitMoves, pathVars, lifeVars
  <2>2. Timed' = Timed /\ Idle' = Idle
    BY <2>1 DEF Timed, Idle
  <2> QED BY <1>1, <2>1, <2>2 DEF ShutdownInv, NobodyCutOff
<1>3. CASE Gone \/ UNCHANGED processVars
  <2>1. /\ stage' = stage /\ expired' = expired
        /\ UNCHANGED <<phase, drain, left, fits>>
    BY <1>3 DEF Gone, processVars
  <2>2. Timed' = Timed /\ Idle' = Idle
    BY <2>1 DEF Timed, Idle
  <2> QED BY <1>1, <2>1, <2>2 DEF ShutdownInv, NobodyCutOff
<1> QED BY <1>1, <1>2, <1>3, RequestRunsInv, TickInv, MainInv DEF ShutdownNext

(* The invariant holds in every reachable state of the process.            *)
THEOREM ShutdownInvariant == ShutdownSpec => []ShutdownInv
<1>1. ShutdownInit => ShutdownInv
  BY ShutdownInitInv
<1>2. ShutdownInv /\ [ShutdownNext]_processVars => ShutdownInv'
  BY ShutdownNextInv
<1> QED BY <1>1, <1>2, PTL DEF ShutdownSpec

(* The variables of the process keep their types.                          *)
THEOREM ShutdownTypeCorrect == ShutdownSpec => []ShutdownTypeOK
<1>1. ShutdownInv => ShutdownTypeOK
  BY GatewayInvImplies DEF ShutdownInv, ShutdownTypeOK
<1> QED BY <1>1, ShutdownInvariant, PTL

(* Nobody whose timeout is shorter than the window of the drain is cut off *)
(* by the end of the process, for any number of requests, any two          *)
(* timeouts, and a database that may answer none of them.                  *)
THEOREM NobodyIsCutOff == ShutdownSpec => []NobodyCutOff
<1>1. ShutdownInv => NobodyCutOff
  BY DEF ShutdownInv
<1> QED BY <1>1, ShutdownInvariant, PTL
=============================================================================
