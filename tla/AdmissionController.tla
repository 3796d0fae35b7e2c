------------------------ MODULE AdmissionController ------------------------
(***************************************************************************)
(* The admission controller of the gateway                                 *)
(* (backend/internal/domain/admission/controller.go): a semaphore with a   *)
(* limit that can be changed while requests hold slots and others wait.    *)
(*                                                                         *)
(* Every method of the Go type runs under c.mu, so a method, or the part   *)
(* of Acquire before and after its select, is one action.  A request is a  *)
(* goroutine that calls Acquire and, if it is admitted, Release; pc[r] is  *)
(* where it stands between two critical sections.  The buffered channel a  *)
(* waiter blocks on is `granted': r is in it while r's channel holds the   *)
(* token notifyLocked sent and r has not yet taken note of it.             *)
(*                                                                         *)
(* A definition whose name has a suffix after "_" is a plausible mistake in *)
(* the one that follows it; the properties are tried against each.         *)
(*                                                                         *)
(* Abstracted: waitSecondsTotal, a running sum of durations that only the  *)
(* telemetry reads, and with it recordWait.                                *)
(***************************************************************************)
EXTENDS Integers, SequencesExt

CONSTANTS
    Requests,       \* the request goroutines; each may call Acquire again and again
    InitialLimit,   \* the argument of NewController
    LimitInputs     \* the arguments SetLimit is called with

ASSUME ControllerAssumption ==
    /\ IsFiniteSet(Requests) /\ Requests # {}
    /\ InitialLimit \in Int
    /\ LimitInputs \subseteq Int

VARIABLES
    limit,      \* Controller.limit
    active,     \* Controller.active
    waiting,    \* Controller.waiting
    queue,      \* Controller.queue: whose channel is at each position
    granted,    \* the requests whose channel holds a token
    pc          \* where each request stands

controllerVars == <<limit, active, waiting, queue, granted, pc>>

(* The clamp forgotten.                                                    *)
AtLeastOne_noClamp(n) == n

(* `limit < 1' becomes 1, in NewController and in SetLimit.                *)
AtLeastOne(n) == IF n < 1 THEN 1 ELSE n

Holders == {r \in Requests : pc[r] = "running"} \cup granted

-----------------------------------------------------------------------------
(* A loop that tests active <= limit admits one waiter too many.           *)
Eligible_offByOne(l, a, q) ==
    IF a > l THEN 0 ELSE IF Len(q) < l - a + 1 THEN Len(q) ELSE l - a + 1

(***************************************************************************)
(* notifyLocked, called with the lock held on the values its caller has    *)
(* just computed: `for len(queue) > 0 && active < limit' runs this many    *)
(* times, and hands a slot to as many waiters from the head of the queue.  *)
(***************************************************************************)
Eligible(l, a, q) ==
    IF a >= l THEN 0 ELSE IF Len(q) < l - a THEN Len(q) ELSE l - a

(* Waiters served from the tail of the queue.                              *)
notifyLocked_lifo(l, a, w, q, g) ==
    LET k == Eligible(l, a, q) IN
        /\ active' = a + k
        /\ waiting' = w - k
        /\ queue' = SubSeq(q, 1, Len(q) - k)
        /\ granted' = g \cup ToSet(SubSeq(q, Len(q) - k + 1, Len(q)))

(* The body of notifyLocked: each iteration moves one waiter from the queue *)
(* to the granted ones and corrects both counters.                         *)
notifyLocked(l, a, w, q, g) ==
    LET k == Eligible(l, a, q) IN
        /\ active' = a + k
        /\ waiting' = w - k
        /\ queue' = SubSeq(q, k + 1, Len(q))
        /\ granted' = g \cup ToSet(SubSeq(q, 1, k))

-----------------------------------------------------------------------------
(* NewController; nobody has called Acquire yet.                           *)
ControllerInit ==
    /\ limit = AtLeastOne(InitialLimit)
    /\ active = 0
    /\ waiting = 0
    /\ queue = <<>>
    /\ granted = {}
    /\ pc = [r \in Requests |-> "idle"]

(* Acquire with a free slot: the caller is admitted at once.               *)
AcquireFast(r) ==
    /\ pc[r] = "idle"
    /\ active < limit
    /\ active' = active + 1
    /\ pc' = [pc EXCEPT ![r] = "running"]
    /\ UNCHANGED <<limit, waiting, queue, granted>>

(* Acquire without one: a channel joins the queue, the caller blocks.      *)
AcquireEnqueue(r) ==
    /\ pc[r] = "idle"
    /\ active >= limit
    /\ queue' = Append(queue, r)
    /\ waiting' = waiting + 1
    /\ pc' = [pc EXCEPT ![r] = "waiting"]
    /\ UNCHANGED <<limit, active, granted>>

(* The select takes the token: Acquire returns nil.                        *)
ReceiveGrant(r) ==
    /\ pc[r] = "waiting"
    /\ r \in granted
    /\ granted' = granted \ {r}
    /\ pc' = [pc EXCEPT ![r] = "running"]
    /\ UNCHANGED <<limit, active, waiting, queue>>

(***************************************************************************)
(* The context is done and the select takes that branch: it may, also when *)
(* the token is there, for Go picks at random between ready cases.         *)
(***************************************************************************)
ContextDone(r) ==
    /\ pc[r] = "waiting"
    /\ pc' = [pc EXCEPT ![r] = "abandoning"]
    /\ UNCHANGED <<limit, active, waiting, queue, granted>>

(* The counter corrected, the channel left in the queue.                   *)
AbandonQueued_keepsChannel(r) ==
    /\ pc[r] = "abandoning"
    /\ r \in ToSet(queue)
    /\ waiting' = waiting - 1
    /\ pc' = [pc EXCEPT ![r] = "idle"]
    /\ UNCHANGED <<limit, active, queue, granted>>

(* abandon finds the channel in the queue and takes it out.                *)
AbandonQueued(r) ==
    /\ pc[r] = "abandoning"
    /\ \E i \in DOMAIN queue : queue[i] = r /\ queue' = RemoveAt(queue, i)
    /\ waiting' = waiting - 1
    /\ pc' = [pc EXCEPT ![r] = "idle"]
    /\ UNCHANGED <<limit, active, granted>>

(* The slot granted in the meantime is forgotten.                          *)
AbandonGranted_leak(r) ==
    /\ pc[r] = "abandoning"
    /\ r \notin ToSet(queue)
    /\ pc' = [pc EXCEPT ![r] = "idle"]
    /\ granted' = granted \ {r}
    /\ UNCHANGED <<limit, active, waiting, queue>>

(* The slot comes back, but nobody is woken.                               *)
AbandonGranted_noNotify(r) ==
    /\ pc[r] = "abandoning"
    /\ r \notin ToSet(queue)
    /\ pc' = [pc EXCEPT ![r] = "idle"]
    /\ granted' = granted \ {r}
    /\ active' = active - 1
    /\ waiting' = IF waiting < 1 THEN 0 ELSE waiting - 1
    /\ UNCHANGED <<limit, queue>>

(* The clamp of `waiting' dropped: its error grows with every such race.   *)
AbandonGranted_noClamp(r) ==
    /\ pc[r] = "abandoning"
    /\ r \notin ToSet(queue)
    /\ pc' = [pc EXCEPT ![r] = "idle"]
    /\ notifyLocked(limit, active - 1, waiting - 1, queue, granted \ {r})
    /\ UNCHANGED limit

(***************************************************************************)
(* abandon does not find it: the slot was granted in the meantime, and is  *)
(* passed on.  notifyLocked counted this waiter out of `waiting' when it   *)
(* granted the slot; the code counts it out a second time here.            *)
(***************************************************************************)
AbandonGranted(r) ==
    /\ pc[r] = "abandoning"
    /\ r \notin ToSet(queue)
    /\ pc' = [pc EXCEPT ![r] = "idle"]
    /\ notifyLocked(limit,
                    IF active < 1 THEN 0 ELSE active - 1,
                    IF waiting < 1 THEN 0 ELSE waiting - 1,
                    queue, granted \ {r})
    /\ UNCHANGED limit

(* The counter is not corrected.                                           *)
Release_noDecrement(r) ==
    /\ pc[r] = "running"
    /\ pc' = [pc EXCEPT ![r] = "idle"]
    /\ notifyLocked(limit, active, waiting, queue, granted)
    /\ UNCHANGED limit

(* A caller that holds a slot gives it back.                               *)
Release(r) ==
    /\ pc[r] = "running"
    /\ pc' = [pc EXCEPT ![r] = "idle"]
    /\ notifyLocked(limit, IF active > 0 THEN active - 1 ELSE active,
                    waiting, queue, granted)
    /\ UNCHANGED limit

(* The limit grows, but nobody is woken.                                   *)
SetLimit_noNotify(n) ==
    /\ limit' = AtLeastOne(n)
    /\ UNCHANGED <<active, waiting, queue, granted, pc>>

(* The limit changes; waiters are admitted if capacity grew.               *)
SetLimit(n) ==
    /\ limit' = AtLeastOne(n)
    /\ notifyLocked(AtLeastOne(n), active, waiting, queue, granted)
    /\ UNCHANGED pc

-----------------------------------------------------------------------------
(* What the requests do; the strategies own the calls of SetLimit.         *)
RequestStep(r) ==
    \/ AcquireFast(r)
    \/ AcquireEnqueue(r)
    \/ ReceiveGrant(r)
    \/ ContextDone(r)
    \/ AbandonQueued(r)
    \/ AbandonGranted(r)
    \/ Release(r)

ControllerNext ==
    \/ \E r \in Requests : RequestStep(r)
    \/ \E n \in LimitInputs : SetLimit(n)

ControllerSpec == ControllerInit /\ [][ControllerNext]_controllerVars

(***************************************************************************)
(* A runnable goroutine is scheduled: a waiter whose token is there takes  *)
(* it (or the other branch), an abandoning one gets the lock, and a caller *)
(* that was admitted releases, which workload.Service.execute does with    *)
(* defer.  Nothing makes requests arrive, contexts end or limits change.   *)
(***************************************************************************)
RequestFairness(r) ==
    /\ WF_controllerVars(ReceiveGrant(r))
    /\ WF_controllerVars(AbandonQueued(r))
    /\ WF_controllerVars(AbandonGranted(r))
    /\ WF_controllerVars(Release(r))

ControllerFairness == \A r \in Requests : RequestFairness(r)

ControllerFairSpec == ControllerSpec /\ ControllerFairness

-----------------------------------------------------------------------------
(* Every variable has its type; `waiting' is an integer, it may go below 0. *)
ControllerTypeOK ==
    /\ limit \in Nat \ {0}
    /\ active \in Nat
    /\ waiting \in Int
    /\ queue \in Seq(Requests)
    /\ granted \subseteq Requests
    /\ pc \in [Requests -> {"idle", "waiting", "abandoning", "running"}]

(***************************************************************************)
(* The counter is exact: `active' is the number of requests that hold a    *)
(* slot, those whose token is still in its channel included.  So no path   *)
(* of Acquire, abandon and Release leaks a slot or frees one twice (comment*)
(* at controller.go:37), and the clamps at 0 never hide anything.          *)
(***************************************************************************)
SlotAccounting == active = Cardinality(Holders)

(***************************************************************************)
(* A request is in the queue, once, exactly when it is blocked in Acquire  *)
(* or about to abandon it without a token; and only such a request has a   *)
(* token.  So no channel is ever sent a second token: the send in          *)
(* notifyLocked, which runs with the lock held, never blocks.              *)
(***************************************************************************)
QueueExact ==
    /\ IsInjective(queue)
    /\ ToSet(queue) \cap granted = {}
    /\ ToSet(queue) \cup granted = {r \in Requests : pc[r] \in {"waiting", "abandoning"}}

(* Nobody waits while there is a free slot: no wakeup is lost, whichever   *)
(* way a slot came back (Release, abandon, SetLimit).                      *)
WorkConserving == queue # <<>> => active >= limit

(***************************************************************************)
(* How far `waiting' may be from the length of the queue.  It never        *)
(* overcounts, and although abandon counts a granted waiter out twice, the *)
(* clamp at 0 keeps the error below the number of requests.                *)
(***************************************************************************)
DriftBounded == Len(queue) - waiting \in 0..(Cardinality(Requests) - 1)

(* A slot is only ever handed out within the limit of that moment, however *)
(* the limit moved before: only a shrink can leave active above limit.     *)
NoOverAdmission == [][active' > active => active' =< limit']_controllerVars

(* A newcomer never takes a slot past the requests already queued.         *)
NoBarging ==
    [][\A r \in Requests :
            pc[r] = "idle" /\ pc'[r] = "running" => queue = <<>>]_controllerVars

(***************************************************************************)
(* Nobody waits forever: with every admitted request releasing its slot, a *)
(* blocked Acquire ends by itself, without its context having to end, for  *)
(* the limit is never below 1, the queue is served in order and newcomers  *)
(* cannot pass it.                                                         *)
(***************************************************************************)
NoStarvation == \A r \in Requests : pc[r] = "waiting" ~> pc[r] # "waiting"

(* A shrink takes effect: active comes back within the limit again and     *)
(* again, though nobody inside is evicted and others keep arriving.        *)
ShrinkConverges == []<>(active =< limit)

(***************************************************************************)
(* The controller implements the gate: holders are the requests with a     *)
(* slot, the line is the queue.  A token taken, a context ending and the   *)
(* drifting `waiting' counter are invisible from outside.                  *)
(***************************************************************************)
Gate == INSTANCE AdmissionGate WITH
            holders <- Holders,
            line    <- queue,
            Limits  <- {AtLeastOne(n) : n \in LimitInputs \cup {InitialLimit}}

(* Every behaviour of the controller is one of the gate, and with runnable *)
(* goroutines scheduled every holder leaves, as the gate promises.         *)
ImplementsGate == Gate!GateFairSpec

(* What the comment of Waiting says at controller.go:170.                  *)
WaitingIsQueueLength == waiting = Len(queue)
=============================================================================
