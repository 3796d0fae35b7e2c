---------------------------- MODULE AdmissionGate ----------------------------
(***************************************************************************)
(* What the callers of an AdmissionStrategy may rely on, with no counters, *)
(* no channels and no lock: a semaphore with a resizable limit that serves *)
(* its waiters in order of arrival.  AdmissionController implements it.    *)
(***************************************************************************)
EXTENDS Integers, SequencesExt

CONSTANTS
    Requests,   \* who may ask for a slot
    Limits      \* the limits the gate may be given

VARIABLES
    limit,      \* how many requests may be inside
    holders,    \* the requests that hold a slot
    line        \* the requests waiting for one, the oldest first

gateVars == <<limit, holders, line>>

(***************************************************************************)
(* From the holders h, the line l and the limit n, admit a prefix of the   *)
(* line: never beyond the limit, and never leaving a waiter in the line    *)
(* while there is room.                                                    *)
(***************************************************************************)
Serve(h, l, n) ==
    \E k \in 0..Len(l) :
        /\ limit' = n
        /\ holders' = h \cup ToSet(SubSeq(l, 1, k))
        /\ line' = SubSeq(l, k + 1, Len(l))
        /\ k > 0 => Cardinality(holders') =< n
        /\ line' # <<>> => Cardinality(holders') >= n

GateInit ==
    /\ limit \in Limits
    /\ holders = {}
    /\ line = <<>>

(* A request arrives: it goes through, or joins the end of the line.       *)
Enter(r) ==
    /\ r \notin holders \cup ToSet(line)
    /\ Serve(holders, Append(line, r), limit)

(* A request gives its slot back; whoever is next in line may take it.     *)
Depart(r) ==
    /\ r \in holders
    /\ Serve(holders \ {r}, line, limit)

(* A request gives up waiting.                                             *)
GiveUp(r) ==
    /\ \E i \in DOMAIN line : line[i] = r /\ line' = RemoveAt(line, i)
    /\ UNCHANGED <<limit, holders>>

(* The limit changes; nobody inside is evicted.                            *)
Resize(n) == Serve(holders, line, n)

GateNext ==
    \/ \E r \in Requests : Enter(r) \/ Depart(r) \/ GiveUp(r)
    \/ \E n \in Limits : Resize(n)

GateSpec == GateInit /\ [][GateNext]_gateVars

(* Every holder eventually gives its slot back.                            *)
GateFairness == \A r \in Requests : WF_gateVars(Depart(r))

GateFairSpec == GateSpec /\ GateFairness
=============================================================================
