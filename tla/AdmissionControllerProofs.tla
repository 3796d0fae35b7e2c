--------------------- MODULE AdmissionControllerProofs ---------------------
(***************************************************************************)
(* The controller is correct, and implements the gate, for every set of    *)
(* requests, every initial limit and every sequence of SetLimit calls.     *)
(***************************************************************************)
EXTENDS AdmissionController, FiniteSetTheorems, FunctionTheorems,
        SequenceTheorems, TLAPS

-----------------------------------------------------------------------------
(* Lemmas about injective sequences: what notifyLocked and abandon do to   *)
(* the queue.                                                              *)

(* A sequence without repetitions is cut in two: the parts have no element *)
(* in common, and the first has as many elements as its length.            *)
LEMMA SplitInjective ==
    ASSUME NEW S, NEW q \in Seq(S), IsInjective(q), NEW k \in 0..Len(q)
    PROVE  /\ SubSeq(q, k + 1, Len(q)) \in Seq(S)
           /\ Len(SubSeq(q, k + 1, Len(q))) = Len(q) - k
           /\ IsInjective(SubSeq(q, k + 1, Len(q)))
           /\ ToSet(SubSeq(q, 1, k)) \cap ToSet(SubSeq(q, k + 1, Len(q))) = {}
           /\ ToSet(SubSeq(q, 1, k)) \cup ToSet(SubSeq(q, k + 1, Len(q))) = ToSet(q)
           /\ ToSet(SubSeq(q, 1, k)) \subseteq S
           /\ IsFiniteSet(ToSet(SubSeq(q, 1, k)))
           /\ Cardinality(ToSet(SubSeq(q, 1, k))) = k
<1> DEFINE p == SubSeq(q, 1, k)
           t == SubSeq(q, k + 1, Len(q))
<1>1. /\ p \in Seq(S) /\ Len(p) = k /\ DOMAIN p = 1..k
      /\ \A i \in 1..k : p[i] = q[i]
  BY SubSeqProperties
<1>2. /\ t \in Seq(S) /\ Len(t) = Len(q) - k /\ DOMAIN t = 1..(Len(q) - k)
      /\ \A i \in 1..(Len(q) - k) : t[i] = q[i + k]
  BY SubSeqProperties
<1>3. DOMAIN q = 1..Len(q) /\ Len(q) \in Nat
  OBVIOUS
<1> HIDE DEF p, t
<1>4. IsInjective(t)
  <2> SUFFICES ASSUME NEW a \in 1..(Len(q) - k), NEW b \in 1..(Len(q) - k), t[a] = t[b]
               PROVE  a = b
    BY <1>2 DEF IsInjective
  <2>1. q[a + k] = q[b + k] /\ a + k \in DOMAIN q /\ b + k \in DOMAIN q
    BY <1>2, <1>3
  <2>2. a + k = b + k
    BY <2>1 DEF IsInjective
  <2> QED BY <2>2, <1>3
<1>5. ToSet(p) \cap ToSet(t) = {}
  <2> SUFFICES ASSUME NEW a \in 1..k, NEW b \in 1..(Len(q) - k), p[a] = t[b]
               PROVE  FALSE
    BY <1>1, <1>2 DEF ToSet
  <2>1. q[a] = q[b + k] /\ a \in DOMAIN q /\ b + k \in DOMAIN q
    BY <1>1, <1>2, <1>3
  <2>2. a = b + k
    BY <2>1 DEF IsInjective
  <2> QED BY <2>2, <1>3
<1>6. ToSet(p) \cup ToSet(t) = ToSet(q)
  <2>1. ToSet(p) \subseteq ToSet(q) /\ ToSet(t) \subseteq ToSet(q)
    <3>1. ASSUME NEW a \in 1..k PROVE p[a] \in ToSet(q)
      <4>1. a \in DOMAIN q /\ p[a] = q[a]
        BY <1>1, <1>3
      <4> QED BY <4>1 DEF ToSet
    <3>2. ASSUME NEW b \in 1..(Len(q) - k) PROVE t[b] \in ToSet(q)
      <4>1. b + k \in DOMAIN q /\ t[b] = q[b + k]
        BY <1>2, <1>3
      <4> QED BY <4>1 DEF ToSet
    <3>3. /\ ToSet(p) = {p[a] : a \in 1..k}
          /\ ToSet(t) = {t[b] : b \in 1..(Len(q) - k)}
      BY <1>1, <1>2 DEF ToSet
    <3> QED BY <3>1, <3>2, <3>3
  <2>2. ASSUME NEW i \in 1..Len(q) PROVE q[i] \in ToSet(p) \cup ToSet(t)
    <3>1. CASE i =< k
      BY <3>1, <1>1 DEF ToSet
    <3>2. CASE i > k
      <4>1. i - k \in 1..(Len(q) - k) /\ (i - k) + k = i
        BY <3>2, <1>3
      <4>2. t[i - k] = q[i]
        BY <4>1, <1>2
      <4> QED BY <4>1, <4>2, <1>2 DEF ToSet
    <3> QED BY <3>1, <3>2
  <2> QED BY <2>1, <2>2, <1>3 DEF ToSet
<1>7. ToSet(p) \subseteq S
  BY <1>1 DEF ToSet
<1>8. IsFiniteSet(ToSet(p)) /\ Cardinality(ToSet(p)) = k
  <2>1. p \in [1..k -> ToSet(p)]
    <3>1. p = [a \in 1..k |-> p[a]]
      BY <1>1
    <3> QED BY <3>1, <1>1 DEF ToSet
  <2>2. \A a, b \in 1..k : p[a] = p[b] => a = b
    BY <1>1, <1>3 DEF IsInjective
  <2>3. \A x \in ToSet(p) : \E a \in 1..k : p[a] = x
    BY <1>1 DEF ToSet
  <2>4. p \in Bijection(1..k, ToSet(p))
    BY <2>1, <2>2, <2>3, Fun_IsBij
  <2>5. IsFiniteSet(1..k) /\ Cardinality(1..k) = k
    BY FS_Interval
  <2> QED BY <2>4, <2>5, FS_Bijection DEF ExistsBijection
<1> QED BY <1>2, <1>4, <1>5, <1>6, <1>7, <1>8 DEF p, t

(* One element is taken out of a sequence without repetitions.             *)
LEMMA RemoveInjective ==
    ASSUME NEW S, NEW q \in Seq(S), IsInjective(q), NEW i \in DOMAIN q
    PROVE  /\ RemoveAt(q, i) \in Seq(S)
           /\ Len(RemoveAt(q, i)) = Len(q) - 1
           /\ IsInjective(RemoveAt(q, i))
           /\ ToSet(RemoveAt(q, i)) = ToSet(q) \ {q[i]}
           /\ \A j \in 1..(Len(q) - 1) : RemoveAt(q, i)[j] = q[IF j < i THEN j ELSE j + 1]
<1> DEFINE s == RemoveAt(q, i)
           from(j) == IF j < i THEN j ELSE j + 1
<1>1. i \in 1..Len(q) /\ Len(q) \in Nat /\ DOMAIN q = 1..Len(q)
  OBVIOUS
<1>2. /\ s \in Seq(S) /\ Len(s) = Len(q) - 1 /\ DOMAIN s = 1..(Len(q) - 1)
      /\ \A j \in 1..(Len(q) - 1) : s[j] = q[from(j)]
  <2> DEFINE b == SubSeq(q, 1, i - 1)
             e == SubSeq(q, i + 1, Len(q))
  <2>1. b \in Seq(S) /\ Len(b) = i - 1 /\ \A j \in 1..(i - 1) : b[j] = q[j]
    BY <1>1, SubSeqProperties
  <2>2. /\ e \in Seq(S) /\ Len(e) = Len(q) - i
        /\ \A j \in 1..(Len(q) - i) : e[j] = q[i + j]
    BY <1>1, SubSeqProperties
  <2>3. s = b \o e
    BY DEF RemoveAt
  <2> HIDE DEF b, e, s
  <2>4. /\ s \in Seq(S) /\ Len(s) = Len(b) + Len(e)
        /\ \A j \in 1..(Len(b) + Len(e)) :
                s[j] = IF j =< Len(b) THEN b[j] ELSE e[j - Len(b)]
    BY <2>1, <2>2, <2>3, ConcatProperties
  <2>5. Len(s) = Len(q) - 1 /\ DOMAIN s = 1..(Len(q) - 1)
    BY <1>1, <2>1, <2>2, <2>4
  <2>6. ASSUME NEW j \in 1..(Len(q) - 1) PROVE s[j] = q[from(j)]
    <3>1. CASE j < i
      BY <3>1, <1>1, <2>1, <2>2, <2>4
    <3>2. CASE j >= i
      <4>1. j - (i - 1) \in 1..(Len(q) - i) /\ i + (j - (i - 1)) = j + 1
        BY <3>2, <1>1
      <4>2. s[j] = e[j - (i - 1)]
        BY <3>2, <1>1, <2>1, <2>2, <2>4
      <4>3. e[j - (i - 1)] = q[j + 1]
        BY <4>1, <2>2
      <4> QED BY <3>2, <4>2, <4>3
    <3> QED BY <3>1, <3>2, <1>1
  <2> QED BY <2>4, <2>5, <2>6
<1> HIDE DEF s
<1>3. IsInjective(s)
  <2> SUFFICES ASSUME NEW a \in 1..(Len(q) - 1), NEW b \in 1..(Len(q) - 1), s[a] = s[b]
               PROVE  a = b
    BY <1>2 DEF IsInjective
  <2>1. from(a) \in DOMAIN q /\ from(b) \in DOMAIN q
    BY <1>1
  <2>2. q[from(a)] = q[from(b)]
    BY <1>2
  <2>3. from(a) = from(b)
    BY <2>1, <2>2 DEF IsInjective
  <2> QED BY <2>3, <1>1
<1>4. ToSet(s) \subseteq ToSet(q) \ {q[i]}
  BY <1>1, <1>2 DEF IsInjective, ToSet
<1>5. ASSUME NEW j \in 1..Len(q), j # i PROVE q[j] \in ToSet(s)
  <2>1. CASE j < i
    BY <2>1, <1>1, <1>2 DEF ToSet
  <2>2. CASE j > i
    <3>1. j - 1 \in 1..(Len(q) - 1) /\ from(j - 1) = j
      BY <2>2, <1>1
    <3> QED BY <3>1, <1>2 DEF ToSet
  <2> QED BY <1>5, <2>1, <2>2, <1>1
<1>6. ToSet(s) = ToSet(q) \ {q[i]}
  BY <1>1, <1>4, <1>5 DEF ToSet
<1> QED BY <1>2, <1>3, <1>6 DEF s

(* Two finite sets with no element in common.                              *)
LEMMA DisjointUnion ==
    ASSUME NEW S, NEW T, IsFiniteSet(S), IsFiniteSet(T), S \cap T = {}
    PROVE  /\ IsFiniteSet(S \cup T)
           /\ Cardinality(S \cup T) = Cardinality(S) + Cardinality(T)
BY FS_Union, FS_EmptySet, FS_CardinalityType

-----------------------------------------------------------------------------
(* What notifyLocked does with the values its caller hands it: it moves    *)
(* waiters from the queue to the granted ones, counts each, keeps the      *)
(* error of `waiting' as it was, and stops only at the limit or with       *)
(* nobody left to wake.                                                    *)
LEMMA NotifyFacts ==
    ASSUME NEW l \in Nat \ {0}, NEW a \in Nat, NEW w \in Int,
           NEW q \in Seq(Requests), IsInjective(q),
           NEW g \in SUBSET Requests, ToSet(q) \cap g = {},
           notifyLocked(l, a, w, q, g)
    PROVE  /\ active' \in Nat /\ waiting' \in Int
           /\ queue' \in Seq(Requests) /\ granted' \subseteq Requests
           /\ IsInjective(queue')
           /\ ToSet(queue') \cap granted' = {}
           /\ ToSet(queue') \cup granted' = ToSet(q) \cup g
           /\ g \subseteq granted'
           /\ IsFiniteSet(granted' \ g)
           /\ active' = a + Cardinality(granted' \ g)
           /\ Len(queue') - waiting' = Len(q) - w
           /\ queue' # <<>> => active' >= l
           /\ active' > a => active' =< l
<1> DEFINE k == Eligible(l, a, q)
<1>1. Len(q) \in Nat
  OBVIOUS
<1>2. k \in 0..Len(q)
  BY <1>1 DEF Eligible
<1>3. /\ active' = a + k
      /\ waiting' = w - k
      /\ queue' = SubSeq(q, k + 1, Len(q))
      /\ granted' = g \cup ToSet(SubSeq(q, 1, k))
  BY DEF notifyLocked
<1>4. k < Len(q) => a + k >= l
  BY <1>1 DEF Eligible
<1>5. k > 0 => a + k =< l
  BY <1>1 DEF Eligible
<1> HIDE DEF k
<1> DEFINE p == ToSet(SubSeq(q, 1, k))
<1>6. /\ queue' \in Seq(Requests)
      /\ Len(queue') = Len(q) - k
      /\ IsInjective(queue')
      /\ p \cap ToSet(queue') = {}
      /\ p \cup ToSet(queue') = ToSet(q)
      /\ p \subseteq Requests
      /\ IsFiniteSet(p) /\ Cardinality(p) = k
  BY <1>2, <1>3, SplitInjective
<1>7. granted' = g \cup p
  BY <1>3
<1> HIDE DEF p
<1>8. granted' \ g = p
  BY <1>6, <1>7
<1>9. /\ granted' \subseteq Requests
      /\ ToSet(queue') \cap granted' = {}
      /\ ToSet(queue') \cup granted' = ToSet(q) \cup g
      /\ g \subseteq granted'
      /\ IsFiniteSet(granted' \ g)
  BY <1>6, <1>7, <1>8
<1>10. active' = a + Cardinality(granted' \ g)
  BY <1>3, <1>6, <1>8
<1>11. active' \in Nat /\ waiting' \in Int /\ Len(queue') - waiting' = Len(q) - w
  BY <1>1, <1>2, <1>3, <1>6
<1>12. queue' # <<>> => active' >= l
  BY <1>1, <1>2, <1>3, <1>4, <1>6
<1>13. active' > a => active' =< l
  BY <1>1, <1>2, <1>3, <1>5
<1> QED BY <1>6, <1>9, <1>10, <1>11, <1>12, <1>13

-----------------------------------------------------------------------------
(***************************************************************************)
(* The inductive invariant.  None of its parts is inductive alone: to know *)
(* that Release decrements the counter of somebody who is counted one      *)
(* needs the types and SlotAccounting; to know that a token is new, and so *)
(* that each iteration of notifyLocked adds one holder, QueueExact; and a  *)
(* newcomer that finds active < limit passes nobody by WorkConserving.     *)
(***************************************************************************)
ControllerInv ==
    /\ ControllerTypeOK
    /\ QueueExact
    /\ SlotAccounting
    /\ WorkConserving
    /\ DriftBounded

(* Who holds a slot is a finite set, apart from those who are queued.      *)
LEMMA HoldersFacts ==
    ASSUME ControllerTypeOK, QueueExact
    PROVE  /\ Holders \subseteq Requests
           /\ IsFiniteSet(Holders)
           /\ Cardinality(Holders) \in Nat
           /\ Holders \cap ToSet(queue) = {}
<1>1. Holders \subseteq Requests
  BY DEF Holders, ControllerTypeOK
<1>2. Holders \cap ToSet(queue) = {}
  BY DEF Holders, QueueExact
<1> QED BY <1>1, <1>2, ControllerAssumption, FS_Subset, FS_CardinalityType

(***************************************************************************)
(* The part Release, abandon and SetLimit share: the holders D leave (one  *)
(* or none), the limit becomes whatever it becomes, and notifyLocked runs. *)
(***************************************************************************)
LEMMA HandOver ==
    ASSUME ControllerInv,
           NEW D \in SUBSET Holders, NEW w \in Int,
           Len(queue) - w \in 0..(Cardinality(Requests) - 1),
           limit' \in Nat \ {0},
           pc' = [x \in Requests |-> IF x \in D THEN "idle" ELSE pc[x]],
           notifyLocked(limit', Cardinality(Holders \ D), w, queue, granted \ D)
    PROVE  /\ ControllerInv'
           /\ active' > Cardinality(Holders \ D) => active' =< limit'
<1> DEFINE g == granted \ D
           h == Holders \ D
<1>1. /\ queue \in Seq(Requests) /\ IsInjective(queue)
      /\ g \in SUBSET Requests /\ ToSet(queue) \cap g = {}
  BY DEF ControllerInv, ControllerTypeOK, QueueExact
<1>2. /\ IsFiniteSet(h) /\ Cardinality(h) \in Nat
      /\ Holders \cap ToSet(queue) = {}
  BY HoldersFacts, FS_Subset, FS_CardinalityType DEF ControllerInv
<1>3. /\ active' \in Nat /\ waiting' \in Int
      /\ queue' \in Seq(Requests) /\ granted' \subseteq Requests
      /\ IsInjective(queue')
      /\ ToSet(queue') \cap granted' = {}
      /\ ToSet(queue') \cup granted' = ToSet(queue) \cup g
      /\ g \subseteq granted'
      /\ IsFiniteSet(granted' \ g)
      /\ active' = Cardinality(h) + Cardinality(granted' \ g)
      /\ Len(queue') - waiting' = Len(queue) - w
      /\ queue' # <<>> => active' >= limit'
      /\ active' > Cardinality(h) => active' =< limit'
  BY <1>1, <1>2, NotifyFacts
<1>4. ControllerTypeOK'
  <2>1. pc' \in [Requests -> {"idle", "waiting", "abandoning", "running"}]
    BY DEF ControllerInv, ControllerTypeOK
  <2> QED BY <1>3, <2>1 DEF ControllerTypeOK
<1>5. QueueExact'
  <2>1. D \cap ToSet(queue) = {}
    BY <1>2
  <2>2. ToSet(queue) \cup granted = {r \in Requests : pc[r] \in {"waiting", "abandoning"}}
    BY DEF ControllerInv, QueueExact
  <2>3. ToSet(queue) \cup g = {r \in Requests : pc'[r] \in {"waiting", "abandoning"}}
    BY <2>1, <2>2
  <2> QED BY <1>3, <2>3 DEF QueueExact
<1>6. SlotAccounting'
  <2>1. Holders' = h \cup (granted' \ g)
    <3>1. {r \in Requests : pc'[r] = "running"}
            = {r \in Requests : pc[r] = "running"} \ D
      OBVIOUS
    <3>2. Holders' = ({r \in Requests : pc[r] = "running"} \ D) \cup granted'
      BY <3>1 DEF Holders
    <3>3. h = ({r \in Requests : pc[r] = "running"} \ D) \cup g
      BY DEF Holders
    <3> QED BY <1>3, <3>2, <3>3
  <2>2. h \cap (granted' \ g) = {}
    BY <1>2, <1>3
  <2>3. Cardinality(Holders') = Cardinality(h) + Cardinality(granted' \ g)
    BY <1>2, <1>3, <2>1, <2>2, DisjointUnion
  <2> QED BY <1>3, <2>3 DEF SlotAccounting
<1>7. WorkConserving'
  BY <1>3 DEF WorkConserving
<1>8. DriftBounded'
  BY <1>3 DEF DriftBounded
<1> QED BY <1>3, <1>4, <1>5, <1>6, <1>7, <1>8 DEF ControllerInv

-----------------------------------------------------------------------------
(* The invariant holds when the controller is created.                     *)
LEMMA InitInv == ControllerInit => ControllerInv
<1> SUFFICES ASSUME ControllerInit PROVE ControllerInv
  OBVIOUS
<1>1. Cardinality(Requests) \in Nat \ {0}
  BY ControllerAssumption, FS_EmptySet, FS_CardinalityType
<1>2. ToSet(queue) = {} /\ Len(queue) = 0
  BY DEF ControllerInit, ToSet
<1>3. ControllerTypeOK
  BY ControllerAssumption DEF ControllerInit, ControllerTypeOK, AtLeastOne
<1>4. Holders = {}
  BY DEF ControllerInit, Holders
<1>5. SlotAccounting
  BY <1>4, FS_EmptySet DEF ControllerInit, SlotAccounting
<1>6. QueueExact
  <2>1. IsInjective(queue)
    BY DEF ControllerInit, IsInjective
  <2> QED BY <1>2, <2>1 DEF ControllerInit, QueueExact
<1>7. WorkConserving /\ DriftBounded
  BY <1>1, <1>2 DEF ControllerInit, WorkConserving, DriftBounded
<1> QED BY <1>3, <1>5, <1>6, <1>7 DEF ControllerInv

(* A holder leaves: the slot it frees is the one its counter gives back.   *)
LEMMA OneLeaves ==
    ASSUME ControllerInv, NEW r \in Holders
    PROVE  /\ active > 0
           /\ active - 1 = Cardinality(Holders \ {r})
           /\ Cardinality(Holders \ {r}) \in Nat
BY HoldersFacts, FS_RemoveElement, FS_EmptySet, FS_CardinalityType
   DEF ControllerInv, SlotAccounting

(* A request that is not queued leaves room in the queue for at most the   *)
(* others.                                                                 *)
LEMMA QueueShorter ==
    ASSUME ControllerInv, NEW r \in Requests, r \notin ToSet(queue)
    PROVE  Len(queue) \in 0..(Cardinality(Requests) - 1)
<1>1. /\ queue \in Seq(Requests) /\ IsInjective(queue) /\ Len(queue) \in Nat
  BY DEF ControllerInv, ControllerTypeOK, QueueExact
<1>2. SubSeq(queue, 1, Len(queue)) = queue
  BY <1>1
<1>3. Cardinality(ToSet(queue)) = Len(queue) /\ ToSet(queue) \subseteq Requests
  <2>1. Len(queue) \in 0..Len(queue)
    BY <1>1
  <2>2. /\ Cardinality(ToSet(SubSeq(queue, 1, Len(queue)))) = Len(queue)
        /\ ToSet(SubSeq(queue, 1, Len(queue))) \subseteq Requests
    BY <1>1, <2>1, SplitInjective
  <2> QED BY <1>2, <2>2
<1>4. /\ IsFiniteSet(Requests \ {r})
      /\ Cardinality(Requests \ {r}) = Cardinality(Requests) - 1
  BY ControllerAssumption, FS_RemoveElement
<1>5. ToSet(queue) \subseteq Requests \ {r}
  BY <1>3
<1>6. Cardinality(ToSet(queue)) =< Cardinality(Requests \ {r})
  BY <1>4, <1>5, FS_Subset
<1> QED BY <1>1, <1>3, <1>4, <1>6, ControllerAssumption, FS_CardinalityType

-----------------------------------------------------------------------------
(* Each action preserves the invariant; those that admit somebody do so    *)
(* within the limit.                                                       *)
LEMMA AcquireFastStep ==
    ASSUME ControllerInv, NEW r \in Requests, AcquireFast(r)
    PROVE  ControllerInv' /\ active' =< limit'
<1>1. /\ pc[r] = "idle" /\ active < limit
      /\ active' = active + 1
      /\ pc' = [pc EXCEPT ![r] = "running"]
      /\ UNCHANGED <<limit, waiting, queue, granted>>
  BY DEF AcquireFast
<1>2. ControllerTypeOK'
  BY <1>1 DEF ControllerInv, ControllerTypeOK
<1>3. r \notin Holders
  BY <1>1 DEF ControllerInv, QueueExact, Holders
<1>4. Holders' = Holders \cup {r}
  BY <1>1 DEF ControllerInv, ControllerTypeOK, Holders
<1>5. SlotAccounting'
  BY <1>1, <1>3, <1>4, HoldersFacts, FS_AddElement DEF ControllerInv, SlotAccounting
<1>6. QueueExact'
  BY <1>1 DEF ControllerInv, ControllerTypeOK, QueueExact
<1>7. WorkConserving'
  BY <1>1 DEF ControllerInv, ControllerTypeOK, WorkConserving
<1>8. DriftBounded' /\ active' =< limit'
  BY <1>1 DEF ControllerInv, ControllerTypeOK, DriftBounded
<1> QED BY <1>2, <1>5, <1>6, <1>7, <1>8 DEF ControllerInv

LEMMA AcquireEnqueueStep ==
    ASSUME ControllerInv, NEW r \in Requests, AcquireEnqueue(r)
    PROVE  ControllerInv'
<1>1. /\ pc[r] = "idle" /\ active >= limit
      /\ queue' = Append(queue, r)
      /\ waiting' = waiting + 1
      /\ pc' = [pc EXCEPT ![r] = "waiting"]
      /\ UNCHANGED <<limit, active, granted>>
  BY DEF AcquireEnqueue
<1>2. queue \in Seq(Requests) /\ Len(queue) \in Nat
  BY DEF ControllerInv, ControllerTypeOK
<1>3. /\ queue' \in Seq(Requests)
      /\ Len(queue') = Len(queue) + 1
      /\ \A i \in 1..Len(queue) : queue'[i] = queue[i]
      /\ queue'[Len(queue) + 1] = r
  BY <1>1, <1>2, AppendProperties
<1>4. r \notin ToSet(queue) /\ r \notin granted
  BY <1>1 DEF ControllerInv, QueueExact
<1>5. ToSet(queue') = ToSet(queue) \cup {r}
  BY <1>2, <1>3 DEF ToSet
<1>6. IsInjective(queue')
  <2> SUFFICES ASSUME NEW i \in 1..(Len(queue) + 1), NEW j \in 1..(Len(queue) + 1),
                      queue'[i] = queue'[j]
               PROVE  i = j
    BY <1>3 DEF IsInjective
  <2>1. CASE i \in 1..Len(queue) /\ j \in 1..Len(queue)
    BY <2>1, <1>2, <1>3 DEF ControllerInv, QueueExact, IsInjective
  <2>2. CASE i = Len(queue) + 1 /\ j \in 1..Len(queue)
    BY <2>2, <1>2, <1>3, <1>4 DEF ToSet
  <2>3. CASE i \in 1..Len(queue) /\ j = Len(queue) + 1
    BY <2>3, <1>2, <1>3, <1>4 DEF ToSet
  <2>4. CASE i = Len(queue) + 1 /\ j = Len(queue) + 1
    BY <2>4
  <2> QED BY <2>1, <2>2, <2>3, <2>4, <1>2
<1>7. ControllerTypeOK'
  BY <1>1, <1>3 DEF ControllerInv, ControllerTypeOK
<1>8. QueueExact'
  <2>1. {x \in Requests : pc'[x] \in {"waiting", "abandoning"}}
          = {x \in Requests : pc[x] \in {"waiting", "abandoning"}} \cup {r}
    BY <1>1 DEF ControllerInv, ControllerTypeOK
  <2> QED BY <2>1, <1>1, <1>4, <1>5, <1>6 DEF ControllerInv, QueueExact
<1>9. SlotAccounting'
  <2>1. Holders' = Holders
    BY <1>1 DEF ControllerInv, ControllerTypeOK, Holders
  <2> QED BY <2>1, <1>1 DEF ControllerInv, SlotAccounting
<1>10. WorkConserving'
  BY <1>1 DEF WorkConserving
<1>11. DriftBounded'
  <2>1. Len(queue') - waiting' = Len(queue) - waiting
    BY <1>1, <1>2, <1>3 DEF ControllerInv, ControllerTypeOK
  <2> QED BY <2>1 DEF ControllerInv, DriftBounded
<1> QED BY <1>7, <1>8, <1>9, <1>10, <1>11 DEF ControllerInv

LEMMA ReceiveGrantStep ==
    ASSUME ControllerInv, NEW r \in Requests, ReceiveGrant(r)
    PROVE  ControllerInv' /\ active' = active
<1>1. /\ pc[r] = "waiting" /\ r \in granted
      /\ granted' = granted \ {r}
      /\ pc' = [pc EXCEPT ![r] = "running"]
      /\ UNCHANGED <<limit, active, waiting, queue>>
  BY DEF ReceiveGrant
<1>2. ControllerTypeOK'
  BY <1>1 DEF ControllerInv, ControllerTypeOK
<1>3. Holders' = Holders
  <2>1. {x \in Requests : pc'[x] = "running"}
          = {x \in Requests : pc[x] = "running"} \cup {r}
    BY <1>1 DEF ControllerInv, ControllerTypeOK
  <2> QED BY <2>1, <1>1 DEF Holders
<1>4. QueueExact'
  <2>1. {x \in Requests : pc'[x] \in {"waiting", "abandoning"}}
          = {x \in Requests : pc[x] \in {"waiting", "abandoning"}} \ {r}
    BY <1>1 DEF ControllerInv, ControllerTypeOK
  <2> QED BY <2>1, <1>1 DEF ControllerInv, QueueExact
<1>5. SlotAccounting' /\ WorkConserving' /\ DriftBounded'
  BY <1>1, <1>3 DEF ControllerInv, SlotAccounting, WorkConserving, DriftBounded
<1> QED BY <1>1, <1>2, <1>4, <1>5 DEF ControllerInv

LEMMA ContextDoneStep ==
    ASSUME ControllerInv, NEW r \in Requests, ContextDone(r)
    PROVE  ControllerInv' /\ active' = active
<1>1. /\ pc[r] = "waiting"
      /\ pc' = [pc EXCEPT ![r] = "abandoning"]
      /\ UNCHANGED <<limit, active, waiting, queue, granted>>
  BY DEF ContextDone
<1>2. ControllerTypeOK'
  BY <1>1 DEF ControllerInv, ControllerTypeOK
<1>3. Holders' = Holders
  BY <1>1 DEF ControllerInv, ControllerTypeOK, Holders
<1>4. QueueExact'
  <2>1. {x \in Requests : pc'[x] \in {"waiting", "abandoning"}}
          = {x \in Requests : pc[x] \in {"waiting", "abandoning"}}
    BY <1>1 DEF ControllerInv, ControllerTypeOK
  <2> QED BY <2>1, <1>1 DEF ControllerInv, QueueExact
<1>5. SlotAccounting' /\ WorkConserving' /\ DriftBounded'
  BY <1>1, <1>3 DEF ControllerInv, SlotAccounting, WorkConserving, DriftBounded
<1> QED BY <1>1, <1>2, <1>4, <1>5 DEF ControllerInv

LEMMA AbandonQueuedStep ==
    ASSUME ControllerInv, NEW r \in Requests, AbandonQueued(r)
    PROVE  ControllerInv' /\ active' = active
<1>1. /\ pc[r] = "abandoning"
      /\ waiting' = waiting - 1
      /\ pc' = [pc EXCEPT ![r] = "idle"]
      /\ UNCHANGED <<limit, active, granted>>
  BY DEF AbandonQueued
<1>2. PICK i \in DOMAIN queue : queue[i] = r /\ queue' = RemoveAt(queue, i)
  BY DEF AbandonQueued
<1>3. queue \in Seq(Requests) /\ IsInjective(queue)
  BY DEF ControllerInv, ControllerTypeOK, QueueExact
<1>4. /\ queue' \in Seq(Requests)
      /\ Len(queue') = Len(queue) - 1
      /\ IsInjective(queue')
      /\ ToSet(queue') = ToSet(queue) \ {r}
  BY <1>2, <1>3, RemoveInjective
<1>5. r \in ToSet(queue)
  BY <1>2 DEF ToSet
<1>6. ControllerTypeOK'
  BY <1>1, <1>4 DEF ControllerInv, ControllerTypeOK
<1>7. QueueExact'
  <2>1. {x \in Requests : pc'[x] \in {"waiting", "abandoning"}}
          = {x \in Requests : pc[x] \in {"waiting", "abandoning"}} \ {r}
    BY <1>1 DEF ControllerInv, ControllerTypeOK
  <2> QED BY <2>1, <1>1, <1>4, <1>5 DEF ControllerInv, QueueExact
<1>8. SlotAccounting'
  <2>1. Holders' = Holders
    BY <1>1 DEF ControllerInv, ControllerTypeOK, Holders
  <2> QED BY <2>1, <1>1 DEF ControllerInv, SlotAccounting
<1>9. WorkConserving'
  <2>1. queue # <<>>
    BY <1>2, <1>3
  <2> QED BY <2>1, <1>1 DEF ControllerInv, WorkConserving
<1>10. DriftBounded'
  <2>1. Len(queue') - waiting' = Len(queue) - waiting
    BY <1>1, <1>3, <1>4 DEF ControllerInv, ControllerTypeOK
  <2> QED BY <2>1 DEF ControllerInv, DriftBounded
<1> QED BY <1>1, <1>6, <1>7, <1>8, <1>9, <1>10 DEF ControllerInv

LEMMA AbandonGrantedStep ==
    ASSUME ControllerInv, NEW r \in Requests, AbandonGranted(r)
    PROVE  ControllerInv' /\ (active' > active => active' =< limit')
<1> DEFINE w == IF waiting < 1 THEN 0 ELSE waiting - 1
<1>1. /\ pc[r] = "abandoning" /\ r \notin ToSet(queue)
      /\ pc' = [pc EXCEPT ![r] = "idle"]
      /\ limit' = limit
      /\ notifyLocked(limit, IF active < 1 THEN 0 ELSE active - 1, w, queue, granted \ {r})
  BY DEF AbandonGranted
<1>2. r \in granted /\ r \in Holders
  BY <1>1 DEF ControllerInv, QueueExact, Holders
<1>3. active > 0 /\ active - 1 = Cardinality(Holders \ {r})
  BY <1>2, OneLeaves
<1>4. notifyLocked(limit', Cardinality(Holders \ {r}), w, queue, granted \ {r})
  BY <1>1, <1>3 DEF ControllerInv, ControllerTypeOK
<1>5. w \in Int /\ Len(queue) - w \in 0..(Cardinality(Requests) - 1)
  <2>1. Len(queue) \in 0..(Cardinality(Requests) - 1)
    BY <1>1, QueueShorter
  <2>2. waiting \in Int /\ Len(queue) - waiting \in 0..(Cardinality(Requests) - 1)
    BY DEF ControllerInv, ControllerTypeOK, DriftBounded
  <2>3. Cardinality(Requests) \in Nat
    BY ControllerAssumption, FS_CardinalityType
  <2> QED BY <2>1, <2>2, <2>3
<1>6. /\ limit' \in Nat \ {0}
      /\ pc' = [x \in Requests |-> IF x \in {r} THEN "idle" ELSE pc[x]]
  BY <1>1 DEF ControllerInv, ControllerTypeOK
<1> HIDE DEF w
<1>7. ControllerInv' /\ (active' > Cardinality(Holders \ {r}) => active' =< limit')
  BY <1>2, <1>4, <1>5, <1>6, HandOver
<1>8. active' > active => active' > Cardinality(Holders \ {r})
  BY <1>3, <1>7 DEF ControllerInv, ControllerTypeOK
<1> QED BY <1>7, <1>8

LEMMA ReleaseStep ==
    ASSUME ControllerInv, NEW r \in Requests, Release(r)
    PROVE  ControllerInv' /\ (active' > active => active' =< limit')
<1>1. /\ pc[r] = "running"
      /\ pc' = [pc EXCEPT ![r] = "idle"]
      /\ limit' = limit
      /\ notifyLocked(limit, IF active > 0 THEN active - 1 ELSE active,
                      waiting, queue, granted)
  BY DEF Release
<1>2. r \in Holders /\ granted \ {r} = granted
  BY <1>1 DEF ControllerInv, QueueExact, Holders
<1>3. active > 0 /\ active - 1 = Cardinality(Holders \ {r})
  BY <1>2, OneLeaves
<1>4. notifyLocked(limit', Cardinality(Holders \ {r}), waiting, queue, granted \ {r})
  BY <1>1, <1>2, <1>3
<1>5. waiting \in Int /\ Len(queue) - waiting \in 0..(Cardinality(Requests) - 1)
  BY DEF ControllerInv, ControllerTypeOK, DriftBounded
<1>6. /\ limit' \in Nat \ {0}
      /\ pc' = [x \in Requests |-> IF x \in {r} THEN "idle" ELSE pc[x]]
  BY <1>1 DEF ControllerInv, ControllerTypeOK
<1>7. ControllerInv' /\ (active' > Cardinality(Holders \ {r}) => active' =< limit')
  BY <1>2, <1>4, <1>5, <1>6, HandOver
<1>8. active' > active => active' > Cardinality(Holders \ {r})
  BY <1>3, <1>7 DEF ControllerInv, ControllerTypeOK
<1> QED BY <1>7, <1>8

LEMMA SetLimitStep ==
    ASSUME ControllerInv, NEW n \in Int, SetLimit(n)
    PROVE  ControllerInv' /\ (active' > active => active' =< limit')
<1>1. /\ limit' = AtLeastOne(n)
      /\ pc' = pc
      /\ notifyLocked(AtLeastOne(n), active, waiting, queue, granted)
  BY DEF SetLimit
<1>2. limit' \in Nat \ {0}
  BY <1>1 DEF AtLeastOne
<1>3. active = Cardinality(Holders \ {}) /\ granted \ {} = granted
  <2>1. Holders \ {} = Holders
    OBVIOUS
  <2> QED BY <2>1 DEF ControllerInv, SlotAccounting
<1>4. notifyLocked(limit', Cardinality(Holders \ {}), waiting, queue, granted \ {})
  BY <1>1, <1>3
<1>5. waiting \in Int /\ Len(queue) - waiting \in 0..(Cardinality(Requests) - 1)
  BY DEF ControllerInv, ControllerTypeOK, DriftBounded
<1>6. pc' = [x \in Requests |-> IF x \in {} THEN "idle" ELSE pc[x]]
  BY <1>1 DEF ControllerInv, ControllerTypeOK
<1>7. ControllerInv' /\ (active' > Cardinality(Holders \ {}) => active' =< limit')
  BY <1>2, <1>4, <1>5, <1>6, HandOver
<1> QED BY <1>3, <1>7

-----------------------------------------------------------------------------
(* Every step preserves the invariant, and hands out slots within the      *)
(* limit only.                                                             *)
LEMMA NextInv ==
    ASSUME ControllerInv, [ControllerNext]_controllerVars
    PROVE  ControllerInv' /\ (active' > active => active' =< limit')
<1>1. active \in Nat
  BY DEF ControllerInv, ControllerTypeOK
<1>2. ASSUME NEW r \in Requests, RequestStep(r)
      PROVE  ControllerInv' /\ (active' > active => active' =< limit')
  <2>1. CASE AcquireFast(r)
    BY <2>1, AcquireFastStep
  <2>2. CASE AcquireEnqueue(r)
    <3>1. active' = active
      BY <2>2 DEF AcquireEnqueue
    <3> QED BY <2>2, <3>1, <1>1, AcquireEnqueueStep
  <2>3. CASE ReceiveGrant(r)
    BY <2>3, <1>1, ReceiveGrantStep
  <2>4. CASE ContextDone(r)
    BY <2>4, <1>1, ContextDoneStep
  <2>5. CASE AbandonQueued(r)
    BY <2>5, <1>1, AbandonQueuedStep
  <2>6. CASE AbandonGranted(r)
    BY <2>6, AbandonGrantedStep
  <2>7. CASE Release(r)
    BY <2>7, ReleaseStep
  <2> QED BY <1>2, <2>1, <2>2, <2>3, <2>4, <2>5, <2>6, <2>7 DEF RequestStep
<1>3. ASSUME NEW n \in LimitInputs, SetLimit(n)
      PROVE  ControllerInv' /\ (active' > active => active' =< limit')
  BY <1>3, SetLimitStep, ControllerAssumption
<1>4. CASE UNCHANGED controllerVars
  <2>1. ControllerInv'
    BY <1>4 DEF controllerVars, ControllerInv, ControllerTypeOK, QueueExact,
                SlotAccounting, WorkConserving, DriftBounded, Holders
  <2>2. active' = active
    BY <1>4 DEF controllerVars
  <2> QED BY <2>1, <2>2, <1>1
<1> QED BY <1>2, <1>3, <1>4 DEF ControllerNext

(* The invariant holds in every reachable state.                           *)
THEOREM ControllerInvariant == ControllerSpec => []ControllerInv
<1>1. ControllerInit => ControllerInv
  BY InitInv
<1>2. ControllerInv /\ [ControllerNext]_controllerVars => ControllerInv'
  BY NextInv
<1> QED BY <1>1, <1>2, PTL DEF ControllerSpec

(* The variables keep their types: in particular active never goes below 0 *)
(* and the limit never below 1, whatever SetLimit is called with.          *)
THEOREM ControllerTypeCorrect == ControllerSpec => []ControllerTypeOK
<1>1. ControllerInv => ControllerTypeOK
  BY DEF ControllerInv
<1> QED BY <1>1, ControllerInvariant, PTL

(* No path of Acquire, abandon and Release leaks a slot or frees one twice. *)
THEOREM SlotsNeverLeak == ControllerSpec => []SlotAccounting
<1>1. ControllerInv => SlotAccounting
  BY DEF ControllerInv
<1> QED BY <1>1, ControllerInvariant, PTL

(* The queue and the channels agree with what each request is doing; no    *)
(* channel is sent a second token, so notifyLocked never blocks in a send. *)
THEOREM QueueAlwaysExact == ControllerSpec => []QueueExact
<1>1. ControllerInv => QueueExact
  BY DEF ControllerInv
<1> QED BY <1>1, ControllerInvariant, PTL

(* Nobody waits beside a free slot.                                        *)
THEOREM AlwaysWorkConserving == ControllerSpec => []WorkConserving
<1>1. ControllerInv => WorkConserving
  BY DEF ControllerInv
<1> QED BY <1>1, ControllerInvariant, PTL

(* The waiting counter undercounts by less than the number of requests.    *)
THEOREM DriftAlwaysBounded == ControllerSpec => []DriftBounded
<1>1. ControllerInv => DriftBounded
  BY DEF ControllerInv
<1> QED BY <1>1, ControllerInvariant, PTL

(* Slots are only handed out within the limit of the moment.               *)
THEOREM NeverOverAdmits == ControllerSpec => NoOverAdmission
<1>1. ControllerInv /\ [ControllerNext]_controllerVars
        => [active' > active => active' =< limit']_controllerVars
  BY NextInv
<1> QED BY <1>1, ControllerInvariant, PTL DEF ControllerSpec, NoOverAdmission

(* A newcomer is admitted at once only when nobody is queued.              *)
THEOREM NobodyBarges == ControllerSpec => NoBarging
<1> DEFINE A == \A r \in Requests :
                    pc[r] = "idle" /\ pc'[r] = "running" => queue = <<>>
<1>1. ControllerInv /\ [ControllerNext]_controllerVars => [A]_controllerVars
  <2> SUFFICES ASSUME ControllerInv, ControllerNext, NEW r \in Requests,
                      pc[r] = "idle", pc'[r] = "running"
               PROVE  queue = <<>>
    OBVIOUS
  <2>1. pc \in [Requests -> {"idle", "waiting", "abandoning", "running"}]
    BY DEF ControllerInv, ControllerTypeOK
  <2>2. ASSUME NEW x \in Requests, RequestStep(x) PROVE AcquireFast(x)
    BY <2>1, <2>2 DEF RequestStep, AcquireEnqueue, ReceiveGrant, ContextDone,
                      AbandonQueued, AbandonGranted, Release
  <2>3. ASSUME NEW n \in LimitInputs, SetLimit(n) PROVE FALSE
    BY <2>3 DEF SetLimit
  <2>4. active < limit
    BY <2>2, <2>3 DEF ControllerNext, AcquireFast
  <2> QED BY <2>4 DEF ControllerInv, ControllerTypeOK, WorkConserving
<1> QED BY <1>1, ControllerInvariant, PTL DEF ControllerSpec, NoBarging

-----------------------------------------------------------------------------
(* The queue is served in order.                                           *)

(***************************************************************************)
(* Who stays in the queue does not fall back in it, and who is served is   *)
(* not served before anybody ahead.                                        *)
(***************************************************************************)
OrderKept ==
    \A i \in DOMAIN queue :
        /\ queue[i] \in ToSet(queue') =>
             \E j \in DOMAIN queue' : j =< i /\ queue'[j] = queue[i]
        /\ queue[i] \in granted' => \A h \in 1..i : queue[h] \in granted'

(* notifyLocked serves a prefix of the queue.                              *)
LEMMA NotifyKeepsOrder ==
    ASSUME queue \in Seq(Requests), IsInjective(queue),
           NEW g \in SUBSET Requests, ToSet(queue) \cap g = {},
           NEW l \in Nat, NEW a \in Nat, NEW w \in Int,
           notifyLocked(l, a, w, queue, g)
    PROVE  OrderKept
<1> DEFINE k == Eligible(l, a, queue)
<1>1. k \in 0..Len(queue) /\ Len(queue) \in Nat /\ DOMAIN queue = 1..Len(queue)
  BY DEF Eligible
<1>2. /\ queue' = SubSeq(queue, k + 1, Len(queue))
      /\ granted' = g \cup ToSet(SubSeq(queue, 1, k))
  BY DEF notifyLocked
<1> HIDE DEF k
<1>3. /\ DOMAIN queue' = 1..(Len(queue) - k)
      /\ \A j \in 1..(Len(queue) - k) : queue'[j] = queue[j + k]
  BY <1>1, <1>2, SubSeqProperties
<1>4. ToSet(SubSeq(queue, 1, k)) = {queue[h] : h \in 1..k}
  <2>1. /\ DOMAIN SubSeq(queue, 1, k) = 1..k
        /\ \A h \in 1..k : SubSeq(queue, 1, k)[h] = queue[h]
    BY <1>1, SubSeqProperties
  <2> QED BY <2>1 DEF ToSet
<1>5. ASSUME NEW i \in 1..Len(queue), queue[i] \in ToSet(queue')
      PROVE  \E j \in DOMAIN queue' : j =< i /\ queue'[j] = queue[i]
  <2>1. PICK j \in DOMAIN queue' : queue'[j] = queue[i]
    BY <1>5 DEF ToSet
  <2>2. j \in 1..(Len(queue) - k) /\ j + k \in DOMAIN queue /\ queue[j + k] = queue[i]
    BY <1>1, <1>3, <2>1
  <2>3. j + k = i
    BY <1>1, <2>2 DEF IsInjective
  <2> QED BY <1>1, <2>1, <2>2, <2>3
<1>6. ASSUME NEW i \in 1..Len(queue), queue[i] \in granted', NEW h \in 1..i
      PROVE  queue[h] \in granted'
  <2>1. queue[i] \notin g
    BY <1>1 DEF ToSet
  <2>2. PICK b \in 1..k : queue[i] = queue[b]
    BY <1>2, <1>4, <1>6, <2>1
  <2>3. i = b
    BY <1>1, <2>2 DEF IsInjective
  <2>4. h \in 1..k
    BY <1>1, <2>3
  <2> QED BY <1>2, <1>4, <2>4
<1> QED BY <1>1, <1>5, <1>6 DEF OrderKept

LEMMA OrderStep ==
    ASSUME ControllerInv, ControllerNext
    PROVE  OrderKept
<1>1. /\ queue \in Seq(Requests) /\ IsInjective(queue) /\ granted \in SUBSET Requests
      /\ ToSet(queue) \cap granted = {}
      /\ limit \in Nat /\ active \in Nat /\ waiting \in Int
      /\ DOMAIN queue = 1..Len(queue) /\ Len(queue) \in Nat
  BY DEF ControllerInv, ControllerTypeOK, QueueExact
<1>2. ASSUME granted' \subseteq granted,
             \A i \in DOMAIN queue : queue[i] \in ToSet(queue') =>
                \E j \in DOMAIN queue' : j =< i /\ queue'[j] = queue[i]
      PROVE  OrderKept
  BY <1>1, <1>2 DEF OrderKept, ToSet
<1>3. ASSUME NEW r \in Requests,
             AcquireFast(r) \/ ReceiveGrant(r) \/ ContextDone(r)
      PROVE  OrderKept
  <2>1. queue' = queue /\ granted' \subseteq granted
    BY <1>3 DEF AcquireFast, ReceiveGrant, ContextDone
  <2> QED BY <1>1, <1>2, <2>1
<1>4. ASSUME NEW r \in Requests, AcquireEnqueue(r) PROVE OrderKept
  <2>1. queue' = Append(queue, r) /\ granted' = granted
    BY <1>4 DEF AcquireEnqueue
  <2>2. \A i \in DOMAIN queue : i \in DOMAIN queue' /\ queue'[i] = queue[i]
    BY <1>1, <2>1
  <2> QED BY <1>1, <1>2, <2>1, <2>2
<1>5. ASSUME NEW r \in Requests, AbandonQueued(r) PROVE OrderKept
  <2>1. PICK m \in DOMAIN queue : queue' = RemoveAt(queue, m)
    BY <1>5 DEF AbandonQueued
  <2>2. /\ Len(queue') = Len(queue) - 1 /\ queue' \in Seq(Requests)
        /\ ToSet(queue') = ToSet(queue) \ {queue[m]}
        /\ \A j \in 1..(Len(queue) - 1) : queue'[j] = queue[IF j < m THEN j ELSE j + 1]
    BY <1>1, <2>1, RemoveInjective
  <2>3. DOMAIN queue' = 1..(Len(queue) - 1)
    BY <2>2
  <2>4. ASSUME NEW i \in DOMAIN queue, queue[i] \in ToSet(queue')
        PROVE  \E j \in DOMAIN queue' : j =< i /\ queue'[j] = queue[i]
    <3>1. i # m /\ i \in 1..Len(queue) /\ m \in 1..Len(queue)
      BY <1>1, <2>2, <2>4
    <3>2. CASE i < m
      BY <1>1, <2>2, <2>3, <3>1, <3>2
    <3>3. CASE i > m
      <4>1. i - 1 \in 1..(Len(queue) - 1) /\ ~ (i - 1 < m) /\ (i - 1) + 1 = i /\ i - 1 =< i
        BY <1>1, <3>1, <3>3
      <4>2. queue'[i - 1] = queue[i]
        BY <2>2, <4>1
      <4> QED BY <2>3, <4>1, <4>2
    <3> QED BY <1>1, <3>1, <3>2, <3>3
  <2>5. granted' = granted
    BY <1>5 DEF AbandonQueued
  <2> QED BY <1>2, <2>4, <2>5
<1>6. ASSUME NEW r \in Requests, AbandonGranted(r) PROVE OrderKept
  <2>1. notifyLocked(limit, IF active < 1 THEN 0 ELSE active - 1,
                     IF waiting < 1 THEN 0 ELSE waiting - 1, queue, granted \ {r})
    BY <1>6 DEF AbandonGranted
  <2>2. /\ (IF active < 1 THEN 0 ELSE active - 1) \in Nat
        /\ (IF waiting < 1 THEN 0 ELSE waiting - 1) \in Int
        /\ granted \ {r} \in SUBSET Requests /\ ToSet(queue) \cap (granted \ {r}) = {}
    BY <1>1
  <2> QED BY <1>1, <2>1, <2>2, NotifyKeepsOrder
<1>7. ASSUME NEW r \in Requests, Release(r) PROVE OrderKept
  <2>1. notifyLocked(limit, IF active > 0 THEN active - 1 ELSE active, waiting, queue, granted)
    BY <1>7 DEF Release
  <2>2. (IF active > 0 THEN active - 1 ELSE active) \in Nat
    BY <1>1
  <2> QED BY <1>1, <2>1, <2>2, NotifyKeepsOrder
<1>8. ASSUME NEW n \in LimitInputs, SetLimit(n) PROVE OrderKept
  <2>1. notifyLocked(AtLeastOne(n), active, waiting, queue, granted)
    BY <1>8 DEF SetLimit
  <2>2. AtLeastOne(n) \in Nat
    BY ControllerAssumption DEF AtLeastOne
  <2> QED BY <1>1, <2>1, <2>2, NotifyKeepsOrder
<1> QED BY <1>3, <1>4, <1>5, <1>6, <1>7, <1>8 DEF ControllerNext, RequestStep

(***************************************************************************)
(* Whatever wakes waiters (Release, abandon, SetLimit) and whoever gives   *)
(* up, nobody falls back in the queue or is passed in it: the part of      *)
(* NoStarvation that needs no fairness.                                    *)
(***************************************************************************)
THEOREM ServedInOrder == ControllerSpec => [][OrderKept]_controllerVars
<1>1. ControllerInv /\ [ControllerNext]_controllerVars => [OrderKept]_controllerVars
  BY OrderStep
<1> QED BY <1>1, ControllerInvariant, PTL DEF ControllerSpec

-----------------------------------------------------------------------------
(***************************************************************************)
(* The controller implements the gate: it never admits beyond the limit,   *)
(* never leaves a waiter beside room, and serves in order of arrival,      *)
(* whatever its counters and channels go through.                          *)
(***************************************************************************)

(* The gate's module brings the library operators under names of its own.  *)
LEMMA SameOperators ==
    /\ \A S : Gate!Cardinality(S) = Cardinality(S)
    /\ \A s : Gate!ToSet(s) = ToSet(s)
    /\ \A s, i : Gate!RemoveAt(s, i) = RemoveAt(s, i)
<1>1. \A S : Gate!Cardinality(S) = Cardinality(S)
  BY DEF Gate!Cardinality, Cardinality
<1>2. \A s : Gate!ToSet(s) = ToSet(s)
  BY DEF Gate!ToSet, ToSet
<1>3. \A s, i : Gate!RemoveAt(s, i) = RemoveAt(s, i)
  BY DEF Gate!RemoveAt, RemoveAt
<1> QED BY <1>1, <1>2, <1>3

(***************************************************************************)
(* One run of notifyLocked, after the holders D have left, is one Serve of *)
(* the gate: it moves a prefix of the line inside, within the limit, and   *)
(* stops only at the limit.                                                *)
(***************************************************************************)
LEMMA NotifyServes ==
    ASSUME ControllerInv, ControllerInv',
           NEW D \in SUBSET Holders, NEW w \in Int,
           pc' = [x \in Requests |-> IF x \in D THEN "idle" ELSE pc[x]],
           notifyLocked(limit', Cardinality(Holders \ D), w, queue, granted \ D)
    PROVE  Gate!Serve(Holders \ D, queue, limit')
<1> DEFINE h == Holders \ D
           k == Eligible(limit', Cardinality(h), queue)
<1>1. /\ Len(queue) \in Nat
      /\ limit' \in Nat
      /\ Cardinality(h) \in Nat
  BY HoldersFacts, FS_Subset, FS_CardinalityType DEF ControllerInv, ControllerTypeOK
<1>2. k \in 0..Len(queue) /\ (k > 0 => Cardinality(h) + k =< limit')
  BY <1>1 DEF Eligible
<1>3. /\ active' = Cardinality(h) + k
      /\ queue' = SubSeq(queue, k + 1, Len(queue))
      /\ granted' = (granted \ D) \cup ToSet(SubSeq(queue, 1, k))
  BY DEF notifyLocked
<1>4. Holders' = h \cup ToSet(SubSeq(queue, 1, k))
  <2>1. {r \in Requests : pc'[r] = "running"} = {r \in Requests : pc[r] = "running"} \ D
    OBVIOUS
  <2>2. Holders' = ({r \in Requests : pc[r] = "running"} \ D) \cup granted'
    BY <2>1 DEF Holders
  <2> QED BY <1>3, <2>2 DEF Holders
<1>5. active' = Cardinality(Holders')
  BY DEF ControllerInv, SlotAccounting
<1>6. queue' # <<>> => Cardinality(Holders') >= limit'
  BY <1>5 DEF ControllerInv, WorkConserving
<1> HIDE DEF k
<1> QED BY <1>2, <1>3, <1>4, <1>5, <1>6, SameOperators DEF Gate!Serve

-----------------------------------------------------------------------------
(* Each action of the controller is a step of the gate, or invisible.      *)

LEMMA AcquireFastEnters ==
    ASSUME ControllerInv, NEW r \in Requests, AcquireFast(r)
    PROVE  Gate!Enter(r)
<1>1. /\ pc[r] = "idle" /\ active < limit /\ active' = active + 1 /\ limit' = limit
      /\ pc' = [pc EXCEPT ![r] = "running"] /\ granted' = granted /\ queue' = queue
  BY DEF AcquireFast
<1>2. queue = <<>>
  BY <1>1 DEF ControllerInv, ControllerTypeOK, WorkConserving
<1>3. r \notin Holders \cup ToSet(queue)
  BY <1>1 DEF ControllerInv, QueueExact, Holders
<1>4. Holders' = Holders \cup {r}
  BY <1>1 DEF ControllerInv, ControllerTypeOK, Holders
<1>5. Append(queue, r) = <<r>> /\ Len(<<r>>) = 1
  BY <1>2
<1>6. /\ SubSeq(<<r>>, 1, 1) = <<r>> /\ SubSeq(<<r>>, 1 + 1, Len(<<r>>)) = <<>>
      /\ ToSet(<<r>>) = {r}
  <2>1. DOMAIN <<r>> = {1} /\ <<r>>[1] = r
    OBVIOUS
  <2>2. ToSet(<<r>>) = {r}
    BY <2>1 DEF ToSet
  <2>3. SubSeq(<<r>>, 1, 1) = <<r>>
    <3>1. <<r>> \in Seq(Requests) /\ Len(<<r>>) = 1
      OBVIOUS
    <3>2. \A q \in Seq(Requests) : Len(q) = 1 => SubSeq(q, 1, 1) = q
      OBVIOUS
    <3> QED BY <3>1, <3>2
  <2>4. Len(<<r>>) = 1 /\ SubSeq(<<r>>, 2, 1) = <<>>
    BY SubSeqEmpty
  <2> QED BY <2>2, <2>3, <2>4
<1>7. Cardinality(Holders') =< limit
  <2>1. Cardinality(Holders') = Cardinality(Holders) + 1
    BY <1>3, <1>4, HoldersFacts, FS_AddElement DEF ControllerInv
  <2> QED BY <1>1, <2>1 DEF ControllerInv, ControllerTypeOK, SlotAccounting
<1>8. Gate!Serve(Holders, <<r>>, limit)
  <2>1. 1 \in 0..Len(<<r>>)
    OBVIOUS
  <2>2. /\ Holders' = Holders \cup ToSet(SubSeq(<<r>>, 1, 1))
        /\ queue' = SubSeq(<<r>>, 1 + 1, Len(<<r>>))
    BY <1>1, <1>2, <1>4, <1>6
  <2> QED BY <1>1, <1>2, <1>7, <2>1, <2>2, SameOperators DEF Gate!Serve
<1> QED BY <1>3, <1>5, <1>8, SameOperators DEF Gate!Enter

LEMMA AcquireEnqueueEnters ==
    ASSUME ControllerInv, NEW r \in Requests, AcquireEnqueue(r)
    PROVE  Gate!Enter(r)
<1>1. /\ pc[r] = "idle" /\ active >= limit /\ limit' = limit
      /\ pc' = [pc EXCEPT ![r] = "waiting"] /\ granted' = granted
      /\ queue' = Append(queue, r)
  BY DEF AcquireEnqueue
<1>2. r \notin Holders \cup ToSet(queue)
  BY <1>1 DEF ControllerInv, QueueExact, Holders
<1>3. Holders' = Holders
  BY <1>1 DEF ControllerInv, ControllerTypeOK, Holders
<1>4. queue' \in Seq(Requests) /\ Len(queue') \in Nat
  BY <1>1, AppendProperties DEF ControllerInv, ControllerTypeOK
<1>5. SubSeq(queue', 0 + 1, Len(queue')) = queue' /\ ToSet(SubSeq(queue', 1, 0)) = {}
  BY <1>4 DEF ToSet
<1>6. Cardinality(Holders) >= limit
  BY <1>1 DEF ControllerInv, SlotAccounting
<1>7. Gate!Serve(Holders, queue', limit)
  <2>1. 0 \in 0..Len(queue') /\ Holders' = Holders \cup {}
    BY <1>3, <1>4
  <2> QED BY <1>1, <1>3, <1>5, <1>6, <2>1, SameOperators DEF Gate!Serve
<1> QED BY <1>1, <1>2, <1>7, SameOperators DEF Gate!Enter

(* Taking a token, and a context that ends, cannot be seen from outside.   *)
LEMMA SelectIsInvisible ==
    ASSUME ControllerInv, NEW r \in Requests, ReceiveGrant(r) \/ ContextDone(r)
    PROVE  UNCHANGED <<limit, Holders, queue>>
<1>1. CASE ReceiveGrant(r)
  BY <1>1 DEF ReceiveGrant, ControllerInv, ControllerTypeOK, Holders
<1>2. CASE ContextDone(r)
  BY <1>2 DEF ContextDone, ControllerInv, ControllerTypeOK, Holders
<1> QED BY <1>1, <1>2

LEMMA AbandonQueuedGivesUp ==
    ASSUME ControllerInv, NEW r \in Requests, AbandonQueued(r)
    PROVE  Gate!GiveUp(r)
<1>1. Holders' = Holders
  BY DEF AbandonQueued, ControllerInv, ControllerTypeOK, Holders
<1> QED BY <1>1, SameOperators DEF AbandonQueued, Gate!GiveUp

(* A slot granted to somebody who leaves is given back all the same.       *)
LEMMA AbandonGrantedDeparts ==
    ASSUME ControllerInv, ControllerInv', NEW r \in Requests, AbandonGranted(r)
    PROVE  Gate!Depart(r)
<1> DEFINE w == IF waiting < 1 THEN 0 ELSE waiting - 1
<1>1. /\ pc[r] = "abandoning" /\ r \notin ToSet(queue)
      /\ pc' = [pc EXCEPT ![r] = "idle"]
      /\ notifyLocked(limit, IF active < 1 THEN 0 ELSE active - 1, w, queue, granted \ {r})
      /\ limit' = limit
  BY DEF AbandonGranted
<1>2. r \in Holders
  BY <1>1 DEF ControllerInv, QueueExact, Holders
<1>3. (IF active < 1 THEN 0 ELSE active - 1) = Cardinality(Holders \ {r})
  BY <1>2, OneLeaves DEF ControllerInv, ControllerTypeOK
<1>4. pc' = [x \in Requests |-> IF x \in {r} THEN "idle" ELSE pc[x]]
  BY <1>1 DEF ControllerInv, ControllerTypeOK
<1>5. w \in Int
  BY DEF ControllerInv, ControllerTypeOK
<1>6. notifyLocked(limit', Cardinality(Holders \ {r}), w, queue, granted \ {r})
  BY <1>1, <1>3
<1> HIDE DEF w
<1>7. Gate!Serve(Holders \ {r}, queue, limit')
  BY <1>2, <1>4, <1>5, <1>6, NotifyServes
<1> QED BY <1>1, <1>2, <1>7 DEF Gate!Depart

LEMMA ReleaseDeparts ==
    ASSUME ControllerInv, ControllerInv', NEW r \in Requests, Release(r)
    PROVE  Gate!Depart(r)
<1>1. /\ pc[r] = "running"
      /\ pc' = [pc EXCEPT ![r] = "idle"]
      /\ limit' = limit
      /\ notifyLocked(limit, IF active > 0 THEN active - 1 ELSE active,
                      waiting, queue, granted)
  BY DEF Release
<1>2. r \in Holders /\ granted \ {r} = granted
  BY <1>1 DEF ControllerInv, QueueExact, Holders
<1>3. (IF active > 0 THEN active - 1 ELSE active) = Cardinality(Holders \ {r})
  BY <1>2, OneLeaves DEF ControllerInv, ControllerTypeOK
<1>4. pc' = [x \in Requests |-> IF x \in {r} THEN "idle" ELSE pc[x]]
  BY <1>1 DEF ControllerInv, ControllerTypeOK
<1>5. notifyLocked(limit', Cardinality(Holders \ {r}), waiting, queue, granted \ {r})
  BY <1>1, <1>2, <1>3
<1>6. Gate!Serve(Holders \ {r}, queue, limit')
  BY <1>2, <1>4, <1>5, NotifyServes DEF ControllerInv, ControllerTypeOK
<1> QED BY <1>1, <1>2, <1>6 DEF Gate!Depart

LEMMA SetLimitResizes ==
    ASSUME ControllerInv, ControllerInv', NEW n \in Int, SetLimit(n)
    PROVE  Gate!Resize(AtLeastOne(n))
<1>1. /\ limit' = AtLeastOne(n) /\ pc' = pc
      /\ notifyLocked(AtLeastOne(n), active, waiting, queue, granted)
  BY DEF SetLimit
<1>2. Holders \ {} = Holders /\ granted \ {} = granted /\ active = Cardinality(Holders)
  BY DEF ControllerInv, SlotAccounting
<1>3. pc' = [x \in Requests |-> IF x \in {} THEN "idle" ELSE pc[x]]
  BY <1>1 DEF ControllerInv, ControllerTypeOK
<1>4. notifyLocked(limit', Cardinality(Holders \ {}), waiting, queue, granted \ {})
  BY <1>1, <1>2
<1>5. Gate!Serve(Holders \ {}, queue, limit')
  BY <1>3, <1>4, NotifyServes DEF ControllerInv, ControllerTypeOK
<1> QED BY <1>1, <1>2, <1>5 DEF Gate!Resize

-----------------------------------------------------------------------------
LEMMA ControllerStepsGate ==
    ASSUME ControllerInv, ControllerInv', [ControllerNext]_controllerVars
    PROVE  [Gate!GateNext]_(Gate!gateVars)
<1>1. ASSUME NEW r \in Requests, RequestStep(r)
      PROVE  \/ Gate!Enter(r) \/ Gate!Depart(r) \/ Gate!GiveUp(r)
             \/ UNCHANGED <<limit, Holders, queue>>
  BY <1>1, AcquireFastEnters, AcquireEnqueueEnters, SelectIsInvisible,
     AbandonQueuedGivesUp, AbandonGrantedDeparts, ReleaseDeparts DEF RequestStep
<1>2. ASSUME NEW n \in LimitInputs, SetLimit(n)
      PROVE  Gate!Resize(AtLeastOne(n))
  BY <1>2, SetLimitResizes, ControllerAssumption
<1>3. CASE UNCHANGED controllerVars
  BY <1>3 DEF controllerVars, Holders, Gate!gateVars
<1> QED BY <1>1, <1>2, <1>3 DEF ControllerNext, Gate!GateNext, Gate!gateVars

(* Every behaviour of the controller is one of the gate: what callers of an*)
(* AdmissionStrategy rely on, without a word about counters, channels or   *)
(* abandoned grants.                                                       *)
THEOREM ControllerImplementsGate == ControllerSpec => Gate!GateSpec
<1>1. ControllerInit => Gate!GateInit
  <2> SUFFICES ASSUME ControllerInit PROVE Gate!GateInit
    OBVIOUS
  <2>1. limit \in {AtLeastOne(n) : n \in LimitInputs \cup {InitialLimit}}
    BY DEF ControllerInit
  <2>2. Holders = {} /\ queue = <<>>
    BY DEF ControllerInit, Holders
  <2> QED BY <2>1, <2>2 DEF Gate!GateInit
<1>2. ControllerInv /\ ControllerInv' /\ [ControllerNext]_controllerVars
        => [Gate!GateNext]_(Gate!gateVars)
  BY ControllerStepsGate
<1> QED BY <1>1, <1>2, ControllerInvariant, PTL DEF ControllerSpec, Gate!GateSpec
=============================================================================
