--------------------------- MODULE DecisionProofs ---------------------------
(***************************************************************************)
(* What the controller service decides is safe and reasonable for every    *)
(* cost function, whatever the bounds, the grid and the threshold are.     *)
(***************************************************************************)
EXTENDS DecisionCycle, WellFoundedInduction, TLAPS

-----------------------------------------------------------------------------
(* Least elements.  What would be an induction is done by looking at the   *)
(* least number at which the claim fails.                                  *)

LEMMA LeastNatural ==
    ASSUME NEW T \in SUBSET Nat, T # {}
    PROVE  \E x \in T : \A y \in T : x =< y
<1>1. PICK x \in T : \A y \in T : ~ (<<y, x>> \in OpToRel(<, Nat))
  BY NatLessThanWellFounded, WFMin
<1>2. \A y \in T : ~ (y < x)
  BY <1>1 DEF OpToRel
<1> QED BY <1>2

(* A set of integers with a lower bound has a least element.               *)
LEMMA LeastInteger ==
    ASSUME NEW T \in SUBSET Int, T # {}, NEW low \in Int, \A x \in T : low =< x
    PROVE  \E x \in T : \A y \in T : x =< y
<1> DEFINE U == {n \in Nat : n + low \in T}
<1>1. U # {}
  <2>1. PICK x \in T : TRUE
    OBVIOUS
  <2>2. x - low \in Nat /\ (x - low) + low = x
    BY <2>1
  <2> QED BY <2>2
<1>2. PICK n \in U : \A k \in U : n =< k
  BY <1>1, LeastNatural
<1>3. ASSUME NEW y \in T PROVE n + low =< y
  <2>1. y - low \in Nat /\ (y - low) + low = y
    BY <1>3
  <2>2. n =< y - low
    BY <1>2, <2>1
  <2> QED BY <2>2, <1>2
<1> QED BY <1>2, <1>3

LEMMA MinFacts ==
    ASSUME NEW T \in SUBSET Nat, T # {}
    PROVE  Min(T) \in T /\ \A y \in T : Min(T) =< y
BY LeastNatural DEF Min

LEMMA MinOfTwo ==
    ASSUME NEW a \in Int, NEW b \in Int
    PROVE  Min({a, b}) = IF a =< b THEN a ELSE b
<1>1. Min({a, b}) \in {a, b} /\ \A y \in {a, b} : Min({a, b}) =< y
  <2>1. \E x \in {a, b} : \A y \in {a, b} : x =< y
    OBVIOUS
  <2> QED BY <2>1 DEF Min
<1> QED BY <1>1

LEMMA MaxOfTwo ==
    ASSUME NEW a \in Int, NEW b \in Int
    PROVE  Max({a, b}) = IF a >= b THEN a ELSE b
<1>1. Max({a, b}) \in {a, b} /\ \A y \in {a, b} : Max({a, b}) >= y
  <2>1. \E x \in {a, b} : \A y \in {a, b} : x >= y
    OBVIOUS
  <2> QED BY <2>1 DEF Max
<1> QED BY <1>1

(* Finitely many positions: one of them has the least value.               *)
LEMMA LeastValue ==
    ASSUME NEW n \in Nat, NEW S \in SUBSET (1..n), S # {},
           NEW v, \A i \in S : v[i] \in Int
    PROVE  \E i \in S : \A j \in S : v[i] =< v[j]
<1> DEFINE Upto(m) == S \cap (1..m)
           Has(m) == \E i \in Upto(m) : \A j \in Upto(m) : v[i] =< v[j]
           T == {m \in 1..n : Upto(m) # {} /\ ~Has(m)}
<1>1. T = {}
  <2> SUFFICES ASSUME T # {} PROVE FALSE
    OBVIOUS
  <2>0. T \in SUBSET Nat
    OBVIOUS
  <2>1. PICK m \in T : \A k \in T : m =< k
    BY <2>0, LeastNatural
  <2>2. m \in 1..n /\ Upto(m) # {} /\ ~Has(m)
    BY <2>1
  <2>3. m - 1 \notin T
    BY <2>1, <2>2
  <2>4. Upto(m - 1) # {} => m - 1 \in 1..n
    BY <2>2
  <2>5. Upto(m - 1) # {} => Has(m - 1)
    BY <2>3, <2>4
  <2>6. Upto(m) = Upto(m - 1) \cup (S \cap {m})
    <3>1. m \in Nat /\ m >= 1
      BY <2>2
    <3> HIDE DEF T, Upto
    <3>2. 1..m = (1..(m - 1)) \cup {m}
      BY <3>1
    <3> QED BY <3>2 DEF Upto
  <2>7. m \in S
    <3> SUFFICES ASSUME m \notin S PROVE FALSE
      OBVIOUS
    <3>1. Upto(m) = Upto(m - 1)
      BY <2>6
    <3> HIDE DEF Upto
    <3> QED BY <2>2, <2>5, <3>1
  <2>8. Upto(m) = Upto(m - 1) \cup {m}
    BY <2>6, <2>7
  <2>9. v[m] \in Int /\ \A j \in Upto(m - 1) : v[j] \in Int
    BY <2>7
  <2> HIDE DEF Upto, T
  <2>10. CASE Upto(m - 1) = {}
    BY <2>2, <2>8, <2>9, <2>10
  <2>11. CASE Upto(m - 1) # {}
    <3>1. PICK i \in Upto(m - 1) : \A j \in Upto(m - 1) : v[i] =< v[j]
      BY <2>5, <2>11
    <3>2. CASE v[i] =< v[m]
      BY <2>2, <2>8, <2>9, <3>1, <3>2
    <3>3. CASE v[m] < v[i]
      BY <2>2, <2>8, <2>9, <3>1, <3>3
    <3> QED BY <2>9, <3>1, <3>2, <3>3
  <2> QED BY <2>10, <2>11
<1>2. Upto(n) = S
  OBVIOUS
<1>3. n \in 1..n
  BY <1>2
<1>4. Has(n)
  BY <1>1, <1>2, <1>3
<1> QED BY <1>2, <1>4

-----------------------------------------------------------------------------
(* The grid.                                                               *)

(* A number lies less than a step above some multiple of the step.         *)
LEMMA DivFacts ==
    ASSUME NEW x \in Nat, NEW s \in Nat \ {0}
    PROVE  x \div s \in Nat /\ (x \div s) * s =< x /\ x < (x \div s) * s + s
OBVIOUS

LEMMA SteppingFacts ==
    ASSUME NEW first \in Int, NEW stop \in Int
    PROVE  \E n \in Nat :
              /\ DOMAIN Stepping(first, stop, GridStep) = 1..n
              /\ Stepping(first, stop, GridStep) \in [1..n -> first..(stop - 1)]
              /\ Stepping(first, stop, GridStep) = [i \in 1..n |-> first + (i - 1) * GridStep]
              /\ stop > first => n > (stop - first - 1) \div GridStep
<1> DEFINE q == (stop - first - 1) \div GridStep
           n == IF stop > first THEN q + 1 ELSE 0
<1>1. GridStep \in Nat \ {0}
  BY DecisionAssumption
<1>2. n \in Nat /\ (stop > first => q \in Nat /\ q * GridStep =< stop - first - 1)
  BY <1>1, DivFacts
<1>3. Stepping(first, stop, GridStep) = [i \in 1..n |-> first + (i - 1) * GridStep]
  BY DEF Stepping
<1>4. ASSUME NEW i \in 1..n PROVE first + (i - 1) * GridStep \in first..(stop - 1)
  <2>1. stop > first /\ i - 1 \in 0..q /\ q \in Nat
    BY <1>2
  <2>2. (i - 1) * GridStep \in Nat /\ (i - 1) * GridStep =< q * GridStep
    <3>1. i - 1 \in Nat /\ q - (i - 1) \in Nat
      BY <2>1
    <3>2. (i - 1) * GridStep \in Nat /\ (q - (i - 1)) * GridStep \in Nat
      BY <1>1, <3>1
    <3>3. (q - (i - 1)) * GridStep = q * GridStep - (i - 1) * GridStep
      BY <1>1, <3>1, <2>1
    <3> HIDE DEF q
    <3>4. q * GridStep \in Int
      BY <1>1, <2>1
    <3> QED BY <3>2, <3>3, <3>4
  <2> HIDE DEF q, n
  <2>3. PICK x \in Nat : x = (i - 1) * GridStep /\ x =< q * GridStep
    BY <2>2
  <2>4. PICK y \in Int : y = q * GridStep /\ y =< stop - first - 1
    BY <1>1, <1>2, <2>1
  <2> QED BY <2>1, <2>3, <2>4
<1> HIDE DEF q, n
<1>5. Stepping(first, stop, GridStep) \in [1..n -> first..(stop - 1)]
  BY <1>3, <1>4
<1>6. stop > first => n > (stop - first - 1) \div GridStep
  BY <1>2 DEF n, q
<1>7. n \in Nat /\ DOMAIN Stepping(first, stop, GridStep) = 1..n
  BY <1>2, <1>3
<1> QED BY <1>3, <1>5, <1>6, <1>7

(* Wherever the grid reaches, its next point below is less than a step away.*)
LEMMA SteppingCovers ==
    ASSUME NEW first \in Int, NEW stop \in Int, NEW c \in first..(stop - 1)
    PROVE  \E i \in DOMAIN Stepping(first, stop, GridStep) :
              /\ Stepping(first, stop, GridStep)[i] =< c
              /\ c < Stepping(first, stop, GridStep)[i] + GridStep
<1>1. GridStep \in Nat \ {0}
  BY DecisionAssumption
<1>2. PICK n \in Nat :
         /\ DOMAIN Stepping(first, stop, GridStep) = 1..n
         /\ Stepping(first, stop, GridStep) = [i \in 1..n |-> first + (i - 1) * GridStep]
         /\ stop > first => n > (stop - first - 1) \div GridStep
  BY SteppingFacts
<1>3. PICK x \in Nat : x = c - first
  OBVIOUS
<1>4. PICK y \in Nat : y = stop - first - 1 /\ x =< y
  BY <1>3
<1>5. PICK k \in Nat : k = x \div GridStep /\ k * GridStep =< x /\ x < k * GridStep + GridStep
  BY <1>1, DivFacts
<1>6. PICK l \in Nat : l = y \div GridStep /\ l * GridStep =< y /\ y < l * GridStep + GridStep
  BY <1>1, DivFacts
<1>7. k =< l
  <2> SUFFICES ASSUME l + 1 =< k PROVE FALSE
    OBVIOUS
  <2>1. PICK d \in Nat : k = (l + 1) + d
    OBVIOUS
  <2>2. k * GridStep = l * GridStep + GridStep + d * GridStep
    BY <1>1, <2>1
  <2>3. d * GridStep \in Nat /\ l * GridStep \in Nat
    BY <1>1
  <2> QED BY <1>1, <1>4, <1>5, <1>6, <2>2, <2>3
<1>8. n > l
  BY <1>2, <1>4, <1>6
<1>9. k + 1 \in 1..n
  BY <1>7, <1>8
<1>10. Stepping(first, stop, GridStep)[k + 1] = first + k * GridStep
  BY <1>2, <1>9
<1>11. PICK p \in Nat : p = k * GridStep
  BY <1>1
<1>12. first + p =< c /\ c < (first + p) + GridStep
  BY <1>1, <1>3, <1>5, <1>11
<1> QED BY <1>2, <1>9, <1>10, <1>11, <1>12

(***************************************************************************)
(* The candidates for a limit m: m is one of them, the others are within   *)
(* the bounds, and they lie close enough to each other.                    *)
(***************************************************************************)
LEMMA TriedFacts ==
    ASSUME NEW m \in Int
    PROVE  \E n \in Nat :
              /\ DOMAIN Tried(m) = 1..n
              /\ \A i \in 1..n : Tried(m)[i] \in (SafetyMin..SafetyMax) \cup {m}
              /\ \E i \in 1..n : Tried(m)[i] = m
              /\ \A c \in SafetyMin..SafetyMax :
                    c >= m - Window /\ c =< m + Window =>
                        \E i \in 1..n : Tried(m)[i] =< c /\ c < Tried(m)[i] + GridStep
<1> DEFINE first == Max({SafetyMin, m - Window})
           stop == Min({SafetyMax, m + Window}) + 1
           grid == Stepping(first, stop, GridStep)
<1>1. SafetyMin \in Int /\ SafetyMax \in Int /\ Window \in Int
  BY DecisionAssumption
<1>2. /\ first \in Int /\ first >= SafetyMin
      /\ stop \in Int /\ stop - 1 =< SafetyMax
      /\ \A c \in SafetyMin..SafetyMax :
            c >= m - Window /\ c =< m + Window => c \in first..(stop - 1)
  BY <1>1, MaxOfTwo, MinOfTwo
<1> HIDE DEF first, stop
<1>3. PICK n \in Nat : /\ DOMAIN grid = 1..n
                       /\ grid \in [1..n -> first..(stop - 1)]
  BY <1>2, SteppingFacts
<1>4. \A c \in SafetyMin..SafetyMax :
         c >= m - Window /\ c =< m + Window =>
             \E i \in 1..n : grid[i] =< c /\ c < grid[i] + GridStep
  BY <1>2, <1>3, SteppingCovers
<1>5. \A i \in 1..n : grid[i] \in SafetyMin..SafetyMax
  BY <1>1, <1>2, <1>3
<1> HIDE DEF grid
<1>6. grid \in Seq(Int) /\ Len(grid) = n
  BY <1>1, <1>3, <1>5
<1>7. Tried(m) = IF \E i \in 1..n : grid[i] = m THEN grid ELSE Append(grid, m)
  <2>1. Contains(grid, m) <=> \E i \in 1..n : grid[i] = m
    BY <1>6 DEF Contains
  <2>2. Tried(m) = IF Contains(grid, m) THEN grid ELSE Append(grid, m)
    BY DEF Tried, grid, first, stop
  <2> QED BY <2>1, <2>2
<1>8. CASE \E i \in 1..n : grid[i] = m
  BY <1>3, <1>4, <1>5, <1>7, <1>8
<1>9. CASE ~ \E i \in 1..n : grid[i] = m
  <2>1. /\ DOMAIN Append(grid, m) = 1..(n + 1)
        /\ \A i \in 1..n : Append(grid, m)[i] = grid[i]
        /\ Append(grid, m)[n + 1] = m
    BY <1>6
  <2>2. 1..(n + 1) = (1..n) \cup {n + 1}
    OBVIOUS
  <2>3. Tried(m) = Append(grid, m)
    BY <1>7, <1>9
  <2>4. n + 1 \in Nat
    OBVIOUS
  <2> QED BY <1>4, <1>5, <2>1, <2>2, <2>3, <2>4
<1> QED BY <1>8, <1>9

-----------------------------------------------------------------------------
(* The choice among the candidates.                                        *)

(* FirstLeast is a candidate that costs no more than any other.            *)
LEMMA FirstLeastFacts ==
    ASSUME NEW n \in Nat, NEW tried, DOMAIN tried = 1..n,
           NEW f, \A i \in 1..n : f[tried[i]] \in Int \cup {Failed},
           Evaluated(tried, f) # {}
    PROVE  \E i \in Evaluated(tried, f) :
              /\ FirstLeast(tried, f) = tried[i]
              /\ \A j \in Evaluated(tried, f) : f[tried[i]] =< f[tried[j]]
              /\ \A j \in Evaluated(tried, f) : j < i => f[tried[i]] < f[tried[j]]
<1> DEFINE seen == Evaluated(tried, f)
           v == [i \in seen |-> f[tried[i]]]
           least == {i \in seen : \A j \in seen : f[tried[i]] =< f[tried[j]]}
<1>1. seen \in SUBSET (1..n) /\ \A i \in seen : f[tried[i]] \in Int
  BY DEF Evaluated
<1> HIDE DEF seen
<1>2. \A i \in seen : v[i] \in Int
  BY <1>1
<1>3. \E i \in seen : \A j \in seen : f[tried[i]] =< f[tried[j]]
  <2>1. \E i \in seen : \A j \in seen : v[i] =< v[j]
    <3> HIDE DEF v
    <3> QED BY <1>1, <1>2, LeastValue DEF seen
  <2> QED BY <2>1
<1>4. least # {} /\ least \in SUBSET Nat
  <2>1. least # {}
    BY <1>3
  <2>2. seen \in SUBSET Nat
    BY <1>1
  <2> QED BY <2>1, <2>2
<1>5. Min(least) \in least /\ \A j \in least : Min(least) =< j
  <2> HIDE DEF least
  <2> QED BY <1>4, MinFacts
<1>6. FirstLeast(tried, f) = tried[Min(least)]
  BY DEF FirstLeast, seen
<1>7. ASSUME NEW j \in seen, j < Min(least) PROVE f[tried[Min(least)]] < f[tried[j]]
  <2>1. j \notin least
    <3> HIDE DEF least
    <3>1. Min(least) \in Nat
      BY <1>4, <1>5
    <3>2. j \in Nat
      BY <1>1
    <3> QED BY <1>5, <1>7, <3>1, <3>2
  <2>2. PICK k \in seen : ~ (f[tried[j]] =< f[tried[k]])
    BY <2>1
  <2>3. Min(least) \in seen /\ f[tried[Min(least)]] =< f[tried[k]]
    BY <1>5
  <2> HIDE DEF least
  <2>4. /\ f[tried[Min(least)]] \in Int /\ f[tried[j]] \in Int /\ f[tried[k]] \in Int
    BY <1>1, <2>3
  <2> QED BY <2>2, <2>3, <2>4
<1> QED BY <1>5, <1>6, <1>7 DEF seen

(* The costs of all limits a cycle may look at are numbers or missing.     *)
Predicted(m, f) == \A c \in (SafetyMin..SafetyMax) \cup {m} : f[c] \in Int \cup {Failed}

(***************************************************************************)
(* The optimizer's answer is the current limit or within the bounds, and   *)
(* no candidate whose cost is known is cheaper.                            *)
(***************************************************************************)
LEMMA BestFacts ==
    ASSUME NEW m \in Int, NEW f, Predicted(m, f)
    PROVE  /\ Best(m, f) \in (SafetyMin..SafetyMax) \cup {m}
           /\ Best(m, f) \in Int
           /\ \A i \in DOMAIN Tried(m) :
                 f[Tried(m)[i]] # Failed =>
                     f[Best(m, f)] \in Int /\ f[Best(m, f)] =< f[Tried(m)[i]]
<1>1. PICK n \in Nat : /\ DOMAIN Tried(m) = 1..n
                       /\ \A i \in 1..n : Tried(m)[i] \in (SafetyMin..SafetyMax) \cup {m}
  BY TriedFacts
<1>2. \A i \in 1..n : f[Tried(m)[i]] \in Int \cup {Failed}
  BY <1>1 DEF Predicted
<1>3. SafetyMin \in Int /\ SafetyMax \in Int
  BY DecisionAssumption
<1>4. CASE Evaluated(Tried(m), f) = {}
  <2>1. Best(m, f) = m
    BY <1>4 DEF Best
  <2>2. \A i \in DOMAIN Tried(m) : f[Tried(m)[i]] = Failed
    BY <1>4 DEF Evaluated
  <2> QED BY <2>1, <2>2
<1>5. CASE Evaluated(Tried(m), f) # {}
  <2>1. PICK i \in Evaluated(Tried(m), f) :
           /\ FirstLeast(Tried(m), f) = Tried(m)[i]
           /\ \A j \in Evaluated(Tried(m), f) : f[Tried(m)[i]] =< f[Tried(m)[j]]
    BY <1>1, <1>2, <1>5, FirstLeastFacts
  <2>2. Best(m, f) = Tried(m)[i] /\ i \in 1..n /\ f[Tried(m)[i]] \in Int
    BY <1>1, <1>2, <1>5, <2>1 DEF Best, Evaluated
  <2> QED BY <1>1, <1>3, <2>1, <2>2 DEF Evaluated
<1> QED BY <1>4, <1>5

(* The current limit is a candidate: when its cost is known, that of the   *)
(* answer is known and not above it.                                       *)
LEMMA BestNotWorse ==
    ASSUME NEW m \in Int, NEW f, Predicted(m, f), f[m] # Failed
    PROVE  f[m] \in Int /\ f[Best(m, f)] \in Int /\ f[Best(m, f)] =< f[m]
<1>1. PICK n \in Nat : DOMAIN Tried(m) = 1..n /\ \E i \in 1..n : Tried(m)[i] = m
  BY TriedFacts
<1>2. PICK i \in DOMAIN Tried(m) : Tried(m)[i] = m
  BY <1>1
<1>3. f[Best(m, f)] \in Int /\ f[Best(m, f)] =< f[m]
  BY <1>2, BestFacts
<1> QED BY <1>3 DEF Predicted

-----------------------------------------------------------------------------
(* The safety layer.                                                       *)

LEMMA BoundedFacts ==
    ASSUME NEW n \in Int
    PROVE  /\ Bounded(n) \in Int /\ Bounded(n) >= SafetyMin
           /\ SafetyMin =< SafetyMax => InBounds(Bounded(n))
           /\ InBounds(n) => Bounded(n) = n
           /\ Bounded(n) = IF SafetyMax =< n
                           THEN IF SafetyMin >= SafetyMax THEN SafetyMin ELSE SafetyMax
                           ELSE IF SafetyMin >= n THEN SafetyMin ELSE n
<1>1. SafetyMin \in Int /\ SafetyMax \in Int
  BY DecisionAssumption
<1>2. PICK k \in Int : k = Min({SafetyMax, n}) /\ k = IF SafetyMax =< n THEN SafetyMax ELSE n
  BY <1>1, MinOfTwo
<1>3. Bounded(n) = IF SafetyMin >= k THEN SafetyMin ELSE k
  BY <1>1, <1>2, MaxOfTwo DEF Bounded
<1> QED BY <1>1, <1>2, <1>3 DEF InBounds

(* The way from m to n, cut short after max_delta.                         *)
LEMMA RateLimitedFacts ==
    ASSUME NEW m \in Int, NEW n \in Int
    PROVE  /\ n > m => /\ RateLimited(m, n) \in (m + 1)..n
                       /\ RateLimited(m, n) - m =< SafetyDelta
           /\ n < m => /\ RateLimited(m, n) \in n..(m - 1)
                       /\ m - RateLimited(m, n) =< SafetyDelta
<1>1. SafetyDelta \in Nat \ {0}
  BY DecisionAssumption, DeltaPositive
<1>2. PICK k \in Int : /\ k = Min({m + SafetyDelta, n})
                       /\ k = IF m + SafetyDelta =< n THEN m + SafetyDelta ELSE n
  BY <1>1, MinOfTwo
<1>3. RateLimited(m, n) = IF m - SafetyDelta >= k THEN m - SafetyDelta ELSE k
  BY <1>1, <1>2, MaxOfTwo DEF RateLimited
<1> QED BY <1>1, <1>2, <1>3

(***************************************************************************)
(* A change leads towards what was chosen, by at most max_delta, and is    *)
(* made only outside of the cooldown and for a significant gain.           *)
(***************************************************************************)
LEMMA DecideFacts ==
    ASSUME NEW m \in Int, NEW f, Predicted(m, f), NEW b \in BOOLEAN
    PROVE  LET d == Decide(m, f, b)
               target == Bounded(Best(m, f))
           IN  /\ d = [changed |-> d.changed, limit |-> d.limit]
               /\ d.changed \in BOOLEAN /\ d.limit \in Int /\ target \in Int
               /\ ~d.changed => d.limit = m
               /\ d.changed =>
                    /\ ~b /\ ~Insignificant(m, f)
                    /\ \/ /\ target > m /\ d.limit \in (m + 1)..target
                          /\ d.limit - m =< SafetyDelta
                       \/ /\ target < m /\ d.limit \in target..(m - 1)
                          /\ m - d.limit =< SafetyDelta
<1> DEFINE target == Bounded(Best(m, f))
           kept == Insignificant(m, f) \/ target = m \/ b
<1>1. target \in Int
  BY BestFacts, BoundedFacts
<1>2. Decide(m, f, b) = IF kept THEN [changed |-> FALSE, limit |-> m]
                        ELSE [changed |-> TRUE, limit |-> RateLimited(m, target)]
  BY DEF Decide
<1>3. CASE kept
  <2>1. Decide(m, f, b) = [changed |-> FALSE, limit |-> m]
    BY <1>2, <1>3
  <2>2. Decide(m, f, b).changed = FALSE /\ Decide(m, f, b).limit = m
    BY <2>1
  <2> QED BY <1>1, <2>1, <2>2
<1>4. CASE ~kept
  <2>1. Decide(m, f, b).changed = TRUE /\ Decide(m, f, b).limit = RateLimited(m, target)
        /\ Decide(m, f, b) = [changed |-> TRUE, limit |-> RateLimited(m, target)]
    BY <1>2, <1>4
  <2>2. ~b /\ ~Insignificant(m, f) /\ target # m
    BY <1>4
  <2>3. target > m \/ target < m
    BY <1>1, <2>2
  <2>4. /\ target > m => /\ RateLimited(m, target) \in (m + 1)..target
                         /\ RateLimited(m, target) - m =< SafetyDelta
        /\ target < m => /\ RateLimited(m, target) \in target..(m - 1)
                         /\ m - RateLimited(m, target) =< SafetyDelta
    BY <1>1, RateLimitedFacts
  <2>5. RateLimited(m, target) \in Int
    BY <1>1, <2>3, <2>4
  <2>6. CASE target > m
    BY <1>1, <2>1, <2>2, <2>4, <2>5, <2>6
  <2>7. CASE target < m
    BY <1>1, <2>1, <2>2, <2>4, <2>5, <2>7
  <2> QED BY <2>3, <2>6, <2>7
<1> QED BY <1>3, <1>4

-----------------------------------------------------------------------------
(* Convex costs, from a to b.                                              *)

Convex(f, a, b) ==
    /\ \A c \in a..b : f[c] \in Int
    /\ \A c \in (a + 1)..(b - 1) : f[c - 1] + f[c + 1] >= 2 * f[c]

(* Once it does not fall any more it never falls again.                    *)
LEMMA RiseGoesOn ==
    ASSUME NEW a \in Int, NEW b \in Int, NEW f, Convex(f, a, b),
           NEW j \in (a + 1)..b, f[j - 1] =< f[j],
           NEW i \in j..b
    PROVE  f[i - 1] =< f[i]
<1> DEFINE T == {k \in j..b : ~ (f[k - 1] =< f[k])}
<1> SUFFICES ASSUME i \in T PROVE FALSE
  OBVIOUS
<1>1. T \in SUBSET Int /\ T # {} /\ \A k \in T : j =< k
  <2>1. i \in T
    OBVIOUS
  <2>2. T \in SUBSET (j..b) /\ j..b \in SUBSET Int /\ \A k \in j..b : j =< k
    OBVIOUS
  <2> HIDE DEF T
  <2> QED BY <2>1, <2>2
<1> HIDE DEF T
<1>2. PICK k \in T : \A l \in T : k =< l
  BY <1>1, LeastInteger, j \in Int
<1>3. k \in j..b /\ ~ (f[k - 1] =< f[k]) /\ k # j
  BY DEF T
<1>4. k - 1 \in j..b /\ k - 1 \notin T
  BY <1>1, <1>2, <1>3
<1>5. f[k - 2] =< f[k - 1]
  <2>1. (k - 1) - 1 = k - 2
    BY <1>3
  <2> QED BY <1>4, <2>1 DEF T
<1>6. f[k - 2] + f[k] >= 2 * f[k - 1]
  <2>1. k - 1 \in (a + 1)..(b - 1) /\ (k - 1) - 1 = k - 2 /\ (k - 1) + 1 = k
    BY <1>3, <1>4
  <2> QED BY <2>1 DEF Convex
<1>7. f[k - 2] \in Int /\ f[k - 1] \in Int /\ f[k] \in Int
  <2>1. k \in a..b /\ k - 1 \in a..b /\ k - 2 \in a..b
    BY <1>3, <1>4
  <2> QED BY <2>1 DEF Convex
<1> QED BY <1>3, <1>5, <1>6, <1>7

(* Between a and a b that costs no more nothing costs more than a, and     *)
(* when b costs less everything costs less.                                *)
LEMMA ChordFacts ==
    ASSUME NEW a \in Int, NEW b \in Int, a =< b, NEW f, Convex(f, a, b), f[b] =< f[a]
    PROVE  /\ \A k \in a..b : f[k] =< f[a]
           /\ f[b] < f[a] => \A k \in (a + 1)..b : f[k] < f[a]
<1>1. \A k \in a..b : f[k] \in Int
  BY DEF Convex
<1>2. ASSUME NEW j \in (a + 1)..b, f[j - 1] =< f[j], NEW i \in j..b
      PROVE  ~ (f[i] < f[i - 1])
  <2>1. f[i - 1] =< f[i]
    BY <1>2, RiseGoesOn
  <2>2. f[i] \in Int /\ f[i - 1] \in Int
    BY <1>1
  <2> QED BY <2>1, <2>2
<1>3. ASSUME NEW k \in a..b, f[a] < f[k] PROVE FALSE
  <2> DEFINE T == {j \in a..b : f[a] < f[j]}
  <2>1. T \in SUBSET Int /\ T # {} /\ \A j \in T : a =< j
    BY <1>3
  <2> HIDE DEF T
  <2>2. PICK j \in T : \A l \in T : j =< l
    BY <2>1, LeastInteger
  <2>3. j \in a..b /\ f[a] < f[j] /\ j # a
    BY <1>1, <2>2 DEF T
  <2>4. j \in (a + 1)..b /\ j - 1 \in a..b /\ j - 1 \notin T
    BY <2>1, <2>2, <2>3
  <2>5. f[j - 1] =< f[j]
    BY <1>1, <2>3, <2>4 DEF T
  <2> DEFINE U == {i \in j..b : f[i] =< f[a]}
  <2>6. U \in SUBSET Int /\ U # {} /\ \A i \in U : j =< i
    BY <2>4
  <2> HIDE DEF U
  <2>6a. j \in Int
    BY <2>3
  <2>7. PICK i \in U : \A l \in U : i =< l
    BY <2>6, LeastInteger, <2>6a
  <2>8. i \in j..b /\ f[i] =< f[a] /\ i # j
    BY <1>1, <2>3, <2>7 DEF U
  <2>9. i - 1 \in j..b /\ i - 1 \notin U
    BY <2>4, <2>6, <2>7, <2>8
  <2>10. f[i] < f[i - 1]
    <3>1. i \in a..b /\ i - 1 \in a..b /\ ~ (f[i - 1] =< f[a])
      BY <2>4, <2>8, <2>9 DEF U
    <3> QED BY <1>1, <2>8, <3>1
  <2> QED BY <1>2, <2>4, <2>5, <2>8, <2>10
<1>4. ASSUME f[b] < f[a], NEW k \in (a + 1)..b, f[a] =< f[k] PROVE FALSE
  <2> DEFINE T == {j \in (a + 1)..b : f[a] =< f[j]}
  <2>1. T \in SUBSET Int /\ T # {} /\ \A j \in T : a + 1 =< j
    BY <1>4
  <2> HIDE DEF T
  <2>2. PICK j \in T : \A l \in T : j =< l
    BY <2>1, LeastInteger, a + 1 \in Int
  <2>3. j \in (a + 1)..b /\ f[a] =< f[j] /\ j - 1 \notin T
    BY <2>1, <2>2 DEF T
  <2>4. f[j - 1] =< f[j]
    <3>1. j \in a..b /\ j - 1 \in a..b
      BY <2>3
    <3>2. CASE j - 1 = a
      BY <2>3, <3>2
    <3>3. CASE j - 1 # a
      <4>1. ~ (f[a] =< f[j - 1])
        BY <2>3, <3>1, <3>3 DEF T
      <4> QED BY <1>1, <2>3, <3>1, <4>1
    <3> QED BY <3>2, <3>3
  <2> DEFINE U == {i \in j..b : f[i] < f[a]}
  <2>5. U \in SUBSET Int /\ U # {} /\ \A i \in U : j =< i
    BY <1>4, <2>3
  <2> HIDE DEF U
  <2>5a. j \in Int
    BY <2>3
  <2>6. PICK i \in U : \A l \in U : i =< l
    BY <2>5, LeastInteger, <2>5a
  <2>7. i \in j..b /\ f[i] < f[a] /\ i # j
    <3>1. i \in j..b /\ f[i] < f[a]
      BY <2>6 DEF U
    <3>2. f[a] \in Int /\ f[i] \in Int
      BY <1>1, <2>3, <3>1
    <3> QED BY <2>3, <3>1, <3>2
  <2>8. i - 1 \in j..b /\ i - 1 \notin U
    BY <2>3, <2>5, <2>6, <2>7
  <2>9. f[i] < f[i - 1]
    <3>1. i \in a..b /\ i - 1 \in a..b /\ ~ (f[i - 1] < f[a])
      BY <2>3, <2>7, <2>8 DEF U
    <3> QED BY <1>1, <2>7, <3>1
  <2> QED BY <1>2, <2>3, <2>4, <2>7, <2>9
<1> QED BY <1>1, <1>3, <1>4

(* The same in the other direction.                                        *)
LEMMA ChordFactsMirrored ==
    ASSUME NEW a \in Int, NEW b \in Int, a =< b, NEW f, Convex(f, a, b), f[a] =< f[b]
    PROVE  /\ \A k \in a..b : f[k] =< f[b]
           /\ f[a] < f[b] => \A k \in a..(b - 1) : f[k] < f[b]
<1> DEFINE g == [c \in (-b)..(-a) |-> f[-c]]
<1>1. \A c \in a..b : -c \in (-b)..(-a) /\ g[-c] = f[c]
  OBVIOUS
<1>2. Convex(g, -b, -a)
  <2>1. ASSUME NEW c \in (-b)..(-a) PROVE g[c] \in Int
    BY DEF Convex
  <2>2. ASSUME NEW c \in (-b + 1)..(-a - 1) PROVE g[c - 1] + g[c + 1] >= 2 * g[c]
    <3>1. -c \in (a + 1)..(b - 1)
      OBVIOUS
    <3>2. f[-c - 1] + f[-c + 1] >= 2 * f[-c]
      BY <3>1 DEF Convex
    <3>3. g[c] = f[-c] /\ g[c - 1] = f[-c + 1] /\ g[c + 1] = f[-c - 1]
      <4>1. -(c - 1) = -c + 1 /\ -(c + 1) = -c - 1
        OBVIOUS
      <4> QED BY <4>1
    <3>4. f[-c - 1] \in Int /\ f[-c + 1] \in Int
      BY <3>1 DEF Convex
    <3> QED BY <3>2, <3>3, <3>4
  <2> QED BY <2>1, <2>2 DEF Convex
<1>3. g[-b] = f[b] /\ g[-a] = f[a]
  BY <1>1
<1> HIDE DEF g
<1>4. /\ \A k \in (-b)..(-a) : g[k] =< g[-b]
      /\ g[-a] < g[-b] => \A k \in (-b + 1)..(-a) : g[k] < g[-b]
  BY <1>2, <1>3, ChordFacts
<1>5. ASSUME NEW k \in a..b PROVE f[k] =< f[b]
  BY <1>1, <1>3, <1>4
<1>6. ASSUME f[a] < f[b], NEW k \in a..(b - 1) PROVE f[k] < f[b]
  <2>1. k \in a..b /\ -k \in (-b + 1)..(-a)
    OBVIOUS
  <2>2. g[-k] < g[-b]
    BY <1>3, <1>4, <1>6, <2>1
  <2> QED BY <1>1, <1>3, <2>1, <2>2
<1> QED BY <1>5, <1>6

-----------------------------------------------------------------------------
(***************************************************************************)
(* The inductive invariant of the cycle: what it is given does not change, *)
(* and what it decides is decided from that.                               *)
(***************************************************************************)
CycleInv ==
    /\ current \in Limits
    /\ telemetry \in Observations \cup {NoTelemetry}
    /\ cost \in [Limits -> Int \cup {Failed}]
    /\ telemetry # NoTelemetry => cost = [c \in Limits |-> HeuristicCost(telemetry, c)]
    /\ cooling \in BOOLEAN
    /\ decision # NoDecision => decision = Decide(current, cost, cooling)

(* Shares of the telemetry, and what the analytic predictor makes of them. *)
LEMMA HeuristicCostFacts ==
    ASSUME NEW t \in Observations, NEW c \in Int
    PROVE  /\ HeuristicCost(t, c) \in Int
           /\ LatencyCost(t, AtLeast1(c)) \in Int
           /\ Share(t.waiting, AtLeast1(c)) \in Int
           /\ WeightError * t.errorRate * 2 * Scale * Scale \in Int
           /\ WeightResource * ((t.acquired * 2 * Scale * Scale) \div AtLeast1(t.poolMax)) \in Int
<1>1. /\ t.p95 \in Int /\ t.p99 \in Int /\ t.errorRate \in Int /\ t.active \in Int
      /\ t.waiting \in Int /\ t.acquired \in Int /\ t.poolMax \in Int
  BY CycleAssumption
<1>2. /\ WeightLatency \in Int /\ WeightError \in Int /\ WeightWait \in Int
      /\ WeightResource \in Int /\ Scale \in Int
  BY PredictorAssumption
<1>3. AtLeast1(c) \in Int /\ AtLeast1(c) >= 1 /\ AtLeast1(t.poolMax) \in Int /\ AtLeast1(t.poolMax) >= 1
  BY <1>1 DEF AtLeast1
<1>4. Scale \div AtLeast1(c) \in Int
  BY <1>2, <1>3
<1>5. Share(t.active, AtLeast1(c)) \in Int /\ Share(t.waiting, AtLeast1(c)) \in Int
  BY <1>1, <1>4 DEF Share
<1>6. LatencyCost(t, AtLeast1(c)) \in Int
  BY <1>1, <1>2, <1>5 DEF LatencyCost
<1>7. WeightError * t.errorRate * 2 * Scale * Scale \in Int
  BY <1>1, <1>2
<1>8. WeightResource * ((t.acquired * 2 * Scale * Scale) \div AtLeast1(t.poolMax)) \in Int
  <2>1. PICK a \in Int : a = t.acquired * 2 * Scale * Scale
    BY <1>1, <1>2
  <2>2. a \div AtLeast1(t.poolMax) \in Int
    BY <1>3, <2>1
  <2> QED BY <1>2, <2>1, <2>2
<1>9. WeightLatency * LatencyCost(t, AtLeast1(c)) \in Int
  BY <1>2, <1>6
<1>10. WeightWait * Share(t.waiting, AtLeast1(c)) * 2 * Scale \in Int
  BY <1>2, <1>5
<1>11. HeuristicCost(t, c) \in Int
  <2> DEFINE l == WeightLatency * LatencyCost(t, AtLeast1(c))
             e == WeightError * t.errorRate * 2 * Scale * Scale
             w == WeightWait * Share(t.waiting, AtLeast1(c)) * 2 * Scale
             r == WeightResource * ((t.acquired * 2 * Scale * Scale) \div AtLeast1(t.poolMax))
  <2>1. HeuristicCost(t, c) = l + e + w + r
    BY DEF HeuristicCost
  <2>2. l \in Int /\ e \in Int /\ w \in Int /\ r \in Int
    BY <1>7, <1>8, <1>9, <1>10
  <2> HIDE DEF l, e, w, r
  <2> QED BY <2>1, <2>2
<1> QED BY <1>5, <1>6, <1>7, <1>8, <1>11

(* Whatever the limit and the predictor, the costs are numbers or missing. *)
LEMMA CycleInitInv == DecisionInit => CycleInv
<1> SUFFICES ASSUME DecisionInit PROVE CycleInv
  OBVIOUS
<1>1. current \in Limits /\ telemetry \in Observations \cup {NoTelemetry}
      /\ cooling \in BOOLEAN /\ decision = NoDecision
  BY DEF DecisionInit
<1>2. CASE telemetry = NoTelemetry
  <2>1. cost \in Predictions[current]
    BY <1>2 DEF DecisionInit
  <2>2. cost \in [Limits -> Int \cup {Failed}]
    BY <1>1, <2>1, CycleAssumption
  <2> QED BY <1>1, <1>2, <2>2 DEF CycleInv
<1>3. CASE telemetry # NoTelemetry
  <2>1. cost = [c \in Limits |-> HeuristicCost(telemetry, c)] /\ telemetry \in Observations
    BY <1>1, <1>3 DEF DecisionInit
  <2>2. \A c \in Limits : HeuristicCost(telemetry, c) \in Int
    BY <2>1, CycleAssumption, HeuristicCostFacts
  <2>3. cost \in [Limits -> Int \cup {Failed}]
    BY <2>1, <2>2
  <2> QED BY <1>1, <2>1, <2>3 DEF CycleInv
<1> QED BY <1>2, <1>3

LEMMA CycleNextInv == CycleInv /\ [MakeDecision]_decisionVars => CycleInv'
<1> SUFFICES ASSUME CycleInv, [MakeDecision]_decisionVars PROVE CycleInv'
  OBVIOUS
<1>1. CASE MakeDecision
  BY <1>1 DEF MakeDecision, CycleInv
<1>2. CASE UNCHANGED decisionVars
  BY <1>2 DEF decisionVars, CycleInv
<1> QED BY <1>1, <1>2

(* The invariant holds in every reachable state.                           *)
THEOREM CycleInvariant == DecisionSpec => []CycleInv
BY CycleInitInv, CycleNextInv, PTL DEF DecisionSpec

(* What the lemmas about a decision ask for holds in every state.          *)
LEMMA CycleFacts ==
    ASSUME CycleInv
    PROVE  /\ current \in Int /\ Predicted(current, cost)
           /\ SafetyMin \in Int /\ SafetyMax \in Int /\ SafetyDelta \in Nat \ {0}
           /\ Best(current, cost) \in Int
           /\ Best(current, cost) \in (SafetyMin..SafetyMax) \cup {current}
           /\ Bounded(Best(current, cost)) \in Int
           /\ Bounded(current) \in Int
           /\ Changed => decision = Decide(current, cost, cooling)
<1>1. current \in Int /\ Limits \subseteq Int
  BY CycleAssumption DEF CycleInv
<1>2. Predicted(current, cost)
  BY CycleAssumption DEF CycleInv, Predicted
<1>3. SafetyMin \in Int /\ SafetyMax \in Int /\ SafetyDelta \in Nat \ {0}
  BY DecisionAssumption, DeltaPositive
<1>4. /\ Best(current, cost) \in Int
      /\ Best(current, cost) \in (SafetyMin..SafetyMax) \cup {current}
  BY <1>1, <1>2, BestFacts
<1>5. Bounded(Best(current, cost)) \in Int /\ Bounded(current) \in Int
  BY <1>1, <1>4, BoundedFacts
<1>6. Changed => decision = Decide(current, cost, cooling)
  BY DEF CycleInv, Changed
<1> QED BY <1>1, <1>2, <1>3, <1>4, <1>5, <1>6

(* A change, in the terms of the variables.                                *)
LEMMA ChangeFacts ==
    ASSUME CycleInv, Changed
    PROVE  LET target == Bounded(Best(current, cost)) IN
           /\ ~cooling /\ ~Insignificant(current, cost)
           /\ decision.limit \in Int
           /\ \/ /\ target > current /\ decision.limit \in (current + 1)..target
                 /\ decision.limit - current =< SafetyDelta
              \/ /\ target < current /\ decision.limit \in target..(current - 1)
                 /\ current - decision.limit =< SafetyDelta
<1>1. decision = Decide(current, cost, cooling) /\ decision.changed
  BY CycleFacts DEF Changed
<1>2. cooling \in BOOLEAN /\ current \in Int /\ Predicted(current, cost)
  BY CycleFacts DEF CycleInv
<1> QED BY <1>1, <1>2, DecideFacts

(* Costs that are convex for all limits are so within the bounds.          *)
LEMMA ConvexWithin ==
    ASSUME CycleInv, IsConvex, NEW a \in SafetyMin..SafetyMax, NEW b \in SafetyMin..SafetyMax
    PROVE  Convex(cost, a, b)
<1>1. SafetyMin..SafetyMax \subseteq Limits /\ a..b \subseteq SafetyMin..SafetyMax
  BY CycleAssumption, DecisionAssumption
<1>2. \A c \in a..b : cost[c] \in Int
  BY <1>1 DEF CycleInv, IsConvex
<1>3. ASSUME NEW c \in (a + 1)..(b - 1) PROVE cost[c - 1] + cost[c + 1] >= 2 * cost[c]
  <2>1. c \in a..b /\ c - 1 \in a..b /\ c + 1 \in a..b
    BY DecisionAssumption
  <2> QED BY <1>1, <2>1 DEF IsConvex
<1> QED BY <1>2, <1>3 DEF Convex

-----------------------------------------------------------------------------
(* A change is at most max_delta, does not leave the bounds, and brings a  *)
(* limit outside of them nearer (safety.py:41-74), whatever was predicted. *)
LEMMA Envelope == CycleInv => EnvelopeHolds
<1> SUFFICES ASSUME CycleInv, Changed
             PROVE  /\ Abs(decision.limit - current) \in 1..SafetyDelta
                    /\ InBounds(current) => InBounds(decision.limit)
                    /\ ~InBounds(current) =>
                         Abs(decision.limit - Bounded(current)) < Abs(current - Bounded(current))
                            \/ InBounds(decision.limit)
  BY DEF EnvelopeHolds
<1> DEFINE best == Best(current, cost)
           target == Bounded(best)
           l == decision.limit
<1>1. /\ current \in Int /\ SafetyMin \in Int /\ SafetyMax \in Int /\ SafetyDelta \in Nat \ {0}
      /\ best \in Int /\ best \in (SafetyMin..SafetyMax) \cup {current}
      /\ target \in Int /\ Bounded(current) \in Int
  BY CycleFacts
<1>2. /\ l \in Int
      /\ \/ target > current /\ l \in (current + 1)..target /\ l - current =< SafetyDelta
         \/ target < current /\ l \in target..(current - 1) /\ current - l =< SafetyDelta
  BY ChangeFacts
<1>3. /\ SafetyMin =< SafetyMax => InBounds(target)
      /\ Bounded(current) = IF SafetyMax =< current
                            THEN IF SafetyMin >= SafetyMax THEN SafetyMin ELSE SafetyMax
                            ELSE IF SafetyMin >= current THEN SafetyMin ELSE current
  BY <1>1, BoundedFacts
<1>4. SafetyMin > SafetyMax => target = Bounded(current)
  <2>1. SafetyMin > SafetyMax => best = current
    BY <1>1
  <2> QED BY <2>1
<1> HIDE DEF target, best, l
<1>5. Abs(l - current) \in 1..SafetyDelta
  BY <1>1, <1>2 DEF Abs
<1>6. InBounds(current) => InBounds(l)
  BY <1>1, <1>2, <1>3 DEF InBounds
<1>7. ~InBounds(current) => Abs(l - Bounded(current)) < Abs(current - Bounded(current))
                              \/ InBounds(l)
  <2> SUFFICES ASSUME ~InBounds(current)
               PROVE  Abs(l - Bounded(current)) < Abs(current - Bounded(current)) \/ InBounds(l)
    OBVIOUS
  <2>1. CASE SafetyMin > SafetyMax
    BY <1>1, <1>2, <1>4, <2>1 DEF Abs
  <2>2. CASE SafetyMin =< SafetyMax
    BY <1>1, <1>2, <1>3, <2>2 DEF Abs, InBounds
  <2> QED BY <1>1, <2>1, <2>2
<1> QED BY <1>5, <1>6, <1>7 DEF l

THEOREM EnvelopeCorrect == DecisionSpec => []EnvelopeHolds
BY Envelope, CycleInvariant, PTL

(* The limit sent lies between the current one and the optimizer's; with   *)
(* convex costs it is no worse than staying.                               *)
LEMMA NoRegret == CycleInv => ConvexNoRegret
<1> SUFFICES ASSUME CycleInv, Changed, InBounds(current), IsConvex
             PROVE  cost[decision.limit] =< cost[current]
  BY DEF ConvexNoRegret
<1> DEFINE best == Best(current, cost)
           l == decision.limit
<1>1. /\ current \in Int /\ SafetyMin \in Int /\ SafetyMax \in Int
      /\ best \in Int /\ best \in SafetyMin..SafetyMax /\ current \in SafetyMin..SafetyMax
  BY CycleFacts DEF InBounds
<1>2. Bounded(best) = best
  BY <1>1, BoundedFacts DEF InBounds
<1>3. l \in current..best \/ l \in best..current
  BY <1>1, <1>2, ChangeFacts
<1>4. cost[best] =< cost[current]
  <2>1. Predicted(current, cost) /\ cost[current] # Failed
    BY CycleFacts DEF IsConvex, CycleInv
  <2> QED BY <1>1, <2>1, BestNotWorse
<1>5. Convex(cost, current, best) /\ Convex(cost, best, current)
  BY <1>1, ConvexWithin
<1> HIDE DEF best, l
<1>6. CASE l \in current..best
  <2>1. current =< best
    BY <1>1, <1>6
  <2> QED BY <1>1, <1>4, <1>5, <1>6, <2>1, ChordFacts DEF l
<1>7. CASE l \in best..current
  <2>1. best =< current
    BY <1>1, <1>7
  <2> QED BY <1>1, <1>4, <1>5, <1>7, <2>1, ChordFactsMirrored DEF l
<1> QED BY <1>3, <1>6, <1>7

THEOREM NoRegretCorrect == DecisionSpec => []ConvexNoRegret
BY NoRegret, CycleInvariant, PTL

(***************************************************************************)
(* A change is not taken back by the next cycle (optimizer.py:45-68,       *)
(* safety.py:38-74).  The limit reached costs less than the one that was   *)
(* left; for the next cycle to go back there, or beyond, something at      *)
(* least as far back would have to cost no more than the limit reached,    *)
(* and then so would, between the two, the one that was left.              *)
(***************************************************************************)
LEMMA Undone == CycleInv => NeverUndone
<1> DEFINE best == Best(current, cost)
           l == decision.limit
           next == Decide(l, cost, FALSE)
           nextBest == Best(l, cost)
<1> SUFFICES ASSUME CycleInv, Changed, InBounds(current), IsConvex, cost[best] < cost[current]
             PROVE  IF l > current THEN next.limit > current ELSE next.limit < current
  BY DEF NeverUndone
<1>1. /\ current \in Int /\ SafetyMin \in Int /\ SafetyMax \in Int
      /\ best \in Int /\ best \in SafetyMin..SafetyMax /\ current \in SafetyMin..SafetyMax
  BY CycleFacts DEF InBounds
<1>2. Bounded(best) = best
  BY <1>1, BoundedFacts DEF InBounds
<1>3. l \in (current + 1)..best \/ l \in best..(current - 1)
  BY <1>1, <1>2, ChangeFacts
<1>4. l \in Int /\ l \in SafetyMin..SafetyMax
  BY <1>1, <1>3
<1>5. Predicted(l, cost) /\ cost[l] \in Int /\ cost[l] # Failed
  <2>1. SafetyMin..SafetyMax \subseteq Limits
    BY CycleAssumption
  <2>2. \A c \in SafetyMin..SafetyMax : cost[c] \in Int \cup {Failed}
    BY <2>1 DEF CycleInv
  <2>3. cost[l] \in Int /\ cost[l] # Failed
    BY <1>4, <2>1 DEF CycleInv, IsConvex
  <2> QED BY <1>4, <2>2, <2>3 DEF Predicted
<1>6. nextBest \in Int /\ nextBest \in SafetyMin..SafetyMax
  BY <1>4, <1>5, BestFacts
<1>7. cost[nextBest] =< cost[l]
  BY <1>4, <1>5, BestNotWorse
<1>8. /\ next.limit \in Int
      /\ \/ next.limit = l
         \/ nextBest > l /\ next.limit \in (l + 1)..nextBest
         \/ nextBest < l /\ next.limit \in nextBest..(l - 1)
  <2>1. Bounded(nextBest) = nextBest
    BY <1>6, BoundedFacts DEF InBounds
  <2>2. /\ next.changed \in BOOLEAN /\ next.limit \in Int
        /\ ~next.changed => next.limit = l
        /\ next.changed => \/ /\ Bounded(nextBest) > l
                              /\ next.limit \in (l + 1)..Bounded(nextBest)
                           \/ /\ Bounded(nextBest) < l
                              /\ next.limit \in Bounded(nextBest)..(l - 1)
    <3>1. l \in Int /\ Predicted(l, cost) /\ FALSE \in BOOLEAN
      BY <1>4, <1>5
    <3> HIDE DEF l
    <3> QED BY <3>1, DecideFacts
  <2> QED BY <2>1, <2>2
<1>9. cost[current] \in Int /\ cost[best] \in Int /\ cost[nextBest] \in Int
  <2>1. SafetyMin..SafetyMax \subseteq Limits
    BY CycleAssumption
  <2>2. \A c \in SafetyMin..SafetyMax : cost[c] \in Int
    BY <2>1 DEF CycleInv, IsConvex
  <2> QED BY <1>1, <1>6, <2>2
<1>10. \A a, b \in SafetyMin..SafetyMax : Convex(cost, a, b)
  BY ConvexWithin
<1> HIDE DEF best, l, next, nextBest
<1>11. /\ next.limit > l => nextBest >= next.limit
      /\ next.limit < l => nextBest =< next.limit
  BY <1>4, <1>6, <1>8
<1>12. CASE l \in (current + 1)..best
  <2>1. cost[l] < cost[current]
    <3>1. current =< best /\ Convex(cost, current, best)
      BY <1>1, <1>10, <1>12
    <3> QED BY <1>1, <1>9, <1>12, <3>1, ChordFacts
  <2>2. ASSUME nextBest =< current PROVE FALSE
    <3>1. nextBest =< l /\ Convex(cost, nextBest, l) /\ current \in nextBest..l
      BY <1>1, <1>4, <1>6, <1>10, <1>12, <2>2
    <3>2. cost[current] =< cost[l]
      BY <1>4, <1>6, <1>7, <3>1, ChordFactsMirrored
    <3> QED BY <1>5, <1>9, <2>1, <3>2
  <2> QED BY <1>1, <1>4, <1>6, <1>8, <1>11, <1>12, <2>2
<1>13. CASE l \in best..(current - 1)
  <2>1. cost[l] < cost[current]
    <3>1. best =< current /\ Convex(cost, best, current)
      BY <1>1, <1>10, <1>13
    <3> QED BY <1>1, <1>9, <1>13, <3>1, ChordFactsMirrored
  <2>2. ASSUME nextBest >= current PROVE FALSE
    <3>1. l =< nextBest /\ Convex(cost, l, nextBest) /\ current \in l..nextBest
      BY <1>1, <1>4, <1>6, <1>10, <1>13, <2>2
    <3>2. cost[current] =< cost[l]
      BY <1>4, <1>6, <1>7, <3>1, ChordFacts
    <3> QED BY <1>5, <1>9, <2>1, <3>2
  <2> QED BY <1>1, <1>4, <1>6, <1>8, <1>11, <1>13, <2>2
<1> QED BY <1>3, <1>12, <1>13

(* The service does not move the limit to and fro while the prediction,    *)
(* convex in the limit, stays as it is.                                    *)
THEOREM StepsNeverUndone == DecisionSpec => []NeverUndone
BY Undone, CycleInvariant, PTL

(* The recommended limit is one within the bounds, when all can be         *)
(* predicted.                                                              *)
LEMMA RecommendedFacts ==
    ASSUME SafetyMin =< SafetyMax, NEW f, \A c \in SafetyMin..SafetyMax : f[c] \in Int
    PROVE  Recommended(f) \in SafetyMin..SafetyMax
<1> DEFINE grid == Stepping(SafetyMin, SafetyMax + 1, GridStep)
<1>1. SafetyMin \in Int /\ SafetyMax \in Int /\ SafetyMax + 1 \in Int
  BY DecisionAssumption
<1>2. PICK n \in Nat : DOMAIN grid = 1..n /\ grid \in [1..n -> SafetyMin..SafetyMax]
  <2>1. (SafetyMax + 1) - 1 = SafetyMax
    BY <1>1
  <2> QED BY <1>1, <2>1, SteppingFacts
<1>3. \E i \in 1..n : TRUE
  BY <1>1, <1>2, SteppingCovers
<1> HIDE DEF grid
<1>4. \A i \in 1..n : grid[i] \in SafetyMin..SafetyMax /\ f[grid[i]] \in Int
  BY <1>2
<1>5. Evaluated(grid, f) = 1..n
  BY <1>2, <1>4, DecisionAssumption DEF Evaluated
<1>6. PICK i \in 1..n : FirstLeast(grid, f) = grid[i]
  BY <1>2, <1>3, <1>4, <1>5, FirstLeastFacts
<1> QED BY <1>4, <1>6 DEF Recommended, grid

(***************************************************************************)
(* The online optimizer, which sees a window, misses the offline one's     *)
(* choice by less than two steps of the grid, or by nothing in cost        *)
(* (ml/src/optimization/optimizer.py).  Else there is a candidate between  *)
(* the two: in the window, for that holds a whole step, and cheaper, for   *)
(* the cost is convex.                                                     *)
(***************************************************************************)
LEMMA ContentNear == CycleInv => ContentNearRecommended
<1> DEFINE r == Recommended(cost)
<1> SUFFICES ASSUME CycleInv, InBounds(current), IsConvex, Best(current, cost) = current,
                    ~ (Abs(current - r) < 2 * GridStep), ~ (cost[current] =< cost[r])
             PROVE  FALSE
  BY DEF ContentNearRecommended
<1>1. /\ current \in SafetyMin..SafetyMax /\ SafetyMin \in Int /\ SafetyMax \in Int
      /\ GridStep \in Nat \ {0} /\ Window \in Int /\ Window >= GridStep
      /\ current \in Int /\ SafetyMin =< SafetyMax
  BY CycleFacts, DecisionAssumption, WindowHoldsStep DEF InBounds
<1>2. \A c \in SafetyMin..SafetyMax : cost[c] \in Int
  BY CycleAssumption DEF CycleInv, IsConvex
<1>3. r \in SafetyMin..SafetyMax
  BY <1>1, <1>2, RecommendedFacts
<1>4. PICK n \in Nat :
         /\ DOMAIN Tried(current) = 1..n
         /\ \A i \in 1..n : Tried(current)[i] \in (SafetyMin..SafetyMax) \cup {current}
         /\ \A c \in SafetyMin..SafetyMax :
               c >= current - Window /\ c =< current + Window =>
                   \E i \in 1..n : Tried(current)[i] =< c /\ c < Tried(current)[i] + GridStep
  BY <1>1, TriedFacts
<1>5. \A i \in 1..n : Tried(current)[i] \in SafetyMin..SafetyMax
  BY <1>1, <1>4
<1>6. ASSUME NEW i \in 1..n, cost[Tried(current)[i]] < cost[current] PROVE FALSE
  <2>1. cost[Tried(current)[i]] \in Int /\ cost[current] \in Int
    BY <1>1, <1>2, <1>5
  <2>2. cost[Tried(current)[i]] # Failed
    BY <2>1, DecisionAssumption
  <2>3. cost[current] =< cost[Tried(current)[i]]
    BY <1>1, <1>4, <2>2, CycleFacts, BestFacts
  <2> QED BY <1>6, <2>1, <2>3
<1> HIDE DEF r
<1>7. cost[r] < cost[current]
  BY <1>1, <1>2, <1>3
<1>8. Convex(cost, current, r) /\ Convex(cost, r, current)
  BY <1>1, <1>3, ConvexWithin
<1>9. r >= current + 2 * GridStep \/ r =< current - 2 * GridStep
  BY <1>1, <1>3 DEF Abs
<1>10. CASE r >= current + 2 * GridStep
  <2>1. /\ current + GridStep \in SafetyMin..SafetyMax
        /\ current + GridStep >= current - Window /\ current + GridStep =< current + Window
    BY <1>1, <1>3, <1>10
  <2>2. PICK i \in 1..n : /\ Tried(current)[i] =< current + GridStep
                          /\ current + GridStep < Tried(current)[i] + GridStep
    BY <1>4, <2>1
  <2> DEFINE t == Tried(current)[i]
  <2>3. t \in (current + 1)..r
    <3>1. t \in Int
      BY <1>1, <1>5
    <3> QED BY <1>1, <1>3, <1>10, <2>2, <3>1
  <2> HIDE DEF t
  <2>4. r \in Int /\ current =< r /\ cost[r] =< cost[current]
    BY <1>1, <1>2, <1>3, <1>7, <1>10
  <2>5. cost[t] < cost[current]
    BY <1>1, <1>7, <1>8, <2>3, <2>4, ChordFacts
  <2> QED BY <1>6, <2>5 DEF t
<1>11. CASE r =< current - 2 * GridStep
  <2>1. /\ current - 1 \in SafetyMin..SafetyMax
        /\ current - 1 >= current - Window /\ current - 1 =< current + Window
    BY <1>1, <1>3, <1>11
  <2>2. PICK i \in 1..n : /\ Tried(current)[i] =< current - 1
                          /\ current - 1 < Tried(current)[i] + GridStep
    BY <1>4, <2>1
  <2> DEFINE t == Tried(current)[i]
  <2>3. t \in r..(current - 1)
    <3>1. t \in Int
      BY <1>1, <1>5
    <3> QED BY <1>1, <1>3, <1>11, <2>2, <3>1
  <2> HIDE DEF t
  <2>4. r \in Int /\ r =< current /\ cost[r] =< cost[current]
    BY <1>1, <1>2, <1>3, <1>7, <1>11
  <2>5. cost[t] < cost[current]
    BY <1>1, <1>7, <1>8, <2>3, <2>4, ChordFactsMirrored
  <2> QED BY <1>6, <2>5 DEF t
<1> QED BY <1>9, <1>10, <1>11

THEOREM ContentNearCorrect == DecisionSpec => []ContentNearRecommended
BY ContentNear, CycleInvariant, PTL

-----------------------------------------------------------------------------
(* The analytic predictor.                                                 *)

LEMMA TimesMonotone ==
    ASSUME NEW n \in Nat, NEW x \in Int, NEW y \in Int, x =< y
    PROVE  n * x =< n * y /\ (n > 0 /\ x < y => n * x < n * y)
<1>1. PICK d \in Nat : y = x + d
  <2>1. y - x \in Nat /\ y = x + (y - x)
    OBVIOUS
  <2> QED BY <2>1
<1>2. n * (x + d) = n * x + n * d
  OBVIOUS
<1>3. n * d \in Nat /\ (n > 0 /\ d > 0 => n * d > 0)
  OBVIOUS
<1>4. n * x \in Int
  OBVIOUS
<1>5. x < y => d > 0
  BY <1>1
<1> QED BY <1>1, <1>2, <1>3, <1>4, <1>5

(* A larger divisor of the scale leaves a smaller quotient.                *)
LEMMA QuotientFalls ==
    ASSUME NEW s \in Nat \ {0}, NEW a \in Nat \ {0}, NEW b \in Nat \ {0}, a < b,
           s % a = 0, s % b = 0
    PROVE  s \div a \in Nat /\ s \div b \in Nat /\ s \div b < s \div a
<1>1. PICK x \in Nat : x = s \div a /\ s = a * x
  <2>1. s \div a \in Nat /\ s = a * (s \div a)
    OBVIOUS
  <2> QED BY <2>1
<1>2. PICK y \in Nat : y = s \div b /\ s = b * y
  <2>1. s \div b \in Nat /\ s = b * (s \div b)
    OBVIOUS
  <2> QED BY <2>1
<1>3. y < x
  <2> SUFFICES ASSUME x =< y PROVE FALSE
    OBVIOUS
  <2>1. b * x =< b * y
    BY TimesMonotone
  <2>2. x # 0
    BY <1>1
  <2>3. x * a < x * b
    BY <2>2, TimesMonotone
  <2>4. x * a = s /\ x * b = b * x
    BY <1>1
  <2>5. b * x \in Int /\ b * y = s
    BY <1>2
  <2> QED BY <2>1, <2>3, <2>4, <2>5
<1> QED BY <1>1, <1>2, <1>3

(* The cost of the analytic predictor is a polynomial in 1 / limit.        *)
QuadraticPart(t) == 4 * WeightLatency * t.p99 * t.active * t.active

LEMMA CostIsPolynomial ==
    ASSUME NEW t \in Observations, NEW a \in SafetyMin..SafetyMax
    PROVE  \E base \in Int : \A c \in SafetyMin..SafetyMax :
              LET s == Scale \div c IN
                HeuristicCost(t, c) =
                    base + QuadraticPart(t) * (s * s) + (LinearPressure(t) * Scale) * s
<1>1. /\ t.p95 \in Int /\ t.p99 \in Int /\ t.active \in Int /\ t.waiting \in Int
      /\ t.errorRate \in Int /\ Scale \in Int /\ WeightLatency \in Int /\ WeightWait \in Int
  BY CycleAssumption, PredictorAssumption
<1> DEFINE e == WeightError * t.errorRate * 2 * Scale * Scale
           r == WeightResource * ((t.acquired * 2 * Scale * Scale) \div AtLeast1(t.poolMax))
<1>2. e \in Int /\ r \in Int
  BY a \in Int, HeuristicCostFacts, DecisionAssumption
<1> HIDE DEF e, r
<1>3. PICK base \in Int : base = WeightLatency * (2 * t.p99 * (Scale * Scale)) + e + r
  BY <1>1, <1>2
<1>4. ASSUME NEW c \in SafetyMin..SafetyMax
      PROVE  LET s == Scale \div c IN
                HeuristicCost(t, c) =
                    base + QuadraticPart(t) * (s * s) + (LinearPressure(t) * Scale) * s
  <2>1. c \in Nat \ {0} /\ AtLeast1(c) = c
    BY DecisionAssumption, PressureAssumption DEF AtLeast1
  <2>2. PICK s \in Int : s = Scale \div c
    BY <1>1, <2>1
  <2>3. HeuristicCost(t, c) =
            WeightLatency * (2 * t.p99 * (Scale * Scale + 2 * (t.active * s) * (t.active * s))
                               + (t.p95 + t.p99) * (t.active * s) * Scale)
              + e + WeightWait * (t.waiting * s) * 2 * Scale + r
    BY <2>1, <2>2 DEF HeuristicCost, LatencyCost, Share, e, r
  <2>4. WeightLatency * (2 * t.p99 * (Scale * Scale + 2 * (t.active * s) * (t.active * s))
                               + (t.p95 + t.p99) * (t.active * s) * Scale)
          = WeightLatency * (2 * t.p99 * (Scale * Scale))
              + (4 * WeightLatency * t.p99 * t.active * t.active) * (s * s)
              + ((WeightLatency * (t.p95 + t.p99) * t.active) * Scale) * s
    BY <1>1
  <2>5. ((WeightLatency * (t.p95 + t.p99) * t.active) * Scale) * s
           + WeightWait * (t.waiting * s) * 2 * Scale
          = ((WeightLatency * (t.p95 + t.p99) * t.active + 2 * WeightWait * t.waiting) * Scale) * s
    BY <1>1
  <2>6. PICK x \in Int : x = WeightLatency * (2 * t.p99 * (Scale * Scale))
    BY <1>1
  <2>7. PICK y \in Int : y = (4 * WeightLatency * t.p99 * t.active * t.active) * (s * s)
    BY <1>1
  <2>8. PICK z \in Int : z = ((WeightLatency * (t.p95 + t.p99) * t.active) * Scale) * s
    BY <1>1
  <2>9. PICK w \in Int : w = WeightWait * (t.waiting * s) * 2 * Scale
    BY <1>1
  <2>10. HeuristicCost(t, c) = x + y + z + e + w + r
    BY <2>3, <2>4, <2>6, <2>7, <2>8, <2>9
  <2>11. base + y + (z + w) = x + y + z + e + w + r
    BY <1>2, <1>3, <2>6
  <2> QED BY <2>2, <2>5, <2>7, <2>8, <2>9, <2>10, <2>11 DEF QuadraticPart, LinearPressure
<1> QED BY <1>4

(* Under pressure the predicted cost falls as the limit grows.             *)
LEMMA CostFalls ==
    ASSUME NEW t \in Observations,
           LinearPressure(t) >= 0, LinearPressure(t) > 0 \/ t.p99 * t.active > 0,
           NEW a \in SafetyMin..SafetyMax, NEW b \in SafetyMin..SafetyMax, a < b
    PROVE  HeuristicCost(t, b) < HeuristicCost(t, a)
<1>1. /\ a \in Nat \ {0} /\ b \in Nat \ {0}
      /\ Scale % a = 0 /\ Scale % b = 0 /\ Scale \in Nat \ {0}
  <2>1. a \in Int /\ a >= 1 /\ b \in Int /\ b >= 1
    BY DecisionAssumption, PressureAssumption
  <2> QED BY <2>1, CycleAssumption, PredictorAssumption
<1>2. PICK x \in Nat, y \in Nat : x = Scale \div a /\ y = Scale \div b /\ y < x
  BY <1>1, QuotientFalls
<1>3. y * y < x * x /\ x * x \in Int /\ y * y \in Int
  <2>1. x * y < x * x /\ y * y =< y * x
    BY <1>2, TimesMonotone
  <2>2. y * x = x * y /\ x * y \in Int /\ x * x \in Int /\ y * y \in Int
    OBVIOUS
  <2> QED BY <2>1, <2>2
<1>4. t.p95 \in Nat /\ t.p99 \in Nat /\ t.active \in Nat /\ t.waiting \in Int
  BY CycleAssumption
<1>5. WeightLatency \in Nat \ {0} /\ WeightWait \in Int
  BY PressureAssumption, PredictorAssumption
<1>6. LinearPressure(t) \in Nat
  BY <1>4, <1>5 DEF LinearPressure
<1>7. QuadraticPart(t) \in Nat /\ (LinearPressure(t) = 0 => QuadraticPart(t) > 0)
  <2>1. PICK k \in Nat : k = 4 * WeightLatency /\ k > 0
    BY <1>5
  <2>2. PICK m \in Nat : m = t.p99 * t.active
    BY <1>4
  <2>3. QuadraticPart(t) = k * m * t.active
    BY <1>4, <1>5, <2>1, <2>2 DEF QuadraticPart
  <2>4. m > 0 => t.active > 0
    BY <1>4, <2>2
  <2>5. k * m \in Nat /\ (m > 0 => k * m > 0)
    BY <2>1, <2>2
  <2>6. k * m * t.active \in Nat /\ (m > 0 => k * m * t.active > 0)
    BY <1>4, <2>4, <2>5
  <2> QED BY <2>2, <2>3, <2>6
<1>8. PICK q \in Nat : q = QuadraticPart(t)
  BY <1>7
<1>9. PICK l \in Nat : l = LinearPressure(t) * Scale /\ (LinearPressure(t) > 0 => l > 0)
  BY <1>1, <1>6
<1>10. PICK base \in Int : \A c \in SafetyMin..SafetyMax :
            HeuristicCost(t, c) = base + QuadraticPart(t) * ((Scale \div c) * (Scale \div c))
                                    + (LinearPressure(t) * Scale) * (Scale \div c)
  BY CostIsPolynomial
<1>11. HeuristicCost(t, a) = base + q * (x * x) + l * x
  BY <1>2, <1>8, <1>9, <1>10
<1>12. HeuristicCost(t, b) = base + q * (y * y) + l * y
  BY <1>2, <1>8, <1>9, <1>10
<1>13. q * (y * y) =< q * (x * x) /\ (q > 0 => q * (y * y) < q * (x * x))
  BY <1>3, TimesMonotone
<1>14. l * y =< l * x /\ (l > 0 => l * y < l * x)
  BY <1>2, TimesMonotone
<1>15. q > 0 \/ l > 0
  BY <1>6, <1>7, <1>8, <1>9
<1>16. PICK qx \in Int, qy \in Int : qx = q * (x * x) /\ qy = q * (y * y)
  BY <1>3
<1>17. PICK lx \in Int, ly \in Int : lx = l * x /\ ly = l * y
  OBVIOUS
<1> QED BY <1>11, <1>12, <1>13, <1>14, <1>15, <1>16, <1>17

(***************************************************************************)
(* Under pressure every smaller limit costs more with the analytic         *)
(* predictor (predictor.py:45-70), so the optimizer's answer is not below  *)
(* the current one.                                                        *)
(***************************************************************************)
LEMMA Pressure == CycleInv => GrowsUnderPressure
<1> DEFINE best == Best(current, cost)
<1> SUFFICES ASSUME CycleInv, Changed, InBounds(current), telemetry # NoTelemetry,
                    LinearPressure(telemetry) >= 0,
                    LinearPressure(telemetry) > 0 \/ telemetry.p99 * telemetry.active > 0
             PROVE  decision.limit > current
  BY DEF GrowsUnderPressure
<1>1. /\ current \in Int /\ current \in SafetyMin..SafetyMax
      /\ best \in Int /\ best \in SafetyMin..SafetyMax
      /\ SafetyMin \in Int /\ SafetyMax \in Int /\ Predicted(current, cost)
  BY CycleFacts DEF InBounds
<1>2. telemetry \in Observations /\ cost = [c \in Limits |-> HeuristicCost(telemetry, c)]
  BY DEF CycleInv
<1>3. ASSUME NEW c \in SafetyMin..SafetyMax
      PROVE  cost[c] = HeuristicCost(telemetry, c) /\ cost[c] \in Int /\ cost[c] # Failed
  <2>1. c \in Limits /\ c \in Int
    BY CycleAssumption, <1>1
  <2> QED BY <1>2, <2>1, HeuristicCostFacts, DecisionAssumption
<1>4. cost[best] =< cost[current]
  BY <1>1, <1>3, BestNotWorse
<1>5. ~ (best < current)
  <2> SUFFICES ASSUME best < current PROVE FALSE
    OBVIOUS
  <2>1. HeuristicCost(telemetry, current) < HeuristicCost(telemetry, best)
    BY <1>1, <1>2, CostFalls
  <2> QED BY <1>1, <1>3, <1>4, <2>1
<1>6. Bounded(best) = best
  BY <1>1, BoundedFacts DEF InBounds
<1>7. /\ decision.limit \in Int
      /\ \/ best > current /\ decision.limit \in (current + 1)..best
         \/ best < current
  BY <1>6, ChangeFacts
<1> HIDE DEF best
<1> QED BY <1>1, <1>5, <1>7

THEOREM PressureCorrect == DecisionSpec => []GrowsUnderPressure
BY Pressure, CycleInvariant, PTL
=============================================================================
