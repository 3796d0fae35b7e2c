--------------------------- MODULE MCControlLoop ---------------------------
(* Small instances of ControlLoop for TLC.                                 *)
EXTENDS ControlLoop

CONSTANTS r1, h1, h2

OneRequest == {r1}
TwoPosts == {h1, h2}

OneToFive == 1..5

(* A knee at t.                                                            *)
Knee(t) == [c \in 0..7 |-> 10 + 20 * Abs(c - t)]

KneeAtFive == Knee(5)

(* Predictors that want much and that want little.                         *)
Moody == {KneeAtFive, Knee(1)}
=============================================================================
