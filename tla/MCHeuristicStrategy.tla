------------------------ MODULE MCHeuristicStrategy ------------------------
(***************************************************************************)
(* Small instances of HeuristicStrategy for TLC.  For somebody to be in    *)
(* the queue all the time there must be two requests more than the largest *)
(* limit: when one is released, its slot goes to a waiter.                 *)
(***************************************************************************)
EXTENDS HeuristicStrategy

CONSTANTS r1, r2, r3, r4

TwoRequests == {r1, r2}
FourRequests == {r1, r2, r3, r4}

(* What the strategy may set the limit to.                                 *)
OneToTwo == 1..2
OneToThree == 1..3
=============================================================================
