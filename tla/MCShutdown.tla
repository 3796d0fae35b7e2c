----------------------------- MODULE MCShutdown -----------------------------
(* Small instances of Shutdown for TLC.                                    *)
EXTENDS Shutdown

CONSTANTS r1, r2

TwoRequests == {r1, r2}

(* Below and above the one connection of the pool.                         *)
OneOrTwo == {1, 2}
=============================================================================
