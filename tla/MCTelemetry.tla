---------------------------- MODULE MCTelemetry ----------------------------
(* Small instances of Telemetry for TLC.                                   *)
EXTENDS Telemetry

CONSTANTS r1, h1, h2

OneRequest == {r1}
TwoHandlers == {h1, h2}

(* The limits the strategy may set, and candidates below, in, at the edge  *)
(* of and above them.                                                      *)
OneToFive == 1..5
MCCandidates == {-1, 2, 5, 9}
=============================================================================
