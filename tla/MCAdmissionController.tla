----------------------- MODULE MCAdmissionController -----------------------
(* Small instances of AdmissionController for TLC.                         *)
EXTENDS AdmissionController

CONSTANTS r1, r2, r3, r4

ThreeRequests == {r1, r2, r3}
FourRequests == {r1, r2, r3, r4}

(* Below, at and above what SetLimit clamps; 3 leaves one of 4 outside.    *)
MCLimitInputs == {-1, 1, 2, 3}
=============================================================================
