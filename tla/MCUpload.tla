------------------------------ MODULE MCUpload ------------------------------
(***************************************************************************)
(* Instances of DocumentUpload for TLC.                                    *)
(***************************************************************************)
EXTENDS DocumentUpload

CONSTANTS a1, a2, a3, k1, k2

TwoAttempts == {a1, a2}
ThreeAttempts == {a1, a2, a3}
OneKey == {k1}
TwoKeys == {k1, k2}
=============================================================================
