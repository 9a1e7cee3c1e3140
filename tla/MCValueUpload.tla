----------------------------- MODULE MCValueUpload -----------------------------
(* Instances of ValueUpload for TLC.                                       *)
EXTENDS ValueUpload
CONSTANTS p1, p2, b1, b2, k1, k2, k3, w1, w2
=============================================================================
