-------------------------- MODULE MCNetworkPolicyProbe --------------------------
(* Instances of NetworkPolicyProbe for TLC.                                *)
EXTENDS NetworkPolicyProbe
CONSTANTS r1, r2
=============================================================================
