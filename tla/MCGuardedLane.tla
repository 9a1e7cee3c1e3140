---------------------------- MODULE MCGuardedLane ----------------------------
(* GuardedLane on the lanes of the repository.                             *)
EXTENDS GuardedLane, LaneContracts

(* The lane whose count of sources is behind the sources it has.           *)
RerunLanes == {DatabaseSecrets}
=============================================================================
