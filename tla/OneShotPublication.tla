-------------------------- MODULE OneShotPublication --------------------------
(***************************************************************************)
(* What ansible/bin/upload-infisical-bootstrap-values promises: one bundle *)
(* is bound, each component is published from it at most once and never    *)
(* changed, and success is declared only when all of them are there.       *)
(***************************************************************************)
CONSTANTS Components, Bundles
VARIABLES bound, published, done

Init == bound = "none" /\ published = [c \in Components |-> "empty"] /\ done = FALSE

Bind == /\ bound = "none"
        /\ bound' \in Bundles
        /\ UNCHANGED <<published, done>>

Publish(c) == /\ bound # "none" /\ published[c] = "empty"
              /\ published' = [published EXCEPT ![c] = bound]
              /\ UNCHANGED <<bound, done>>

Declare == /\ ~done /\ bound # "none"
           /\ \A c \in Components : published[c] = bound
           /\ done' = TRUE
           /\ UNCHANGED <<bound, published>>

Next == Bind \/ (\E c \in Components : Publish(c)) \/ Declare

Spec == Init /\ [][Next]_<<bound, published, done>>

=============================================================================
