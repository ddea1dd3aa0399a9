---------------------------- MODULE MCEventPublisher ----------------------------
(***************************************************************************)
(* Instances of EventPublisher for TLC.                                    *)
(***************************************************************************)
EXTENDS EventPublisher, TLC

Symmetry == Permutations(Producers)
=============================================================================
