-------------------------- MODULE MCGroundPreparation -------------------------
(* Small instances of GroundPreparation.                                    *)
EXTENDS GroundPreparation, TLC

WorkerSymmetry == Permutations(Workers)
===============================================================================
