----------------------------- MODULE MCServing -----------------------------
(* Instances of Serving for TLC. *)
EXTENDS Serving, TLC

TwoSteps   == <<50, 100>>
ThreeSteps == <<10, 50, 100>>

MCSymmetry == Permutations(Versions)

============================================================================
