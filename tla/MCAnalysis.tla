------------------------------ MODULE MCAnalysis ------------------------------
(* Instances of Analysis for TLC. *)
EXTENDS Analysis, TLC

=============================================================================
