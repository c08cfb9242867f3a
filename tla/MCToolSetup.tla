---------------------------- MODULE MCToolSetup ----------------------------
(* ToolSetup on small instances.                                           *)
EXTENDS ToolSetup, TLC

\* Dates are only compared.
SetupSymmetry == Permutations(Dates)
=============================================================================
