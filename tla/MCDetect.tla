------------------------------ MODULE MCDetect ------------------------------
(***************************************************************************)
(* Values for the constants of Detect.                                     *)
(***************************************************************************)
EXTENDS Detect

\* With everything installed, with rpm and little else, with nothing.
MostMachines == {Tools, {"rpm", "rocm-smi"}, {}}
=============================================================================
