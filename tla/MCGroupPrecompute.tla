--------------------------- MODULE MCGroupPrecompute ---------------------------
(* Bounds for GroupPrecompute. *)
EXTENDS GroupPrecompute

\* Kills are followed further, and a loss of power when it is the first fault.
FewFaults == powerLost => faults = 1
===============================================================================
