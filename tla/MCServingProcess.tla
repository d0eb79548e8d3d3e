--------------------------- MODULE MCServingProcess ---------------------------
(***************************************************************************)
(* Model-checking module for ServingProcess, with a damage-free journal    *)
(* (Serving.cfg) and with one that is soon full (ProcessHolds.cfg).        *)
(***************************************************************************)
EXTENDS ServingProcess
===============================================================================
