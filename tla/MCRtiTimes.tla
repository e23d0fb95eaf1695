------------------------------- MODULE MCRtiTimes ------------------------------
(***************************************************************************)
(* RtiTimes for one client at the top of the RTI.                          *)
(***************************************************************************)
EXTENDS RtiTimes

OneClient == <<0>>
================================================================================
