--------------------------- MODULE MCIsrSafeQueue ----------------------------
(***************************************************************************)
(* Values of IsrSafeQueue's constants for TLC.                             *)
(***************************************************************************)
EXTENDS IsrSafeQueue

UpToThree == {1, 2, 3}
LowAndHigh == {1, 2}
Either == BOOLEAN
==============================================================================
