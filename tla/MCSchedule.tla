------------------------------- MODULE MCSchedule ------------------------------
(***************************************************************************)
(* Schedule for three clients, two of them at the same time, of an RTI of  *)
(* two or three microseconds.                                              *)
(***************************************************************************)
EXTENDS Schedule

ThreeClients == <<0, 0, 1>>
================================================================================
