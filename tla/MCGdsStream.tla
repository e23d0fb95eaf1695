---------------------------- MODULE MCGdsStream ----------------------------
(***************************************************************************)
(* GdsStream on small instances: the sets its configurations choose from.  *)
(***************************************************************************)
EXTENDS GdsStreamRefinement

OneOrThree == {1, 3}
OneOrTwo == {1, 2}
JustOne == {1}
TwoOrThree == {2, 3}
JustThree == {3}
JustEight == {8}
NoSizes == {}

NeverFatal == {FALSE}
MaybeFatal == BOOLEAN

AllConsole == {"char", "string", "flush"}
NoConsole == {}
============================================================================
