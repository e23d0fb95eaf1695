-------------------------------- MODULE RtiTimes -------------------------------
(***************************************************************************)
(* The times that getRtiTime gives out, one after the other.               *)
(***************************************************************************)
EXTENDS Schedule

VARIABLE lastTime    \* what getRtiTime last returned; none after a whole RTI

NoTime == [rti |-> 0, offset |-> -1]

TimesInit == ScheduleInit /\ lastTime = NoTime

TimesNext ==
  /\ ScheduleNext
  /\ lastTime' = IF ReadRtiTime /\ failed' = "none" THEN RtiTime
                 ELSE IF AdvanceRti /\ lastTime.rti # rtiIndex THEN NoTime
                 ELSE lastTime

TimesSpec == TimesInit /\ [][TimesNext]_<<scheduleVars, lastTime>>

-----------------------------------------------------------------------------
\* A time is never before one given out earlier: the index, the base and the
\* count that it is made of belong to one RTI (Metronome.cpp:145-161). Indices
\* are compared modulo their width, within one RTI of each other.
RtiTimeNeverGoesBack ==
  [][lastTime' # lastTime /\ lastTime # NoTime /\ lastTime' # NoTime =>
       \/ lastTime'.rti # lastTime.rti
       \/ lastTime'.offset >= lastTime.offset
    ]_<<scheduleVars, lastTime>>
================================================================================
