-------------------------------- MODULE Schedule -------------------------------
(***************************************************************************)
(* The Metronome starts the RTIs that the MainLoop runs: start_rti is      *)
(* called at the top of every RTI, in the main timer's handler, and the    *)
(* components of a cycle ask the metronome for the time and change its     *)
(* duration.                                                               *)
(***************************************************************************)
EXTENDS Metronome, MainLoop

VARIABLE cycleRti    \* ghost: the RTI in which the last cycle began

scheduleVars == <<cpuVars, metronomeVars, mainLoopVars, cycleRti>>

ScheduleInit == CpuInit /\ MetronomeInit /\ MainLoopInit /\ cycleRti = 0

\* Mutant of Boot: the metronome is started before the loop.
BootEarly ==
  /\ \/ ResetVector /\ timer.on /\ UNCHANGED metronomeVars
     \/ (\E d \in Durations : StartMetronome(d)) /\ UNCHANGED <<cpuVars, mainLoopVars>>
  /\ UNCHANGED cycleRti

\* The metronome is started last of all (MainLoop.cpp:81-83).
Boot ==
  /\ ResetVector
  /\ \E d \in Durations : StartMetronome(d)
  /\ UNCHANGED cycleRti

\* The loop goes on unless an interrupt is due. The calls of resetCounts and
\* getCounts are left to MainLoop: to the metronome they are what getRtiTime is,
\* a few steps with interrupts disabled.
Loop ==
  /\ ~ Preempted(Main) /\ failed = "none"
  /\ LoopStep
  /\ cycleRti' = IF TakeRti THEN rtiIndex ELSE cycleRti
  /\ UNCHANGED metronomeVars

\* Calls of the metronome in a cycle.
Call ==
  /\ ~ fatal
  /\ UpdateDuration \/ TimeStep
  /\ UNCHANGED <<mainLoopVars, cycleRti>>

\* The handlers; at the top of an RTI the main loop is told.
Handle ==
  /\ ~ fatal
  /\ \/ IsrStep /\ UNCHANGED mainLoopVars
     \/ ComputeThresholds /\ StartRti
  /\ UNCHANGED cycleRti

\* Time passes, and at most MaxMissed RTIs while the loop is away.
Elapse ==
  /\ ~ fatal
  /\ timer.cnt = 1 => readyToRun < MaxMissed
  /\ Tick
  /\ UNCHANGED <<mainLoopVars, cycleRti>>

ScheduleNext == Boot \/ Loop \/ Call \/ Handle \/ Elapse

ScheduleSpec == ScheduleInit /\ [][ScheduleNext]_scheduleVars

(***************************************************************************)
(* Interrupts leave the loop time to run, and so its cycle comes to an end *)
(* and the calls made in it; handlers go on, and the timer from 0. Nothing *)
(* is asked of how soon the next RTI comes, or that calls are made.        *)
(***************************************************************************)
ScheduleFairSpec ==
  /\ ScheduleSpec
  /\ SF_scheduleVars(Loop)
  /\ SF_scheduleVars(Call /\ pc[Main] # "cycle")
  /\ WF_scheduleVars(Handle)
  /\ WF_scheduleVars(Elapse /\ timer.cnt = 0)

-----------------------------------------------------------------------------
(***************************************************************************)
(* Properties.                                                             *)
(***************************************************************************)
\* What MainLoop assumes of its interrupts covers what the Metronome does:
\* every behaviour is one of MainLoop, in which getRtiTime is no step.
InCall == pc[Main] \in {"save", "mask", "readCnt", "check", "readAgain", "restore"}

AloneLoop == INSTANCE MainLoop WITH
  pc <- [c \in Contexts |->
           IF c # Main THEN "idle" ELSE IF InCall THEN "cycle" ELSE pc[Main]],
  primask <- IF InCall THEN 0 ELSE primask,
  saved <- [c \in Contexts |-> 0]

ImplementsMainLoop == AloneLoop!MainLoopSpec

\* A cycle that passes the check at its end has run within the RTI for which it
\* was begun (MainLoop.cpp:58-67, :156-182; Metronome.cpp:179-196).
CycleWithinRti ==
  [][EnsureRtiNotElapsed /\ ~ fatal' => rtiIndex = cycleRti]_scheduleVars

\* Every RTI that the metronome has started is taken up by the loop, whatever handlers
\* and calls come between, without another RTI to wake it, unless the software ends
\* before (MainLoop.cpp:58-67, :156-182; Metronome.cpp:196).
RtiIsServed == readyToRun # 0 ~> (readyToRun = 0 \/ fatal \/ failed # "none")
================================================================================
