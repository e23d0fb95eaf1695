------------------------------- MODULE MainLoop --------------------------------
(***************************************************************************)
(* Va416x0/Svc/MainLoop: the endless loop of the main context. An RTI      *)
(* begins when an interrupt handler calls start_rti; the loop waits for    *)
(* it, counting spare time, and then runs the cycle of the rate groups.    *)
(*                                                                         *)
(* By itself the module lets start_rti come between any two steps of the   *)
(* loop. Schedule composes it with the Metronome.                          *)
(***************************************************************************)
EXTENDS Cpu

CONSTANTS
  MaxSpare,    \* bound on the iterations of the wait that are counted
  Window,      \* RTIs between two clearings of the water marks (640)
  MaxMissed    \* bound on the RTIs started while the loop is away

ASSUME MainLoopAssumption ==
  MaxSpare \in Nat /\ Window \in Nat \ {0} /\ MaxMissed \in Nat \ {0}

VARIABLES
  readyToRun,  \* m_readyToRun
  perf,        \* m_performanceResults
  spare,       \* i of wait_for_next_rti
  snapshot,    \* what getCounts has read
  owed,        \* RTIs started whose cycle has not begun
  fatal        \* a FATAL event has been reported, which ends the software

mainLoopVars == <<readyToRun, perf, spare, snapshot, owed, fatal>>

\* 0xFFFFFFFF, above every count.
Unset == MaxSpare + 1

\* rti_count after one more RTI: 0 and the remainder modulo Window are kept.
NextRti(n) == IF n + 1 = 2 * Window THEN Window ELSE n + 1

Counts == [counter : 0 .. Unset, last : 0 .. Unset, hwm : 0 .. Unset,
           lwm : 0 .. Unset, rtiCount : 0 .. 2 * Window - 1]

ResetValues == [counter |-> Unset, last |-> 0, hwm |-> Unset, lwm |-> Unset,
                rtiCount |-> 0]

MainLoopInit ==
  /\ readyToRun = 0
  /\ perf = ResetValues
  /\ spare = 0
  /\ snapshot = ResetValues
  /\ owed = 0
  /\ fatal = FALSE

\* The main loop at this label.
Runs(label) == At(Main, label) /\ ~ fatal

-----------------------------------------------------------------------------
\* Mutant of Cleared: the last value outlives the marks.
ClearedButLast(p) == [p EXCEPT !.hwm = 0, !.lwm = Unset]

\* The marks start over.
Cleared(p) == [p EXCEPT !.hwm = 0, !.last = Unset, !.lwm = Unset]

\* The counter of the RTI that ends is taken into the marks.
Recorded(p) ==
  IF p.counter = Unset THEN p
  ELSE [p EXCEPT !.last = p.counter,
                 !.hwm = IF p.counter > @ THEN p.counter ELSE @,
                 !.lwm = IF p.counter < @ THEN p.counter ELSE @]

(***************************************************************************)
(* start_rti, in an interrupt handler. Nothing that preempts the handler   *)
(* uses these variables, so it is one step for the main loop.              *)
(***************************************************************************)
StartRti ==
  LET begun == IF perf.rtiCount % Window = 0 THEN Cleared(perf) ELSE perf
  IN  /\ ~ fatal
      /\ readyToRun' = readyToRun + 1
      /\ perf' = [Recorded(begun) EXCEPT !.rtiCount = NextRti(@)]
      /\ owed' = owed + 1
      /\ UNCHANGED <<spare, snapshot, fatal>>

-----------------------------------------------------------------------------
\* reset_vector, up to the loop; the metronome is started last.
ResetVector ==
  /\ Runs("idle")
  /\ spare' = 0
  /\ Goto(Main, "count")
  /\ UNCHANGED <<primask, saved, readyToRun, perf, snapshot, owed, fatal>>

(***************************************************************************)
(* wait_for_next_rti                                                       *)
(***************************************************************************)
CountSpare ==
  /\ Runs("count")
  /\ perf' = [perf EXCEPT !.counter = spare]
  /\ spare' = spare + 1
  /\ Goto(Main, "test")
  /\ UNCHANGED <<primask, saved, readyToRun, snapshot, owed, fatal>>

\* Mutant of TestReady: one RTI is not enough to go on.
TestOverrun ==
  /\ Runs("test")
  /\ \/ readyToRun < 2 /\ spare <= MaxSpare /\ Goto(Main, "count")
     \/ readyToRun >= 2 /\ Goto(Main, "exchange")
  /\ UNCHANGED <<primask, saved, mainLoopVars>>

TestReady ==
  /\ Runs("test")
  /\ \/ readyToRun = 0 /\ spare <= MaxSpare /\ Goto(Main, "count")
     \/ readyToRun # 0 /\ Goto(Main, "exchange")
  /\ UNCHANGED <<primask, saved, mainLoopVars>>

\* Mutant of TakeRti: the flag is cleared without looking at what it was.
TakeRtiUnseen ==
  /\ Runs("exchange")
  /\ readyToRun' = 0
  /\ owed' = owed - 1
  /\ spare' = 0
  /\ Goto(Main, "cycle")
  /\ UNCHANGED <<primask, saved, perf, snapshot, fatal>>

\* The exchange. More than one RTI is a slip: FATAL.
TakeRti ==
  /\ Runs("exchange")
  /\ readyToRun' = 0
  /\ fatal' = (readyToRun # 1)
  /\ owed' = owed - 1
  /\ spare' = 0
  /\ Goto(Main, "cycle")
  /\ UNCHANGED <<primask, saved, perf, snapshot>>

(***************************************************************************)
(* execute_main_loop: components may call resetCounts and getCounts, and   *)
(* at the end an RTI that has already begun is an overrun: FATAL. Both     *)
(* calls disable interrupts and enable them again, come what may.          *)
(***************************************************************************)
ResetPerformanceCounts ==
  /\ Runs("cycle")
  /\ perf' = ResetValues
  /\ primask' = 0
  /\ UNCHANGED <<pc, saved, readyToRun, spare, snapshot, owed, fatal>>

\* Mutant of GetCounts: interrupts stay enabled.
GetCountsUnmasked ==
  /\ Runs("cycle")
  /\ Goto(Main, "getFirst")
  /\ UNCHANGED <<primask, saved, mainLoopVars>>

GetCounts ==
  /\ Runs("cycle")
  /\ primask' = 1
  /\ Goto(Main, "getFirst")
  /\ UNCHANGED <<saved, mainLoopVars>>

GetFirstCounts ==
  /\ Runs("getFirst")
  /\ snapshot' = [perf EXCEPT !.lwm = snapshot.lwm,
                              !.rtiCount = snapshot.rtiCount]
  /\ Goto(Main, "getRest")
  /\ UNCHANGED <<primask, saved, readyToRun, perf, spare, owed, fatal>>

GetOtherCounts ==
  /\ Runs("getRest")
  /\ snapshot' = [snapshot EXCEPT !.lwm = perf.lwm,
                                  !.rtiCount = perf.rtiCount]
  /\ primask' = 0
  /\ Goto(Main, "cycle")
  /\ UNCHANGED <<saved, readyToRun, perf, spare, owed, fatal>>

\* Mutant of EnsureRtiNotElapsed: one RTI is let pass.
EnsureOneRtiAtMost ==
  /\ Runs("cycle")
  /\ fatal' = (readyToRun > 1)
  /\ Goto(Main, "count")
  /\ UNCHANGED <<primask, saved, readyToRun, perf, spare, snapshot, owed>>

EnsureRtiNotElapsed ==
  /\ Runs("cycle")
  /\ fatal' = (readyToRun # 0)
  /\ Goto(Main, "count")
  /\ UNCHANGED <<primask, saved, readyToRun, perf, spare, snapshot, owed>>

-----------------------------------------------------------------------------
\* The loop without what the components of the cycle may call.
LoopStep ==
  \/ CountSpare \/ TestReady \/ TakeRti
  \/ GetFirstCounts \/ GetOtherCounts
  \/ EnsureRtiNotElapsed

MainLoopStep == LoopStep \/ ResetPerformanceCounts \/ GetCounts

\* An interrupt at any moment they are enabled.
RtiInterrupt ==
  /\ primask = 0 /\ pc[Main] # "idle" /\ readyToRun < MaxMissed
  /\ StartRti
  /\ UNCHANGED cpuVars

MainLoopNext == ResetVector \/ MainLoopStep \/ RtiInterrupt

AloneInit == CpuInit /\ MainLoopInit

MainLoopSpec == AloneInit /\ [][MainLoopNext]_<<cpuVars, mainLoopVars>>

-----------------------------------------------------------------------------
(***************************************************************************)
(* Properties.                                                             *)
(***************************************************************************)
LoopLabels == {"idle", "count", "test", "exchange", "cycle", "getFirst",
               "getRest"}

\* The counters of the loop stay in their ranges.
MainLoopTypeOK ==
  /\ readyToRun \in 0 .. MaxMissed
  /\ perf \in Counts /\ snapshot \in Counts
  /\ spare \in 0 .. MaxSpare + 1
  /\ owed \in 0 .. MaxMissed
  /\ fatal \in BOOLEAN

\* As long as no FATAL has been reported, every RTI that was started has its
\* own cycle: it has begun, or the flag still says so (start_rti :132,
\* wait_for_next_rti :172-181).
EveryRtiIsRun == ~ fatal => readyToRun = owed

\* The spare time of the last RTI lies between the water marks.
Covered(p) ==
  p.rtiCount # 0 /\ p.last # Unset => p.lwm <= p.last /\ p.last <= p.hwm

\* The marks cover the last RTI over clearings, resets in the middle of an RTI
\* and RTIs that come before the wait has begun (:92-97, :136-150).
WaterMarksCover == Covered(perf)

\* What getCounts returns comes from one moment: no RTI begins between its
\* reads (:105-113).
SnapshotConsistent == pc[Main] = "cycle" => Covered(snapshot)
================================================================================
