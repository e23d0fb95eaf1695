-------------------------------- MODULE Profiler -------------------------------
(***************************************************************************)
(* Va416x0/Svc/Profiler: hooks at the entry and exit of every function     *)
(* write events into a region of memory, from an RTI that a command        *)
(* chooses until the profiler is disabled or the region is full. Functions *)
(* run in the main loop and in handlers.                                   *)
(***************************************************************************)
EXTENDS Cpu, Sequences

CONSTANTS
  RegionSize,      \* events the region has room for
  RtisPerSecond,   \* m_rtisPerSecond
  RtiDisabled,     \* RTI_DISABLED (0xFF), also the largest U8
  FunctionEvents   \* events of functions: an address with its phase

ASSUME ProfilerAssumption ==
  /\ RegionSize \in Nat \ {0}
  /\ RtiDisabled \in Nat
  /\ RtisPerSecond \in Nat \ {0}
  /\ FunctionEvents \cap {"unused", "end"} = {}

VARIABLES
  region,       \* the memory region
  writePtr,     \* m_writePtr, the number of events before it
  wantedRti,    \* m_rti
  rti,          \* the RTI of getRtiTime
  runDone,      \* the rate group has run in this RTI
  hook,         \* what each context does under its lock, and the event
  traced,       \* the events since the profiler was enabled, as many as fit (ghost)
  finished,     \* the profiler is disabled (ghost)
  waited        \* runs since the ENABLE command (ghost)

profilerVars == <<region, writePtr, wantedRti, rti, runDone, hook, traced,
                  finished, waited>>

NoHook == [does |-> "nothing", event |-> "unused"]

ProfilerInit ==
  /\ region = [i \in 1 .. RegionSize |-> "unused"]
  /\ writePtr = RegionSize
  /\ wantedRti = RtiDisabled /\ rti = 0 /\ runDone = FALSE
  /\ hook = [c \in Contexts |-> NoHook]
  /\ traced = <<>> /\ finished = TRUE /\ waited = 0

-----------------------------------------------------------------------------
(***************************************************************************)
(* funcEnter, funcExit, enable and disable hold a critical section.        *)
(***************************************************************************)
Begin(c, does, event) ==
  /\ MayStart(c)
  /\ hook' = [hook EXCEPT ![c] = [does |-> does, event |-> event]]
  /\ Goto(c, "save")

FunctionHook(c, event) ==
  /\ Begin(c, "trace", event)
  /\ UNCHANGED <<primask, saved, region, writePtr, wantedRti, rti, runDone, traced,
                 finished, waited>>

ProfilerDisable ==
  /\ Begin(Main, "disable", "end")
  /\ UNCHANGED <<primask, saved, region, writePtr, wantedRti, rti, runDone, traced,
                 finished, waited>>

\* The critical section is entered.
ProfilerLock(c) ==
  /\ \/ SavePrimask(c)
     \/ MaskInterrupts(c, hook[c].does)
  /\ UNCHANGED profilerVars

\* trace: the event is written ...
StoreEvent(c) ==
  /\ At(c, "trace")
  /\ region' = IF writePtr < RegionSize
               THEN [region EXCEPT ![writePtr + 1] = hook[c].event] ELSE region
  /\ Goto(c, IF writePtr < RegionSize THEN "advance" ELSE "restore")
  /\ UNCHANGED <<primask, saved, writePtr, wantedRti, rti, runDone, hook, traced,
                 finished, waited>>

\* ... and the pointer goes past it.
AdvancePtr(c) ==
  /\ At(c, "advance")
  /\ writePtr' = writePtr + 1
  /\ traced' = Append(traced, hook[c].event)
  /\ Goto(c, "restore")
  /\ UNCHANGED <<primask, saved, region, wantedRti, rti, runDone, hook, finished,
                 waited>>

\* enable: SysTick is started.
DoEnable ==
  /\ At(Main, "enable")
  /\ writePtr' = 0
  /\ traced' = <<>> /\ finished' = FALSE
  /\ Goto(Main, "restore")
  /\ UNCHANGED <<primask, saved, region, wantedRti, rti, runDone, hook, waited>>

\* Mutant of DoDisable: a full region gets its mark in place of the last event.
DisableOverLast ==
  /\ At(Main, "disable")
  /\ region' = [region EXCEPT ![IF writePtr < RegionSize THEN writePtr + 1
                                ELSE RegionSize] = "end"]
  /\ writePtr' = RegionSize
  /\ wantedRti' = RtiDisabled
  /\ finished' = TRUE
  /\ Goto(Main, "restore")
  /\ UNCHANGED <<primask, saved, rti, runDone, hook, traced, waited>>

\* disable: the end is marked if there is room.
DoDisable ==
  /\ At(Main, "disable")
  /\ region' = IF writePtr < RegionSize THEN [region EXCEPT ![writePtr + 1] = "end"]
               ELSE region
  /\ writePtr' = RegionSize
  /\ wantedRti' = RtiDisabled
  /\ finished' = TRUE
  /\ Goto(Main, "restore")
  /\ UNCHANGED <<primask, saved, rti, runDone, hook, traced, waited>>

\* run_handler goes on after enable.
Unlock(c) ==
  /\ RestoreInterrupts(c, "idle")
  /\ wantedRti' = IF hook[c].does = "enable" THEN RtiDisabled ELSE wantedRti
  /\ hook' = [hook EXCEPT ![c] = NoHook]
  /\ UNCHANGED <<region, writePtr, rti, runDone, traced, finished, waited>>

-----------------------------------------------------------------------------
\* The RTI in which run_handler enables: the one before the one wanted, as a U8.
TriggerRti ==
  (IF wantedRti = 0 THEN RtisPerSecond - 1 ELSE wantedRti - 1) % (RtiDisabled + 1)

\* run_handler, once in an RTI.
ProfilerRun ==
  /\ At(Main, "idle") /\ ~ runDone
  /\ runDone' = TRUE
  /\ IF wantedRti # RtiDisabled /\ rti % RtisPerSecond = TriggerRti
     THEN Begin(Main, "enable", "unused")
     ELSE UNCHANGED <<pc, hook>>
  /\ waited' = IF wantedRti = RtiDisabled THEN waited ELSE waited + 1
  /\ UNCHANGED <<primask, saved, region, writePtr, wantedRti, rti, traced, finished>>

\* ENABLE: refused for an RTI that is not one or while another is awaited. The RTI of
\* the number RTI_DISABLED is accepted and never awaited.
EnableCommand(r) ==
  /\ At(Main, "idle")
  /\ IF r < RtisPerSecond /\ wantedRti = RtiDisabled
     THEN wantedRti' = r /\ waited' = 0
     ELSE UNCHANGED <<wantedRti, waited>>
  /\ UNCHANGED <<cpuVars, region, writePtr, rti, runDone, hook, traced, finished>>

\* The next RTI; the count of RTIs goes on over the seconds.
ProfilerRti ==
  /\ At(Main, "idle") /\ runDone
  /\ rti' = (rti + 1) % (2 * RtisPerSecond)
  /\ runDone' = FALSE
  /\ UNCHANGED <<cpuVars, region, writePtr, wantedRti, hook, traced, finished, waited>>

ProfilerNext ==
  \/ \E c \in Contexts :
       \/ \E e \in FunctionEvents : FunctionHook(c, e)
       \/ ProfilerLock(c) \/ StoreEvent(c) \/ AdvancePtr(c) \/ Unlock(c)
  \/ ProfilerDisable \/ DoEnable \/ DoDisable
  \/ ProfilerRun \/ ProfilerRti
  \/ \E r \in 0 .. RtisPerSecond : EnableCommand(r)

ProfilerAloneInit == CpuInit /\ ProfilerInit

ProfilerSpec == ProfilerAloneInit /\ [][ProfilerNext]_<<cpuVars, profilerVars>>

-----------------------------------------------------------------------------
\* What a parser takes from the region: the events before the mark.
Profiled ==
  LET ends == {i \in 1 .. RegionSize : region[i] \in {"end", "unused"}}
      n == CHOOSE m \in 0 .. RegionSize :
             /\ m + 1 \in ends \cup {RegionSize + 1}
             /\ \A i \in 1 .. m : i \notin ends
  IN  SubSeq(region, 1, n)

\* Once the profiler is disabled the region holds the events since it was
\* enabled, of the main loop and of the handlers that came between any two
\* steps of a hook, in order and up to its size, and nothing of an earlier
\* profile; and while ENABLE's RTI is awaited no more than a second has passed
\* since the command, however many RTIs a second has (Profiler.cpp:67-121, :127-169).
ProfileIsWhole ==
  /\ finished => Profiled = traced
  /\ wantedRti # RtiDisabled => waited <= RtisPerSecond

\* The profile starts in the RTI before the one that ENABLE asked for
\* (Profiler.cpp:133-135). It does not when a second has more than 256 RTIs: :135
\* takes the RTI for a U8.
StartsAsAsked ==
  hook[Main].does = "enable" => (rti + 1) % RtisPerSecond = wantedRti
================================================================================
