---------------------------- MODULE Measures_proofs ----------------------------
(***************************************************************************)
(* Proofs about the components that measure: MainLoop's counters and water *)
(* marks, VectorTable's duty cycle, Profiler's region, Allocator's totals  *)
(* and AdcSampler's samples, for every number of interrupt priorities,     *)
(* every nesting of the handlers and every interleaving with the main loop. *)
(***************************************************************************)
EXTENDS MainLoop, VectorTable, Profiler, Allocator, AdcSampler, FiniteSetTheorems,
        SequenceTheorems, WellFoundedInduction, TLAPS

-----------------------------------------------------------------------------
(***************************************************************************)
(* MainLoop: its counters, the hand-over of RTIs from the handler to the   *)
(* loop, and the water marks of the spare time, for every bound on the wait, *)
(* every window and every number of missed RTIs                            *)
(***************************************************************************)
loopVars == <<cpuVars, mainLoopVars>>

\* The invariant, by what its parts are about.
LoopTypes ==
  /\ MainLoopTypeOK
  /\ pc \in [Contexts -> LoopLabels]
  /\ primask \in {0, 1}

\* The wait: counting stops in time, and ends only when an RTI has begun.
Waiting ==
  /\ pc[Main] = "count" => spare <= MaxSpare
  /\ pc[Main] \in {"cycle", "getFirst", "getRest"} => spare = 0
  /\ pc[Main] = "exchange" /\ ~ fatal => readyToRun > 0

\* getCounts: nothing begins between its reads.
Reading ==
  /\ pc[Main] \in {"getFirst", "getRest"} => primask = 1
  /\ pc[Main] = "getRest" =>
       /\ snapshot.counter = perf.counter
       /\ snapshot.last = perf.last
       /\ snapshot.hwm = perf.hwm
  /\ pc[Main] # "getRest" => Covered(snapshot)

LoopInv ==
  /\ LoopTypes
  /\ Waiting
  /\ EveryRtiIsRun
  /\ WaterMarksCover
  /\ Reading

-----------------------------------------------------------------------------
\* The value that stands for no count is above every count.
LEMMA UnsetAbove == Unset \in Nat /\ Unset = MaxSpare + 1
  BY MainLoopAssumption DEF Unset

\* What the three marks are set to, for any ranges of the counts.
LEMMA MarksSet ==
  ASSUME NEW A, NEW B,
         NEW p \in [counter : A, last : A, hwm : A, lwm : A, rtiCount : B],
         NEW a \in A, NEW b \in A, NEW c \in A,
         NEW q, q = [p EXCEPT !.last = a, !.hwm = b, !.lwm = c]
  PROVE  /\ q \in [counter : A, last : A, hwm : A, lwm : A, rtiCount : B]
         /\ q.rtiCount = p.rtiCount /\ q.counter = p.counter
         /\ q.last = a /\ q.hwm = b /\ q.lwm = c
  OBVIOUS

\* The count of RTIs is a multiple of the window when it is 0.
LEMMA ZeroIsMultiple == ASSUME NEW w \in Nat \ {0} PROVE 0 % w = 0
  OBVIOUS

\* The count of RTIs stays below twice the window.
LEMMA NextRtiInRange ==
  ASSUME NEW n \in 0 .. 2 * Window - 1
  PROVE  NextRti(n) \in 1 .. 2 * Window - 1
  BY MainLoopAssumption DEF NextRti

\* Recording the counter of an RTI keeps the types and covers it, whether the
\* marks held before or have just been cleared.
LEMMA RecordedCovers ==
  ASSUME NEW p \in Counts,
         p.last # Unset => p.lwm <= p.last /\ p.last <= p.hwm
  PROVE  /\ Recorded(p) \in Counts
         /\ Recorded(p).rtiCount = p.rtiCount
         /\ Recorded(p).last # Unset =>
              /\ Recorded(p).lwm <= Recorded(p).last
              /\ Recorded(p).last <= Recorded(p).hwm
<1>1. CASE p.counter = Unset
  BY <1>1 DEF Recorded
<1>2. CASE p.counter # Unset
  <2> DEFINE h == IF p.counter > p.hwm THEN p.counter ELSE p.hwm
             l == IF p.counter < p.lwm THEN p.counter ELSE p.lwm
  <2>1. /\ p.counter \in 0 .. Unset /\ p.hwm \in 0 .. Unset /\ p.lwm \in 0 .. Unset
    BY DEF Counts
  <2>2. /\ h \in 0 .. Unset /\ l \in 0 .. Unset
        /\ l <= p.counter /\ p.counter <= h
    BY <2>1, UnsetAbove
  <2>3. Recorded(p) = [p EXCEPT !.last = p.counter, !.hwm = h, !.lwm = l]
    BY <1>2 DEF Recorded
  <2> HIDE DEF h, l
  <2>4. /\ Recorded(p) \in Counts
        /\ Recorded(p).rtiCount = p.rtiCount
        /\ Recorded(p).last = p.counter /\ Recorded(p).hwm = h /\ Recorded(p).lwm = l
    BY <2>1, <2>2, <2>3, MarksSet, ZenonT(60) DEF Counts
  <2> QED
    BY <2>2, <2>4
<1> QED
  BY <1>1, <1>2

-----------------------------------------------------------------------------
\* The reset values have their types and no marks to cover.
LEMMA ResetInRange == ResetValues \in Counts /\ Covered(ResetValues)
<1>1. Unset \in 0 .. Unset /\ 0 \in 0 .. Unset /\ 0 \in 0 .. 2 * Window - 1
  BY UnsetAbove, MainLoopAssumption
<1> QED
  BY <1>1 DEF ResetValues, Counts, Covered

\* The first state.
LEMMA LoopInitial == CpuInit /\ MainLoopInit => LoopInv
<1> SUFFICES ASSUME CpuInit, MainLoopInit PROVE LoopInv
  OBVIOUS
<1>1. ResetValues \in Counts /\ Covered(ResetValues)
  BY ResetInRange
<1>2. pc \in [Contexts -> LoopLabels] /\ pc[Main] = "idle" /\ primask = 0
  BY IrqsAssumption DEF CpuInit, Contexts, Main, LoopLabels
<1>3. LoopTypes
  <2>1. fatal \in BOOLEAN
    BY DEF MainLoopInit
  <2>2. /\ readyToRun \in 0 .. MaxMissed /\ owed \in 0 .. MaxMissed
        /\ spare \in 0 .. MaxSpare + 1
    BY MainLoopAssumption DEF MainLoopInit
  <2> QED
    BY <1>1, <1>2, <2>1, <2>2 DEF MainLoopInit, LoopTypes, MainLoopTypeOK
<1> QED
  BY <1>1, <1>2, <1>3
  DEF MainLoopInit, LoopInv, Waiting, Reading, EveryRtiIsRun, WaterMarksCover

\* An RTI that begins.
LEMMA InterruptStep == LoopInv /\ RtiInterrupt => LoopInv'
<1> SUFFICES ASSUME LoopInv, RtiInterrupt PROVE LoopInv'
  OBVIOUS
<1> DEFINE begun == IF perf.rtiCount % Window = 0 THEN Cleared(perf) ELSE perf
<1>1. /\ perf \in Counts /\ primask = 0 /\ readyToRun < MaxMissed
      /\ readyToRun' = readyToRun + 1 /\ owed' = owed + 1 /\ ~ fatal
      /\ perf' = [Recorded(begun) EXCEPT !.rtiCount = NextRti(@)]
      /\ UNCHANGED <<spare, snapshot, fatal, pc, primask, saved>>
  BY DEF LoopInv, LoopTypes, MainLoopTypeOK, RtiInterrupt, StartRti, cpuVars
<1>2. /\ begun \in Counts
      /\ begun.last # Unset => begun.lwm <= begun.last /\ begun.last <= begun.hwm
      /\ begun.rtiCount = perf.rtiCount
  <2>1. CASE perf.rtiCount % Window = 0
    <3>1. 0 \in 0 .. Unset /\ Unset \in 0 .. Unset
      BY UnsetAbove
    <3>2. begun = [perf EXCEPT !.last = Unset, !.hwm = 0, !.lwm = Unset]
      BY <1>1, <2>1 DEF Cleared, Counts
    <3> HIDE DEF begun
    <3> QED
      BY <1>1, <3>1, <3>2, MarksSet DEF Counts
  <2>2. CASE perf.rtiCount % Window # 0
    <3>1. perf.rtiCount # 0
      BY <2>2, ZeroIsMultiple, MainLoopAssumption
    <3> QED
      BY <1>1, <2>2, <3>1 DEF LoopInv, WaterMarksCover, Covered
  <2> QED
    BY <2>1, <2>2
<1> HIDE DEF begun
<1>3. /\ Recorded(begun) \in Counts
      /\ Recorded(begun).rtiCount = perf.rtiCount
      /\ Recorded(begun).last # Unset =>
           /\ Recorded(begun).lwm <= Recorded(begun).last
           /\ Recorded(begun).last <= Recorded(begun).hwm
  BY <1>2, RecordedCovers
<1>4. NextRti(perf.rtiCount) \in 1 .. 2 * Window - 1
  BY <1>1, NextRtiInRange DEF Counts
<1>5. perf' \in Counts /\ WaterMarksCover'
  BY <1>1, <1>3, <1>4, MainLoopAssumption DEF Counts, WaterMarksCover, Covered
<1>6. readyToRun' \in 0 .. MaxMissed /\ owed' \in 0 .. MaxMissed /\ EveryRtiIsRun'
  BY <1>1, MainLoopAssumption DEF LoopInv, LoopTypes, MainLoopTypeOK, EveryRtiIsRun
<1>7. LoopTypes'
  BY <1>1, <1>5, <1>6 DEF LoopInv, LoopTypes, MainLoopTypeOK
<1>8. Waiting'
  BY <1>1 DEF LoopInv, LoopTypes, MainLoopTypeOK, Waiting
<1>9. Reading'
  BY <1>1 DEF LoopInv, Reading, Covered
<1> QED
  BY <1>5, <1>6, <1>7, <1>8, <1>9 DEF LoopInv

-----------------------------------------------------------------------------
\* The steps of the loop.
LEMMA LoopSteps ==
  ASSUME LoopInv, ResetVector \/ MainLoopStep
  PROVE  LoopInv'
<1> USE MainLoopAssumption, IrqsAssumption
<1> USE DEF LoopInv, LoopTypes, MainLoopTypeOK, Waiting, Reading, EveryRtiIsRun,
           WaterMarksCover, mainLoopVars, Goto, LoopLabels, Contexts, Main, Runs, At
<1>1. CASE ResetVector
  BY <1>1 DEF ResetVector, Covered
<1>2. CASE CountSpare
  <2>1. /\ spare \in 0 .. Unset /\ spare' \in 0 .. MaxSpare + 1
    BY <1>2, UnsetAbove DEF CountSpare
  <2>2. perf' \in Counts /\ Covered(perf)'
    BY <1>2, <2>1 DEF CountSpare, Counts, Covered
  <2> QED
    BY <1>2, <2>1, <2>2 DEF CountSpare, Covered
<1>3. CASE TestReady
  BY <1>3 DEF TestReady, Covered
<1>4. CASE TakeRti
  <2>1. readyToRun > 0 /\ owed = readyToRun
    BY <1>4 DEF TakeRti
  <2>2. owed' \in 0 .. MaxMissed /\ readyToRun' = 0 /\ spare' = 0
    BY <1>4, <2>1 DEF TakeRti
  <2>3. fatal' \in BOOLEAN
    BY <1>4 DEF TakeRti
  <2>4. ~ fatal' => readyToRun = 1
    BY <1>4 DEF TakeRti
  <2>5. EveryRtiIsRun'
    <3>1. readyToRun = 1 => owed' = 0
      BY <1>4, <2>1 DEF TakeRti
    <3> QED
      BY <2>2, <2>4, <3>1
  <2> QED
    BY <1>4, <2>2, <2>3, <2>5 DEF TakeRti, Covered
<1>5. CASE ResetPerformanceCounts
  <2>1. perf' \in Counts /\ Covered(perf)'
    BY <1>5, ResetInRange DEF ResetPerformanceCounts
  <2> QED
    BY <1>5, <2>1 DEF ResetPerformanceCounts, Covered
<1>6. CASE GetCounts
  BY <1>6 DEF GetCounts, Covered
<1>7. CASE GetFirstCounts
  <2>1. /\ snapshot' \in Counts
        /\ snapshot'.counter = perf.counter /\ snapshot'.last = perf.last
        /\ snapshot'.hwm = perf.hwm
    BY <1>7 DEF GetFirstCounts, Counts
  <2> QED
    BY <1>7, <2>1 DEF GetFirstCounts, Covered
<1>8. CASE GetOtherCounts
  <2>1. /\ snapshot' \in Counts
        /\ snapshot'.last = perf.last /\ snapshot'.hwm = perf.hwm
        /\ snapshot'.lwm = perf.lwm /\ snapshot'.rtiCount = perf.rtiCount
    BY <1>8 DEF GetOtherCounts, Counts
  <2> QED
    BY <1>8, <2>1 DEF GetOtherCounts, Covered
<1>9. CASE EnsureRtiNotElapsed
  BY <1>9 DEF EnsureRtiNotElapsed, Covered
<1> QED
  BY <1>1, <1>2, <1>3, <1>4, <1>5, <1>6, <1>7, <1>8, <1>9 DEF MainLoopStep, LoopStep

\* Nothing happens.
LEMMA LoopStutter == LoopInv /\ UNCHANGED loopVars => LoopInv'
  BY DEF LoopInv, LoopTypes, MainLoopTypeOK, Waiting, Reading, EveryRtiIsRun,
         WaterMarksCover, Covered, loopVars, cpuVars, mainLoopVars

-----------------------------------------------------------------------------
\* The invariant of the main loop: its counters, when the wait ends, the flag
\* against the RTIs owed, the water marks and the reads of getCounts
\* (MainLoop.cpp:86-202).
THEOREM LoopInvariance == MainLoopSpec => []LoopInv
<1>1. LoopInv /\ [MainLoopNext]_loopVars => LoopInv'
  BY LoopSteps, InterruptStep, LoopStutter DEF MainLoopNext
<1> QED
  BY LoopInitial, <1>1, PTL DEF MainLoopSpec, AloneInit, loopVars

\* The counters stay in their ranges, and no RTI is taken up that was not
\* started (MainLoop.cpp:132, :172-182).
THEOREM LoopTypeCorrect == MainLoopSpec => []MainLoopTypeOK
<1>1. LoopInv => MainLoopTypeOK
  BY DEF LoopInv, LoopTypes
<1> QED
  BY LoopInvariance, <1>1, PTL

\* Every RTI has a cycle of its own, or a FATAL says that one was missed
\* (MainLoop.cpp:132, :158-181).
THEOREM LoopRunsEveryRti == MainLoopSpec => []EveryRtiIsRun
<1>1. LoopInv => EveryRtiIsRun
  BY DEF LoopInv
<1> QED
  BY LoopInvariance, <1>1, PTL

\* The water marks cover the spare time of the last RTI, through clearings and
\* resets (MainLoop.cpp:92-97, :136-150).
THEOREM LoopMarksCover == MainLoopSpec => []WaterMarksCover
<1>1. LoopInv => WaterMarksCover
  BY DEF LoopInv
<1> QED
  BY LoopInvariance, <1>1, PTL

\* What getCounts returns comes from one moment (MainLoop.cpp:105-113).
THEOREM LoopSnapshots == MainLoopSpec => []SnapshotConsistent
<1>1. LoopInv => SnapshotConsistent
  BY DEF LoopInv, Reading, SnapshotConsistent
<1> QED
  BY LoopInvariance, <1>1, PTL

-----------------------------------------------------------------------------
(***************************************************************************)
(* VectorTable: the duty cycle of an RTI is the time of its outermost      *)
(* handlers, for every width of the counter                                *)
(***************************************************************************)
vectorProofVars == <<cpuVars, vectorVars>>

HandlerLabels == {"idle", "handler", "outer", "load", "store", "endRtiHandler"}

VectorTypes ==
  /\ pc \in [Contexts -> HandlerLabels \cup {"endRti"}]
  /\ \A c \in Handlers : pc[c] # "endRti"
  /\ pc[Main] \in {"idle", "endRti"}
  /\ cvr \in 0 .. CvrSize - 1
  /\ startTicks \in [Contexts -> 0 .. CvrSize - 1]
  /\ spent \in [Contexts -> 0 .. CvrSize - 1]
  /\ delta \in [Contexts -> 0 .. CvrSize - 1]
  /\ loaded \in [Contexts -> Nat] /\ duty \in Nat /\ due \in Nat
  /\ hwm \in Nat /\ mostDue \in Nat

\* The counter has gone down by the ticks a handler has spent; when the handler is
\* over the difference is those ticks.
TicksTold ==
  \A c \in Handlers :
    /\ Measuring(c) =>
         spent[c] = IF startTicks[c] >= cvr THEN startTicks[c] - cvr
                                            ELSE startTicks[c] - cvr + CvrSize
    /\ pc[c] \in {"outer", "load", "store"} => delta[c] = spent[c]

\* A handler that adds preempts no other, so that nobody else adds; what it has loaded
\* is the sum, or was the sum before an RTI ended.
Adding ==
  /\ \A c \in Handlers : pc[c] \in {"load", "store"} => RetToBase(c)
  /\ \A c \in Handlers :
       pc[c] = "store" => loaded[c] >= duty /\ (torn \/ loaded[c] = duty)

VectorInv == VectorTypes /\ TicksTold /\ Adding /\ DutyCounted

-----------------------------------------------------------------------------
\* Subtraction modulo the width of the counter.
LEMMA Modulo ==
  ASSUME NEW a \in 0 .. CvrSize - 1, NEW b \in 0 .. CvrSize - 1
  PROVE  /\ (a - b) % CvrSize = IF a >= b THEN a - b ELSE a - b + CvrSize
         /\ (a - 1) % CvrSize = IF a >= 1 THEN a - 1 ELSE CvrSize - 1
<1>1. CvrSize \in Nat \ {0}
  BY VectorTableAssumption
<1> QED
  BY <1>1

\* The first state.
LEMMA VectorInitial == CpuInit /\ VectorInit => VectorInv
<1> SUFFICES ASSUME CpuInit, VectorInit PROVE VectorInv
  OBVIOUS
<1>1. 0 \in 0 .. CvrSize - 1
  BY VectorTableAssumption
<1>2. VectorTypes
  BY <1>1, IrqsAssumption
     DEF CpuInit, VectorInit, VectorTypes, HandlerLabels, Zero, Contexts, Handlers, Main
<1>3. Adding /\ TicksTold /\ DutyCounted
  BY DEF CpuInit, VectorInit, Adding, TicksTold, DutyCounted, Measuring, Handlers
<1> QED
  BY <1>2, <1>3 DEF VectorInv

\* A handler is entered; those that add are below it.
LEMMA EnterStep ==
  ASSUME VectorInv, NEW c \in Handlers, EnterException(c)
  PROVE  VectorInv'
<1>1. /\ Executes(c) /\ pc[c] = "idle" /\ c \in Contexts /\ c # Main
      /\ pc'[c] = "handler" /\ \A d \in Contexts \ {c} : pc'[d] = pc[d]
      /\ startTicks'[c] = cvr /\ spent'[c] = 0
      /\ \A d \in Contexts \ {c} : startTicks'[d] = startTicks[d]
      /\ \A d \in Contexts \ {c} : spent'[d] = spent[d]
      /\ UNCHANGED <<cvr, delta, duty, loaded, hwm, due, mostDue, torn>>
  BY DEF VectorInv, VectorTypes, EnterException, MayStart, At, Goto, Handlers, ghostVars
<1>2. VectorTypes'
  BY <1>1, VectorTableAssumption
     DEF VectorInv, VectorTypes, EnterException, Goto, HandlerLabels, Handlers
<1>3. TicksTold'
  BY <1>1 DEF VectorInv, VectorTypes, TicksTold, Measuring, Handlers
<1>4. Adding'
  <2> SUFFICES ASSUME NEW d \in Handlers, pc'[d] \in {"load", "store"}
               PROVE  /\ RetToBase(d)'
                      /\ pc'[d] = "store" =>
                           loaded'[d] >= duty' /\ (torn' \/ loaded'[d] = duty')
    BY DEF Adding
  <2>1. d # c /\ pc[d] = pc'[d] /\ RetToBase(d)
    BY <1>1 DEF VectorInv, Adding, Handlers
  <2>2. d < c
    BY <1>1, <2>1 DEF Executes, Handlers, Contexts
  <2>3. RetToBase(d)'
    BY <1>1, <2>1, <2>2 DEF RetToBase, Active, Handlers, Contexts
  <2> QED
    BY <1>1, <2>1, <2>3 DEF VectorInv, Adding
<1> QED
  BY <1>1, <1>2, <1>3, <1>4 DEF VectorInv, DutyCounted

\* The handler returns: the difference of the counts is the ticks it has spent.
LEMMA LeaveStep ==
  ASSUME VectorInv, NEW c \in Handlers, LeaveHandler(c)
  PROVE  VectorInv'
<1>1. /\ pc[c] = "handler" /\ c \in Contexts
      /\ pc'[c] = "outer" /\ \A d \in Contexts \ {c} : pc'[d] = pc[d]
      /\ delta'[c] = (startTicks[c] - cvr) % CvrSize
      /\ \A d \in Contexts \ {c} : delta'[d] = delta[d]
      /\ UNCHANGED <<cvr, startTicks, duty, loaded, hwm, spent, due, mostDue, torn>>
  BY DEF VectorInv, VectorTypes, LeaveHandler, At, Goto, Handlers, ghostVars
<1>2. /\ cvr \in 0 .. CvrSize - 1 /\ startTicks[c] \in 0 .. CvrSize - 1
      /\ spent[c] \in 0 .. CvrSize - 1
  BY <1>1 DEF VectorInv, VectorTypes
<1>3. delta'[c] = spent[c]
  BY <1>1, <1>2, Modulo DEF VectorInv, TicksTold, Measuring
<1>4. VectorTypes'
  <2>1. delta' = [delta EXCEPT ![c] = spent[c]]
    BY <1>1, <1>3 DEF LeaveHandler, VectorInv, VectorTypes
  <2> QED
    BY <1>1, <1>2, <2>1
       DEF VectorInv, VectorTypes, LeaveHandler, Goto, HandlerLabels, Handlers
<1>5. TicksTold'
  BY <1>1, <1>3 DEF VectorInv, VectorTypes, TicksTold, Measuring, Handlers
<1>6. \A d \in Handlers : RetToBase(d)' <=> RetToBase(d)
  BY <1>1 DEF RetToBase, Active, Handlers, Contexts
<1>7. Adding'
  BY <1>1, <1>6 DEF VectorInv, Adding, Handlers
<1> QED
  BY <1>1, <1>4, <1>5, <1>7 DEF VectorInv, DutyCounted

\* A handler that preempted another adds nothing; when one goes, no other is less the
\* outermost.
LEMMA TestStep ==
  ASSUME VectorInv, NEW c \in Handlers, TestOuter(c)
  PROVE  VectorInv'
<1>1. /\ pc[c] = "outer" /\ c \in Contexts
      /\ pc'[c] = IF RetToBase(c) THEN "load" ELSE "idle"
      /\ \A d \in Contexts \ {c} : pc'[d] = pc[d]
      /\ UNCHANGED <<cvr, startTicks, delta, duty, loaded, hwm, spent, due, mostDue,
                     torn>>
  BY DEF VectorInv, VectorTypes, TestOuter, At, Goto, Handlers, vectorVars, ghostVars
<1>2. VectorTypes'
  BY <1>1 DEF VectorInv, VectorTypes, TestOuter, Goto, HandlerLabels, Handlers
<1>3. TicksTold'
  BY <1>1 DEF VectorInv, VectorTypes, TicksTold, Measuring, Handlers
<1>4. \A d \in Handlers : RetToBase(d) => RetToBase(d)'
  BY <1>1 DEF RetToBase, Active, Handlers, Contexts
<1>5. Adding'
  BY <1>1, <1>4 DEF VectorInv, Adding, Handlers
<1> QED
  BY <1>1, <1>2, <1>3, <1>5 DEF VectorInv, DutyCounted

\* The sum is read by the only handler that may add to it.
LEMMA LoadStep ==
  ASSUME VectorInv, NEW c \in Handlers, LoadDuty(c)
  PROVE  VectorInv'
<1>1. /\ pc[c] = "load" /\ c \in Contexts
      /\ pc'[c] = "store" /\ \A d \in Contexts \ {c} : pc'[d] = pc[d]
      /\ loaded'[c] = duty /\ \A d \in Contexts \ {c} : loaded'[d] = loaded[d]
      /\ UNCHANGED <<cvr, startTicks, delta, duty, hwm, spent, due, mostDue, torn>>
  BY DEF VectorInv, VectorTypes, LoadDuty, At, Goto, Handlers, ghostVars
<1>2. VectorTypes' /\ duty \in Nat
  BY <1>1 DEF VectorInv, VectorTypes, LoadDuty, Goto, HandlerLabels, Handlers
<1>3. TicksTold'
  BY <1>1 DEF VectorInv, VectorTypes, TicksTold, Measuring, Handlers
<1>4. \A d \in Handlers : RetToBase(d)' <=> RetToBase(d)
  BY <1>1 DEF RetToBase, Active, Handlers, Contexts
<1>5. Adding'
  BY <1>1, <1>2, <1>4 DEF VectorInv, Adding, Handlers
<1> QED
  BY <1>1, <1>2, <1>3, <1>5 DEF VectorInv, DutyCounted

\* The sum is stored: with the ticks of this handler, as what is due.
LEMMA StoreStep ==
  ASSUME VectorInv, NEW c \in Handlers, StoreDuty(c)
  PROVE  VectorInv'
<1>1. /\ Executes(c) /\ pc[c] = "store" /\ c \in Contexts
      /\ pc'[c] = "idle" /\ \A d \in Contexts \ {c} : pc'[d] = pc[d]
      /\ duty' = loaded[c] + delta[c]
      /\ due' = IF RetToBase(c) THEN due + spent[c] ELSE due
      /\ UNCHANGED <<cvr, startTicks, delta, hwm, spent, mostDue, torn>>
  BY DEF VectorInv, VectorTypes, StoreDuty, At, Goto, Handlers
<1>2. /\ RetToBase(c) /\ delta[c] = spent[c]
      /\ loaded[c] >= duty /\ (torn \/ loaded[c] = duty)
  BY <1>1 DEF VectorInv, Adding, TicksTold
<1>3. /\ delta[c] \in Nat /\ spent[c] \in Nat /\ loaded[c] \in Nat
      /\ duty \in Nat /\ due \in Nat
  BY <1>1, VectorTableAssumption DEF VectorInv, VectorTypes
<1>4. DutyCounted'
  BY <1>1, <1>2, <1>3 DEF VectorInv, DutyCounted
<1>5. VectorTypes'
  <2>1. duty' \in Nat /\ due' \in Nat
    BY <1>1, <1>2, <1>3
  <2> QED
    BY <1>1, <2>1 DEF VectorInv, VectorTypes, StoreDuty, Goto, HandlerLabels, Handlers
<1>6. TicksTold'
  BY <1>1 DEF VectorInv, VectorTypes, TicksTold, Measuring, Handlers
<1>7. \A d \in Handlers : pc'[d] \notin {"load", "store"}
  <2> SUFFICES ASSUME NEW d \in Handlers, d # c PROVE pc[d] \notin {"load", "store"}
    BY <1>1 DEF Handlers
  <2>1. CASE d > c
    BY <1>1, <2>1 DEF Executes, Handlers
  <2>2. CASE d < c
    BY <1>2, <2>2 DEF RetToBase, Active
  <2> QED
    BY <2>1, <2>2 DEF Handlers, Contexts
<1>8. Adding'
  BY <1>7 DEF Adding
<1> QED
  BY <1>4, <1>5, <1>6, <1>8 DEF VectorInv

\* The end of an RTI, first or later: a new sum, and a mark of what is due. A handler
\* below that has loaded the sum makes it a torn one.
LEMMA EndStep ==
  ASSUME VectorInv, NEW c \in Contexts, EndFirstRti(c) \/ EndRti(c)
  PROVE  VectorInv'
<1>1. /\ Executes(c) /\ pc[c] \in {"idle", "handler", "endRti", "endRtiHandler"}
      /\ ResetDuty(c)
      /\ UNCHANGED <<cvr, startTicks, delta, loaded, spent>>
      /\ \A d \in Contexts \ {c} : pc'[d] = pc[d]
      /\ \/ pc'[c] = pc[c]
         \/ c = Main /\ pc'[c] \in {"idle", "endRti"}
         \/ c # Main /\ pc[c] \in {"handler", "endRtiHandler"}
                     /\ pc'[c] \in {"handler", "endRtiHandler"}
      /\ pc' \in [Contexts -> HandlerLabels \cup {"endRti"}]
  BY DEF VectorInv, VectorTypes, EndFirstRti, EndRti, MayEndRti, At, Goto,
         HandlerLabels, Handlers
<1>2. DutyCounted' /\ hwm' \in Nat /\ mostDue' \in Nat
  <2>1. /\ hwm >= mostDue /\ hwm \in Nat /\ mostDue \in Nat
        /\ duty >= due /\ duty \in Nat /\ due \in Nat
        /\ ~ torn => duty = due /\ hwm = mostDue
    BY DEF VectorInv, VectorTypes, DutyCounted
  <2>2. \/ UNCHANGED <<hwm, mostDue>>
        \/ hwm' = Higher(duty, hwm) /\ mostDue' = Higher(due, mostDue)
    BY DEF EndFirstRti, EndRti
  <2>3. duty' = 0 /\ due' = 0 /\ (~ torn' => ~ torn)
    BY <1>1 DEF ResetDuty
  <2> QED
    BY <2>1, <2>2, <2>3 DEF Higher, DutyCounted
<1>3. VectorTypes'
  <2>1. \A d \in Handlers : pc'[d] # "endRti"
    BY <1>1 DEF VectorInv, VectorTypes, Handlers
  <2>2. pc'[Main] \in {"idle", "endRti"}
    BY <1>1, IrqsAssumption DEF VectorInv, VectorTypes, Contexts, Main
  <2>3. duty' = 0 /\ due' = 0
    BY <1>1 DEF ResetDuty
  <2> QED
    BY <1>1, <1>2, <2>1, <2>2, <2>3 DEF VectorInv, VectorTypes
<1>4. TicksTold'
  BY <1>1 DEF VectorInv, TicksTold, Measuring, Handlers, Main
<1>5. Adding'
  <2> SUFFICES ASSUME NEW d \in Handlers, pc'[d] \in {"load", "store"}
               PROVE  /\ RetToBase(d)'
                      /\ pc'[d] = "store" =>
                           loaded'[d] >= duty' /\ (torn' \/ loaded'[d] = duty')
    BY DEF Adding
  <2>1. d # c /\ pc[d] = pc'[d]
    BY <1>1 DEF Handlers
  <2>2. d < c
    BY <1>1, <2>1 DEF Executes, Handlers, Contexts
  <2>3. RetToBase(d)'
    <3>1. RetToBase(d)
      BY <2>1 DEF VectorInv, Adding
    <3> QED
      BY <1>1, <2>2, <3>1 DEF RetToBase, Active, Handlers, Contexts
  <2>4. pc[d] = "store" => torn' /\ loaded'[d] >= duty'
    <3>1. loaded[d] \in Nat /\ d \in Contexts
      BY DEF VectorInv, VectorTypes, Handlers
    <3>2. loaded'[d] = loaded[d] /\ duty' = 0
      BY <1>1 DEF ResetDuty
    <3>3. pc[d] = "store" => torn'
      BY <1>1, <2>2 DEF ResetDuty
    <3> QED
      BY <3>1, <3>2, <3>3
  <2> QED
    BY <2>1, <2>3, <2>4
<1> QED
  BY <1>2, <1>3, <1>4, <1>5 DEF VectorInv

\* A tick counts for every handler that is between its two reads of the counter.
LEMMA TickStep ==
  ASSUME VectorInv, CvrTick
  PROVE  VectorInv'
<1>1. /\ cvr' = IF cvr >= 1 THEN cvr - 1 ELSE CvrSize - 1
      /\ cvr \in 0 .. CvrSize - 1 /\ CvrSize \in Nat \ {0}
  BY Modulo, VectorTableAssumption DEF VectorInv, VectorTypes, CvrTick
<1>2. /\ UNCHANGED <<pc, startTicks, delta, duty, loaded, hwm, due, mostDue, torn>>
      /\ \A c \in Contexts :
           spent'[c] = IF Measuring(c) THEN spent[c] + 1 ELSE spent[c]
      /\ \A c \in Handlers : Measuring(c) => spent[c] + 1 < CvrSize
  BY DEF CvrTick, cpuVars, ghostVars
<1>3. \A c \in Contexts :
        spent[c] \in 0 .. CvrSize - 1 /\ startTicks[c] \in 0 .. CvrSize - 1
  BY DEF VectorInv, VectorTypes
<1>4. spent' \in [Contexts -> 0 .. CvrSize - 1]
  <2>1. ~ Measuring(Main)
    BY DEF VectorInv, VectorTypes, Measuring
  <2>2. \A c \in Contexts :
          (IF Measuring(c) THEN spent[c] + 1 ELSE spent[c]) \in 0 .. CvrSize - 1
    BY <1>1, <1>2, <1>3, <2>1 DEF Handlers
  <2> QED
    BY <2>2 DEF CvrTick
<1>5. VectorTypes'
  BY <1>1, <1>2, <1>4 DEF VectorInv, VectorTypes
<1>6. TicksTold'
  <2>1. ASSUME NEW c \in Handlers, Measuring(c)
        PROVE  spent'[c] = IF startTicks[c] >= cvr' THEN startTicks[c] - cvr'
                           ELSE startTicks[c] - cvr' + CvrSize
    <3>1. spent'[c] = spent[c] + 1 /\ spent[c] + 1 < CvrSize /\ c \in Contexts
      BY <1>2, <2>1 DEF Handlers
    <3>2. spent[c] = IF startTicks[c] >= cvr THEN startTicks[c] - cvr
                     ELSE startTicks[c] - cvr + CvrSize
      BY <2>1 DEF VectorInv, TicksTold
    <3> QED
      BY <1>1, <1>3, <3>1, <3>2
  <2>2. \A c \in Handlers : pc[c] \in {"outer", "load", "store"} =>
                              spent'[c] = spent[c] /\ delta'[c] = delta[c]
    BY <1>2 DEF Measuring, Handlers
  <2> QED
    BY <1>2, <2>1, <2>2 DEF VectorInv, TicksTold, Measuring
<1>7. Adding' /\ DutyCounted'
  BY <1>2 DEF VectorInv, Adding, DutyCounted, RetToBase, Active
<1> QED
  BY <1>5, <1>6, <1>7 DEF VectorInv

-----------------------------------------------------------------------------
\* Every step keeps the invariant.
LEMMA VectorStep == VectorInv /\ [VectorNext]_vectorProofVars => VectorInv'
<1> SUFFICES ASSUME VectorInv, [VectorNext]_vectorProofVars PROVE VectorInv'
  OBVIOUS
<1>1. CASE UNCHANGED vectorProofVars
  BY <1>1 DEF VectorInv, VectorTypes, TicksTold, Adding, DutyCounted, Measuring,
              RetToBase, Active, vectorProofVars, cpuVars, vectorVars, ghostVars
<1> QED
  BY <1>1, EnterStep, LeaveStep, TestStep, LoadStep, StoreStep, EndStep, TickStep
     DEF VectorNext

\* The inductive invariant: who may add to the sum, and what it has loaded, whatever
\* context ends the RTIs (VectorTable.cpp:81-131).
THEOREM VectorInvariance == VectorSpec => []VectorInv
<1>1. VectorAloneInit => VectorInv
  BY VectorInitial DEF VectorAloneInit
<1> QED
  BY <1>1, VectorStep, PTL DEF VectorSpec, vectorProofVars

\* The sum of the RTI is never less than the time of the outermost handlers added in
\* it and the mark never less than the most of any RTI; they are no more unless an RTI
\* has ended in the middle of an addition (VectorTable.cpp:56-65, :81-131).
THEOREM DutyIsCounted == VectorSpec => []DutyCounted
<1>1. VectorInv => DutyCounted
  BY DEF VectorInv
<1> QED
  BY <1>1, VectorInvariance, PTL

-----------------------------------------------------------------------------
(***************************************************************************)
(* Profiler: what its hooks write is the order of the events, for every size *)
(* of the region and every number of RTIs in a second                      *)
(***************************************************************************)
SectionLabels == {"trace", "advance", "disable", "enable", "restore"}
HookLabels == {"idle", "save", "mask"} \cup SectionLabels
HookEvents == FunctionEvents \cup {"unused", "end"}

InHook(c) == pc[c] \in SectionLabels

ProfilerTypes ==
  /\ pc \in [Contexts -> HookLabels]
  /\ primask \in {0, 1} /\ saved \in [Contexts -> {0, 1}]
  /\ hook \in [Contexts -> [does : {"nothing", "trace", "disable", "enable"},
                            event : HookEvents]]
  /\ region \in [1 .. RegionSize -> HookEvents]
  /\ writePtr \in 0 .. RegionSize
  /\ traced \in Seq(FunctionEvents)
  /\ finished \in BOOLEAN /\ runDone \in BOOLEAN
  /\ rti \in 0 .. 2 * RtisPerSecond - 1
  /\ wantedRti \in (0 .. RtisPerSecond - 1) \cup {RtiDisabled}
  /\ waited \in Nat

\* Interrupts are masked in the section of one context, which nothing preempts, and
\* every section began with interrupts enabled.
HooksMasked ==
  /\ primask = 1 <=> \E c \in Contexts : InHook(c)
  /\ \A c, d \in Contexts : InHook(c) /\ d > c => pc[d] = "idle"
  /\ \A c \in Contexts : InHook(c) \/ pc[c] = "mask" => saved[c] = 0

\* What a context does under its lock; only the main loop enables and disables.
HookFits(c) ==
  /\ pc[c] = "idle" <=> hook[c].does = "nothing"
  /\ hook[c].does = "trace" => hook[c].event \in FunctionEvents
  /\ hook[c].does \in {"disable", "enable"} => c = Main
  /\ pc[c] \in {"trace", "advance"} => hook[c].does = "trace"
  /\ pc[c] \in {"disable", "enable"} => hook[c].does = pc[c]
  /\ pc[c] = "advance" =>
       writePtr < RegionSize /\ region[writePtr + 1] = hook[c].event

HooksFit == \A c \in Contexts : HookFits(c)

\* The region begins with the events traced; behind them it is being written, or
\* it is marked there, or full.
RegionTrue ==
  /\ Len(traced) <= RegionSize
  /\ \A i \in 1 .. Len(traced) : region[i] = traced[i]
  /\ ~ finished => writePtr = Len(traced)
  /\ finished =>
       /\ writePtr = RegionSize
       /\ Len(traced) < RegionSize => region[Len(traced) + 1] \in {"end", "unused"}

\* The runs until the one that enables the profiler, that one included.
Away(t, n) == IF t >= n THEN t - n ELSE t - n + RtisPerSecond

Remaining ==
  LET away == Away(TriggerRti, rti % RtisPerSecond)
  IN  IF ~ runDone THEN away + 1 ELSE IF away = 0 THEN RtisPerSecond ELSE away

InTime ==
  wantedRti # RtiDisabled =>
    waited + (IF hook[Main].does = "enable" THEN 0 ELSE Remaining) <= RtisPerSecond

ProfilerInv == ProfilerTypes /\ HooksMasked /\ HooksFit /\ RegionTrue /\ InTime

-----------------------------------------------------------------------------
LEMMA ProfilerConstants ==
  /\ RegionSize \in Nat \ {0} /\ RtisPerSecond \in Nat \ {0} /\ RtiDisabled \in Nat
  /\ "unused" \notin FunctionEvents /\ "end" \notin FunctionEvents
  /\ Main \in Contexts /\ Contexts \subseteq Nat /\ Main = 0
  BY ProfilerAssumption, IrqsAssumption DEF Contexts, Main

LEMMA ProfilerInitial == CpuInit /\ ProfilerInit => ProfilerInv
<1> SUFFICES ASSUME CpuInit, ProfilerInit PROVE ProfilerInv
  OBVIOUS
<1> USE DEF CpuInit, ProfilerInit
<1>1. ProfilerTypes
  BY ProfilerConstants DEF ProfilerTypes, HookLabels, HookEvents, NoHook
<1>2. HooksMasked
  BY DEF HooksMasked, InHook, SectionLabels
<1>3. HooksFit
  BY DEF HooksFit, HookFits, NoHook
<1>4. RegionTrue
  <2>1. Len(traced) = 0 /\ 1 \in 1 .. RegionSize /\ region[1] = "unused"
    BY ProfilerConstants
  <2> QED BY <2>1, ProfilerConstants DEF RegionTrue
<1>5. InTime
  BY DEF InTime
<1> QED BY <1>1, <1>2, <1>3, <1>4, <1>5 DEF ProfilerInv

\* A context that runs is the only one that may be in a section.
LEMMA HookAlone ==
  ASSUME ProfilerTypes, HooksMasked, NEW c \in Contexts, Executes(c), pc[c] # "idle"
  PROVE  /\ \A d \in Contexts : d # c => ~ InHook(d)
         /\ primask = IF InHook(c) THEN 1 ELSE 0
<1>1. ASSUME NEW d \in Contexts, d # c, InHook(d) PROVE FALSE
  <2>1. pc[d] # "idle"
    BY <1>1 DEF InHook, SectionLabels
  <2>2. ~ d > c
    BY <2>1 DEF Executes
  <2>3. ~ d < c
    BY <1>1 DEF HooksMasked
  <2> QED BY <1>1, <2>2, <2>3, ProfilerConstants
<1> QED BY <1>1 DEF HooksMasked, ProfilerTypes

LEMMA NoHookRuns ==
  ASSUME ProfilerTypes, HooksMasked, NEW c \in Contexts, MayStart(c)
  PROVE  /\ \A d \in Contexts : ~ InHook(d)
         /\ primask = 0 /\ Executes(c) /\ pc[c] = "idle"
<1>1. Executes(c) /\ pc[c] = "idle"
  BY DEF MayStart, At
<1>2. CASE c = Main
  <2>1. \A d \in Contexts : pc[d] = "idle"
    BY <1>1, <1>2, ProfilerConstants DEF Executes, Contexts
  <2>2. \A d \in Contexts : ~ InHook(d)
    BY <2>1 DEF InHook, SectionLabels
  <2> QED BY <1>1, <2>2 DEF HooksMasked, ProfilerTypes
<1>3. CASE c # Main
  BY <1>1, <1>3 DEF MayStart, HooksMasked
<1> QED BY <1>2, <1>3

\* c goes to a label, where the mask is what it must be.
LEMMA MoveMasked ==
  ASSUME ProfilerTypes, HooksMasked, NEW c \in Contexts, NEW l \in HookLabels,
         Executes(c), \A d \in Contexts : d # c => ~ InHook(d),
         pc' = [pc EXCEPT ![c] = l],
         primask' = IF l \in SectionLabels THEN 1 ELSE 0,
         saved' \in [Contexts -> {0, 1}],
         \A d \in Contexts : d # c => saved'[d] = saved[d],
         l \in SectionLabels \cup {"mask"} => saved'[c] = 0
  PROVE  HooksMasked'
<1>1. pc'[c] = l /\ \A d \in Contexts : d # c => pc'[d] = pc[d]
  BY DEF ProfilerTypes
<1>2. InHook(c)' <=> l \in SectionLabels
  BY <1>1 DEF InHook
<1>3. \A d \in Contexts : d # c => ~ InHook(d)'
  BY <1>1 DEF InHook
<1>4. (primask = 1)' <=> \E d \in Contexts : InHook(d)'
  BY <1>2, <1>3
<1>5. \A b, d \in Contexts : InHook(b)' /\ d > b => pc'[d] = "idle"
  <2> SUFFICES ASSUME NEW b \in Contexts, NEW d \in Contexts, InHook(b)', d > b
               PROVE  pc'[d] = "idle"
    OBVIOUS
  <2>1. b = c /\ d # c
    BY <1>3, ProfilerConstants
  <2> QED BY <1>1, <2>1 DEF Executes
<1>6. \A d \in Contexts : InHook(d)' \/ pc'[d] = "mask" => saved'[d] = 0
  <2> SUFFICES ASSUME NEW d \in Contexts, InHook(d)' \/ pc'[d] = "mask"
               PROVE  saved'[d] = 0
    OBVIOUS
  <2>1. CASE d = c
    BY <1>1, <1>2, <2>1
  <2>2. CASE d # c
    BY <1>1, <1>3, <2>2 DEF HooksMasked
  <2> QED BY <2>1, <2>2
<1> QED BY <1>4, <1>5, <1>6 DEF HooksMasked

\* The contexts that do not step keep what they do: none of them is in a section,
\* where the region would matter to it.
LEMMA OthersFit ==
  ASSUME ProfilerTypes, HooksFit, NEW c \in Contexts,
         \A d \in Contexts : d # c => ~ InHook(d),
         \A d \in Contexts : d # c => pc'[d] = pc[d] /\ hook'[d] = hook[d],
         HookFits(c)'
  PROVE  HooksFit'
<1> SUFFICES ASSUME NEW d \in Contexts, d # c PROVE HookFits(d)'
  BY DEF HooksFit
<1>1. pc[d] # "advance"
  BY DEF InHook, SectionLabels
<1>2. HookFits(d)
  BY DEF HooksFit
<1> QED BY <1>1, <1>2 DEF HookFits

\* A hook, or another function under the lock, begins.
LEMMA HookBegins ==
  ASSUME ProfilerTypes, HooksMasked, HooksFit, NEW c \in Contexts,
         NEW does \in {"trace", "disable", "enable"}, NEW event \in HookEvents,
         Begin(c, does, event),
         does = "trace" => event \in FunctionEvents,
         does # "trace" => c = Main,
         UNCHANGED <<primask, saved>>
  PROVE  /\ pc' \in [Contexts -> HookLabels]
         /\ hook' \in [Contexts -> [does : {"nothing", "trace", "disable", "enable"},
                                    event : HookEvents]]
         /\ hook'[c].does = does /\ \A d \in Contexts : d # c => hook'[d] = hook[d]
         /\ HooksMasked' /\ HooksFit'
<1> USE DEF Begin, Goto
<1>1. /\ \A d \in Contexts : ~ InHook(d)
      /\ primask = 0 /\ Executes(c) /\ pc[c] = "idle"
  BY NoHookRuns
<1>2. /\ pc' = [pc EXCEPT ![c] = "save"]
      /\ hook' = [hook EXCEPT ![c] = [does |-> does, event |-> event]]
  OBVIOUS
<1>3. "save" \in HookLabels /\ "save" \notin SectionLabels \cup {"mask"}
  BY DEF HookLabels, SectionLabels
<1>4. pc' \in [Contexts -> HookLabels]
  BY <1>2, <1>3 DEF ProfilerTypes
<1>5. hook' \in [Contexts -> [does : {"nothing", "trace", "disable", "enable"},
                              event : HookEvents]]
  BY <1>2 DEF ProfilerTypes
<1>6. /\ pc'[c] = "save" /\ hook'[c].does = does /\ hook'[c].event = event
      /\ \A d \in Contexts : d # c => pc'[d] = pc[d] /\ hook'[d] = hook[d]
  BY <1>2 DEF ProfilerTypes
<1>7. HooksMasked'
  BY <1>1, <1>2, <1>3, MoveMasked DEF ProfilerTypes
<1>8. HookFits(c)'
  BY <1>6 DEF HookFits
<1>9. HooksFit'
  BY <1>1, <1>6, <1>8, OthersFit
<1> QED BY <1>4, <1>5, <1>6, <1>7, <1>9

\* Nothing happens to the region.
LEMMA RegionKept ==
  ASSUME RegionTrue, UNCHANGED <<region, writePtr, traced, finished>>
  PROVE  RegionTrue'
  BY DEF RegionTrue

LEMMA TimeKept ==
  ASSUME InTime, UNCHANGED <<wantedRti, rti, runDone, waited>>,
         hook'[Main].does = "enable" <=> hook[Main].does = "enable"
  PROVE  InTime'
  BY DEF InTime, Remaining, Away, TriggerRti

LEMMA HookStep ==
  ASSUME ProfilerInv, NEW c \in Contexts, NEW e \in FunctionEvents, FunctionHook(c, e)
  PROVE  ProfilerInv'
<1> USE DEF ProfilerInv
<1>1. /\ Begin(c, "trace", e)
      /\ UNCHANGED <<primask, saved, region, writePtr, wantedRti, rti, runDone, traced,
                     finished, waited>>
  BY DEF FunctionHook
<1>2. e \in HookEvents
  BY DEF HookEvents
<1>3. /\ pc' \in [Contexts -> HookLabels]
      /\ hook' \in [Contexts -> [does : {"nothing", "trace", "disable", "enable"},
                                 event : HookEvents]]
      /\ hook'[c].does = "trace" /\ \A d \in Contexts : d # c => hook'[d] = hook[d]
      /\ HooksMasked' /\ HooksFit'
  BY <1>1, <1>2, HookBegins
<1>4. pc[c] = "idle"
  BY <1>1 DEF Begin, MayStart, At
<1>5. hook'[Main].does = "enable" <=> hook[Main].does = "enable"
  <2>1. hook[c].does = "nothing"
    BY <1>4 DEF HooksFit, HookFits
  <2> QED BY <1>3, <2>1, ProfilerConstants
<1>6. ProfilerTypes'
  BY <1>1, <1>3 DEF ProfilerTypes
<1>7. RegionTrue'
  BY <1>1, RegionKept
<1>8. InTime'
  BY <1>1, <1>5, TimeKept
<1> QED BY <1>3, <1>6, <1>7, <1>8

LEMMA DisableHookBegins == ASSUME ProfilerInv, ProfilerDisable PROVE ProfilerInv'
<1> USE DEF ProfilerInv
<1>1. /\ Begin(Main, "disable", "end")
      /\ UNCHANGED <<primask, saved, region, writePtr, wantedRti, rti, runDone, traced,
                     finished, waited>>
  BY DEF ProfilerDisable
<1>2. "end" \in HookEvents /\ Main \in Contexts
  BY ProfilerConstants DEF HookEvents
<1>3. /\ pc' \in [Contexts -> HookLabels]
      /\ hook' \in [Contexts -> [does : {"nothing", "trace", "disable", "enable"},
                                 event : HookEvents]]
      /\ hook'[Main].does = "disable" /\ HooksMasked' /\ HooksFit'
  BY <1>1, <1>2, HookBegins
<1>4. hook[Main].does = "nothing"
  BY <1>1, <1>2 DEF Begin, MayStart, At, HooksFit, HookFits
<1>5. ProfilerTypes'
  BY <1>1, <1>3 DEF ProfilerTypes
<1>6. RegionTrue'
  BY <1>1, RegionKept
<1>7. InTime'
  BY <1>1, <1>3, <1>4, TimeKept
<1> QED BY <1>3, <1>5, <1>6, <1>7

\* A step of a context under way that goes to another label.
LEMMA UnderWay ==
  ASSUME ProfilerTypes, HooksMasked, HooksFit, NEW c \in Contexts, NEW from,
         At(c, from), from # "idle"
  PROVE  /\ Executes(c) /\ pc[c] = from /\ hook[c].does # "nothing"
         /\ \A d \in Contexts : d # c => ~ InHook(d)
         /\ primask = IF from \in SectionLabels THEN 1 ELSE 0
         /\ from \in SectionLabels \cup {"mask"} => saved[c] = 0
<1>1. Executes(c) /\ pc[c] = from /\ pc[c] # "idle"
  BY DEF At
<1>2. /\ \A d \in Contexts : d # c => ~ InHook(d)
      /\ primask = IF InHook(c) THEN 1 ELSE 0
  BY <1>1, HookAlone
<1>3. hook[c].does # "nothing"
  BY <1>1 DEF HooksFit, HookFits
<1>4. from \in SectionLabels \cup {"mask"} => saved[c] = 0
  BY <1>1 DEF HooksMasked, InHook
<1> QED BY <1>1, <1>2, <1>3, <1>4 DEF InHook

\* A step on the way into a section.
LEMMA IntoSection ==
  ASSUME ProfilerTypes, HooksMasked, HooksFit, NEW c \in Contexts,
         NEW from \in {"save", "mask"}, At(c, from), NEW l \in HookLabels,
         UNCHANGED profilerVars, pc' = [pc EXCEPT ![c] = l],
         l = "mask" \/ (l = hook[c].does /\ l \in SectionLabels),
         primask' = IF l \in SectionLabels THEN 1 ELSE 0,
         saved' = [saved EXCEPT ![c] = 0]
  PROVE  HooksMasked' /\ HooksFit' /\ ProfilerTypes'
<1>1. /\ Executes(c) /\ pc[c] = from /\ hook[c].does # "nothing"
      /\ \A d \in Contexts : d # c => ~ InHook(d)
  BY UnderWay
<1>2. pc' \in [Contexts -> HookLabels] /\ saved' \in [Contexts -> {0, 1}]
  BY DEF ProfilerTypes
<1>3. /\ saved'[c] = 0 /\ pc'[c] = l
      /\ \A d \in Contexts : d # c => saved'[d] = saved[d] /\ pc'[d] = pc[d]
  BY DEF ProfilerTypes
<1>4. HooksMasked'
  BY <1>1, <1>2, <1>3, MoveMasked
<1>5. HookFits(c)
  BY DEF HooksFit
<1>6. hook' = hook /\ l # "advance" /\ l # "idle"
  BY DEF profilerVars, ProfilerTypes
<1>7. HookFits(c)'
  BY <1>1, <1>3, <1>5, <1>6 DEF HookFits
<1>8. HooksFit'
  BY <1>1, <1>3, <1>6, <1>7, OthersFit
<1>9. ProfilerTypes'
  BY <1>2 DEF ProfilerTypes, profilerVars
<1> QED BY <1>4, <1>8, <1>9

LEMMA LockingStep ==
  ASSUME ProfilerInv, NEW c \in Contexts, ProfilerLock(c) PROVE ProfilerInv'
<1> USE DEF ProfilerInv
<1>1. UNCHANGED profilerVars
  BY DEF ProfilerLock
<1>2. HooksMasked' /\ HooksFit' /\ ProfilerTypes'
  <2>1. CASE SavePrimask(c)
    <3>1. At(c, "save") /\ saved' = [saved EXCEPT ![c] = primask] /\ primask' = primask
          /\ pc' = [pc EXCEPT ![c] = "mask"]
      BY <2>1 DEF SavePrimask, Goto
    <3>2. primask = 0 /\ "mask" \in HookLabels /\ "mask" \notin SectionLabels
      BY <3>1, UnderWay DEF HookLabels, SectionLabels
    <3>3. /\ saved' = [saved EXCEPT ![c] = 0]
          /\ primask' = IF "mask" \in SectionLabels THEN 1 ELSE 0
      BY <3>1, <3>2
    <3>4. "save" \in {"save", "mask"}
      OBVIOUS
    <3>5. "mask" = "mask" \/ ("mask" = hook[c].does /\ "mask" \in SectionLabels)
      OBVIOUS
    <3> QED BY <1>1, <3>1, <3>2, <3>3, <3>4, <3>5, IntoSection
  <2>2. CASE MaskInterrupts(c, hook[c].does)
    <3>1. At(c, "mask") /\ saved' = saved /\ primask' = 1
          /\ pc' = [pc EXCEPT ![c] = hook[c].does]
      BY <2>2 DEF MaskInterrupts, Goto
    <3>2. saved[c] = 0 /\ hook[c].does # "nothing"
      BY <3>1, UnderWay
    <3>3. saved' = [saved EXCEPT ![c] = 0]
      BY <3>1, <3>2 DEF ProfilerTypes
    <3>4. hook[c].does \in SectionLabels /\ hook[c].does \in HookLabels
      BY <3>2 DEF ProfilerTypes, SectionLabels, HookLabels
    <3>5. primask' = IF hook[c].does \in SectionLabels THEN 1 ELSE 0
      BY <3>1, <3>4
    <3>6. "mask" \in {"save", "mask"}
      OBVIOUS
    <3> QED BY <1>1, <3>1, <3>3, <3>4, <3>5, <3>6, IntoSection
  <2> QED BY <2>1, <2>2 DEF ProfilerLock
<1>3. RegionTrue'
  BY <1>1, RegionKept DEF profilerVars
<1>4. InTime'
  BY <1>1, TimeKept DEF profilerVars
<1> QED BY <1>2, <1>3, <1>4

\* A step inside a section: the context stays masked, and does what it did.
LEMMA SectionMove ==
  ASSUME ProfilerTypes, HooksMasked, HooksFit, NEW c \in Contexts,
         NEW from \in SectionLabels, At(c, from), NEW l \in {"advance", "restore"},
         pc' = [pc EXCEPT ![c] = l], hook' = hook, UNCHANGED <<primask, saved>>,
         l = "advance" => hook[c].does = "trace" /\ writePtr' < RegionSize
                          /\ region'[writePtr' + 1] = hook[c].event
  PROVE  /\ HooksMasked' /\ HooksFit' /\ pc' \in [Contexts -> HookLabels]
         /\ primask' \in {0, 1} /\ saved' \in [Contexts -> {0, 1}]
         /\ hook' \in [Contexts -> [does : {"nothing", "trace", "disable", "enable"},
                                    event : HookEvents]]
<1>1. /\ Executes(c) /\ pc[c] = from /\ hook[c].does # "nothing"
      /\ \A d \in Contexts : d # c => ~ InHook(d)
      /\ primask = 1 /\ saved[c] = 0
  <2>1. from # "idle" /\ from \in SectionLabels \cup {"mask"}
    BY DEF SectionLabels
  <2> QED BY <2>1, UnderWay
<1>2. l \in HookLabels /\ l \in SectionLabels
  BY DEF HookLabels, SectionLabels
<1>3. pc' \in [Contexts -> HookLabels] /\ saved' \in [Contexts -> {0, 1}]
  BY <1>2 DEF ProfilerTypes
<1>4. pc'[c] = l /\ \A d \in Contexts : d # c => pc'[d] = pc[d]
  BY DEF ProfilerTypes
<1>5. HooksMasked'
  BY <1>1, <1>2, <1>3, MoveMasked
<1>6. HookFits(c)
  BY DEF HooksFit
<1>7. HookFits(c)'
  BY <1>1, <1>4, <1>6 DEF HookFits
<1>8. HooksFit'
  BY <1>1, <1>4, <1>7, OthersFit
<1> QED BY <1>3, <1>5, <1>8 DEF ProfilerTypes

LEMMA EventStored ==
  ASSUME ProfilerInv, NEW c \in Contexts, StoreEvent(c) PROVE ProfilerInv'
<1> USE DEF ProfilerInv
<1>1. /\ At(c, "trace")
      /\ UNCHANGED <<primask, saved, writePtr, wantedRti, rti, runDone, hook, traced,
                     finished, waited>>
  BY DEF StoreEvent
<1>2. /\ pc[c] = "trace" /\ hook[c].does = "trace" /\ hook[c].event \in FunctionEvents
  BY <1>1 DEF At, HooksFit, HookFits
<1> DEFINE l == IF writePtr < RegionSize THEN "advance" ELSE "restore"
<1>3. /\ pc' = [pc EXCEPT ![c] = l]
      /\ region' = IF writePtr < RegionSize
                   THEN [region EXCEPT ![writePtr + 1] = hook[c].event] ELSE region
  BY DEF StoreEvent, Goto
<1>4. writePtr < RegionSize => writePtr + 1 \in 1 .. RegionSize
  BY ProfilerConstants DEF ProfilerTypes
<1>5. l = "advance" => hook[c].does = "trace" /\ writePtr' < RegionSize
                       /\ region'[writePtr' + 1] = hook[c].event
  BY <1>1, <1>2, <1>3, <1>4 DEF ProfilerTypes
<1>6. /\ HooksMasked' /\ HooksFit' /\ pc' \in [Contexts -> HookLabels]
      /\ primask' \in {0, 1} /\ saved' \in [Contexts -> {0, 1}]
      /\ hook' \in [Contexts -> [does : {"nothing", "trace", "disable", "enable"},
                                 event : HookEvents]]
  <2>1. "trace" \in SectionLabels /\ l \in {"advance", "restore"}
    BY DEF SectionLabels
  <2> HIDE DEF l
  <2> QED BY <1>1, <1>3, <1>5, <2>1, SectionMove
<1>7. region' \in [1 .. RegionSize -> HookEvents]
  BY <1>2, <1>3, <1>4 DEF ProfilerTypes, HookEvents
<1>8. ProfilerTypes'
  BY <1>1, <1>6, <1>7 DEF ProfilerTypes
<1>9. RegionTrue'
  <2>1. CASE writePtr < RegionSize
    <3>1. ~ finished /\ writePtr = Len(traced)
      BY <2>1 DEF RegionTrue, ProfilerTypes
    <3>2. \A i \in 1 .. Len(traced) : i # writePtr + 1 /\ i \in 1 .. RegionSize
      BY <3>1, ProfilerConstants DEF RegionTrue, ProfilerTypes
    <3>3. \A i \in 1 .. Len(traced) : region'[i] = traced[i]
      BY <1>3, <1>4, <2>1, <3>2 DEF RegionTrue, ProfilerTypes
    <3> QED BY <1>1, <3>1, <3>3 DEF RegionTrue
  <2>2. CASE ~ writePtr < RegionSize
    BY <1>1, <1>3, <2>2 DEF RegionTrue
  <2> QED BY <2>1, <2>2
<1>10. InTime'
  BY <1>1, TimeKept
<1> QED BY <1>6, <1>8, <1>9, <1>10

LEMMA AdvanceStep ==
  ASSUME ProfilerInv, NEW c \in Contexts, AdvancePtr(c) PROVE ProfilerInv'
<1> USE DEF ProfilerInv
<1>1. /\ At(c, "advance")
      /\ writePtr' = writePtr + 1 /\ traced' = Append(traced, hook[c].event)
      /\ pc' = [pc EXCEPT ![c] = "restore"]
      /\ UNCHANGED <<primask, saved, region, wantedRti, rti, runDone, hook, finished,
                     waited>>
  BY DEF AdvancePtr, Goto
<1>2. /\ writePtr < RegionSize /\ region[writePtr + 1] = hook[c].event
      /\ hook[c].event \in FunctionEvents
  BY <1>1 DEF At, HooksFit, HookFits
<1>3. /\ HooksMasked' /\ HooksFit' /\ pc' \in [Contexts -> HookLabels]
      /\ primask' \in {0, 1} /\ saved' \in [Contexts -> {0, 1}]
      /\ hook' \in [Contexts -> [does : {"nothing", "trace", "disable", "enable"},
                                 event : HookEvents]]
  <2>1. "advance" \in SectionLabels
    BY DEF SectionLabels
  <2> QED BY <1>1, <2>1, SectionMove
<1>4. ~ finished /\ writePtr = Len(traced)
  BY <1>2 DEF RegionTrue, ProfilerTypes
<1>5. /\ traced' \in Seq(FunctionEvents) /\ Len(traced') = Len(traced) + 1
      /\ traced'[Len(traced) + 1] = hook[c].event
      /\ \A i \in 1 .. Len(traced) : traced'[i] = traced[i]
  <2>1. traced \in Seq(FunctionEvents)
    BY DEF ProfilerTypes
  <2> QED BY <1>1, <1>2, <2>1
<1>6. writePtr' \in 0 .. RegionSize
  BY <1>1, <1>2, ProfilerConstants DEF ProfilerTypes
<1>7. ProfilerTypes'
  BY <1>1, <1>3, <1>5, <1>6 DEF ProfilerTypes
<1>8. RegionTrue'
  <2>1. Len(traced) \in Nat
    BY DEF ProfilerTypes
  <2>2. \A i \in 1 .. Len(traced') : i \in 1 .. Len(traced) \/ i = Len(traced) + 1
    BY <1>5, <2>1
  <2>3. \A i \in 1 .. Len(traced') : region'[i] = traced'[i]
    BY <1>1, <1>2, <1>4, <1>5, <2>2 DEF RegionTrue
  <2>4. Len(traced') <= RegionSize /\ writePtr' = Len(traced')
    BY <1>1, <1>4, <1>5, <1>6, ProfilerConstants
  <2> QED BY <1>1, <1>4, <2>3, <2>4 DEF RegionTrue
<1>9. InTime'
  BY <1>1, TimeKept
<1> QED BY <1>3, <1>7, <1>8, <1>9

LEMMA EnableStep == ASSUME ProfilerInv, DoEnable PROVE ProfilerInv'
<1> USE DEF ProfilerInv
<1>1. /\ At(Main, "enable")
      /\ writePtr' = 0 /\ traced' = <<>> /\ finished' = FALSE
      /\ pc' = [pc EXCEPT ![Main] = "restore"]
      /\ UNCHANGED <<primask, saved, region, wantedRti, rti, runDone, hook, waited>>
  BY DEF DoEnable, Goto
<1>2. Main \in Contexts /\ "enable" \in SectionLabels
  BY ProfilerConstants DEF SectionLabels
<1>3. /\ HooksMasked' /\ HooksFit' /\ pc' \in [Contexts -> HookLabels]
      /\ primask' \in {0, 1} /\ saved' \in [Contexts -> {0, 1}]
      /\ hook' \in [Contexts -> [does : {"nothing", "trace", "disable", "enable"},
                                 event : HookEvents]]
  BY <1>1, <1>2, SectionMove
<1>4. traced' \in Seq(FunctionEvents) /\ Len(traced') = 0
  BY <1>1
<1>5. ProfilerTypes'
  <2>1. writePtr' \in 0 .. RegionSize
    BY <1>1, ProfilerConstants
  <2> QED BY <1>1, <1>3, <1>4, <2>1 DEF ProfilerTypes
<1>6. RegionTrue'
  BY <1>1, <1>4, ProfilerConstants DEF RegionTrue
<1>7. InTime'
  BY <1>1, TimeKept
<1> QED BY <1>3, <1>5, <1>6, <1>7

LEMMA DisableStep == ASSUME ProfilerInv, DoDisable PROVE ProfilerInv'
<1> USE DEF ProfilerInv
<1>1. /\ At(Main, "disable")
      /\ region' = IF writePtr < RegionSize THEN [region EXCEPT ![writePtr + 1] = "end"]
                   ELSE region
      /\ writePtr' = RegionSize /\ wantedRti' = RtiDisabled /\ finished' = TRUE
      /\ pc' = [pc EXCEPT ![Main] = "restore"]
      /\ UNCHANGED <<primask, saved, rti, runDone, hook, traced, waited>>
  BY DEF DoDisable, Goto
<1>2. Main \in Contexts /\ "disable" \in SectionLabels
  BY ProfilerConstants DEF SectionLabels
<1>3. /\ HooksMasked' /\ HooksFit' /\ pc' \in [Contexts -> HookLabels]
      /\ primask' \in {0, 1} /\ saved' \in [Contexts -> {0, 1}]
      /\ hook' \in [Contexts -> [does : {"nothing", "trace", "disable", "enable"},
                                 event : HookEvents]]
  BY <1>1, <1>2, SectionMove
<1>4. writePtr < RegionSize => writePtr + 1 \in 1 .. RegionSize
  BY ProfilerConstants DEF ProfilerTypes
<1>5. region' \in [1 .. RegionSize -> HookEvents]
  BY <1>1, <1>4 DEF ProfilerTypes, HookEvents
<1>6. ProfilerTypes'
  BY <1>1, <1>3, <1>5, ProfilerConstants DEF ProfilerTypes
<1>7. RegionTrue'
  <2>0. Len(traced) \in Nat
    BY DEF ProfilerTypes
  <2>1. CASE writePtr < RegionSize
    <3>1. writePtr = Len(traced)
      BY <2>1 DEF RegionTrue, ProfilerTypes
    <3>2. \A i \in 1 .. Len(traced) : i # writePtr + 1 /\ i \in 1 .. RegionSize
      BY <2>0, <3>1, ProfilerConstants DEF RegionTrue
    <3>3. \A i \in 1 .. Len(traced) : region'[i] = traced[i]
      BY <1>1, <1>4, <2>1, <3>2 DEF RegionTrue, ProfilerTypes
    <3>4. region'[Len(traced) + 1] = "end"
      BY <1>1, <1>4, <2>1, <3>1 DEF ProfilerTypes
    <3> QED BY <1>1, <3>3, <3>4 DEF RegionTrue
  <2>2. CASE ~ writePtr < RegionSize
    <3>1. region' = region /\ ~ finished => Len(traced) = RegionSize
      BY <1>1, <2>2, ProfilerConstants DEF RegionTrue, ProfilerTypes
    <3>2. region' = region
      BY <1>1, <2>2
    <3>3. ~ finished => ~ Len(traced) < RegionSize
      BY <3>1, <3>2, <2>0, ProfilerConstants
    <3>4. finished \in BOOLEAN
      BY DEF ProfilerTypes
    <3> QED BY <1>1, <3>2, <3>3, <3>4 DEF RegionTrue
  <2> QED BY <2>1, <2>2
<1>8. InTime'
  BY <1>1 DEF InTime
<1> QED BY <1>3, <1>6, <1>7, <1>8

LEMMA UnlockStep ==
  ASSUME ProfilerInv, NEW c \in Contexts, Unlock(c) PROVE ProfilerInv'
<1> USE DEF ProfilerInv
<1>1. /\ At(c, "restore") /\ primask' = saved[c] /\ saved' = saved
      /\ pc' = [pc EXCEPT ![c] = "idle"]
      /\ wantedRti' = IF hook[c].does = "enable" THEN RtiDisabled ELSE wantedRti
      /\ hook' = [hook EXCEPT ![c] = NoHook]
      /\ UNCHANGED <<region, writePtr, rti, runDone, traced, finished, waited>>
  BY DEF Unlock, RestoreInterrupts, Goto
<1>2. "restore" \in SectionLabels /\ "idle" \notin SectionLabels \cup {"mask"}
      /\ "idle" \in HookLabels
  BY DEF SectionLabels, HookLabels
<1>3. /\ Executes(c) /\ \A d \in Contexts : d # c => ~ InHook(d)
      /\ saved[c] = 0
  <2>1. "restore" # "idle" /\ "restore" \in SectionLabels \cup {"mask"}
    BY <1>2
  <2> QED BY <1>1, <2>1, UnderWay
<1>4. /\ pc' \in [Contexts -> HookLabels] /\ saved' \in [Contexts -> {0, 1}]
      /\ hook' \in [Contexts -> [does : {"nothing", "trace", "disable", "enable"},
                                 event : HookEvents]]
  BY <1>1, <1>2 DEF ProfilerTypes, NoHook, HookEvents
<1>5. /\ pc'[c] = "idle" /\ hook'[c].does = "nothing"
      /\ \A d \in Contexts : d # c => pc'[d] = pc[d] /\ hook'[d] = hook[d]
  BY <1>1 DEF ProfilerTypes, NoHook
<1>6. HooksMasked'
  BY <1>1, <1>2, <1>3, <1>4, MoveMasked
<1>7. HookFits(c)'
  BY <1>5 DEF HookFits
<1>8. HooksFit'
  BY <1>3, <1>5, <1>7, OthersFit
<1>9. ProfilerTypes'
  BY <1>1, <1>3, <1>4, ProfilerConstants DEF ProfilerTypes
<1>10. RegionTrue'
  BY <1>1, RegionKept
<1>11. InTime'
  <2>1. CASE hook[c].does = "enable"
    BY <1>1, <2>1 DEF InTime
  <2>2. CASE hook[c].does # "enable"
    <3>1. hook'[Main].does = "enable" <=> hook[Main].does = "enable"
      BY <1>5, <2>2, ProfilerConstants
    <3> QED BY <1>1, <2>2, <3>1, TimeKept
  <2> QED BY <2>1, <2>2
<1> QED BY <1>6, <1>8, <1>9, <1>10, <1>11

-----------------------------------------------------------------------------
(***************************************************************************)
(* The RTI that is awaited                                                 *)
(***************************************************************************)
\* RTIs go on over two seconds; within the second they count from 0 again.
LEMMA RtiOfSecond ==
  ASSUME NEW r \in Nat \ {0}, NEW n \in 0 .. 2 * r - 1
  PROVE  /\ n % r = IF n < r THEN n ELSE n - r
         /\ (n + 1) % (2 * r) = IF n + 1 = 2 * r THEN 0 ELSE n + 1
         /\ (n + 1) % (2 * r) \in 0 .. 2 * r - 1
         /\ n % r \in 0 .. r - 1
         /\ ((n + 1) % (2 * r)) % r = IF n % r = r - 1 THEN 0 ELSE (n % r) + 1
<1>1. \A m \in 0 .. 2 * r - 1 : m % r = IF m < r THEN m ELSE m - r
  OBVIOUS
<1>2. (n + 1) % (2 * r) = IF n + 1 = 2 * r THEN 0 ELSE n + 1
  OBVIOUS
<1>3. (n + 1) % (2 * r) \in 0 .. 2 * r - 1
  BY <1>2
<1>4. n % r = IF n < r THEN n ELSE n - r
  BY <1>1
<1> DEFINE m == (n + 1) % (2 * r)
<1>5. m % r = IF m < r THEN m ELSE m - r
  <2> HIDE DEF m
  <2>1. m \in 0 .. 2 * r - 1
    BY <1>3 DEF m
  <2> QED BY <1>1, <2>1
<1> DEFINE p == n % r
           q == m % r
<1> HIDE DEF m, p, q
<1>6. m = IF n + 1 = 2 * r THEN 0 ELSE n + 1
  BY <1>2 DEF m
<1>7. p = (IF n < r THEN n ELSE n - r) /\ q = (IF m < r THEN m ELSE m - r)
  BY <1>4, <1>5 DEF p, q
<1>8. p \in 0 .. r - 1 /\ q = IF p = r - 1 THEN 0 ELSE p + 1
  BY <1>6, <1>7
<1> QED BY <1>2, <1>3, <1>4, <1>8 DEF m, p, q

\* The RTI that a U8 leaves of one of the second is one of the second.
LEMMA U8OfSecond ==
  ASSUME NEW n \in Nat, NEW m \in Nat \ {0}
  PROVE  n % m \in 0 .. n
<1> DEFINE q == n \div m
           k == n % m
<1>1. q \in Int /\ k \in 0 .. m - 1 /\ n = m * q + k
  OBVIOUS
<1> HIDE DEF q, k
<1>2. q >= 0
  <2>1. CASE q <= -1
    <3>1. m * q <= -m
      BY <1>1, <2>1
    <3> QED BY <1>1, <3>1
  <2> QED BY <1>1, <2>1
<1>3. m * q \in Nat
  BY <1>1, <1>2
<1>4. k \in 0 .. n
  <2> DEFINE z == m * q
  <2> HIDE DEF z
  <2>1. n = z + k /\ z \in Nat
    BY <1>1, <1>3 DEF z
  <2> QED BY <1>1, <2>1
<1> QED BY <1>4 DEF k

LEMMA TriggerType ==
  ASSUME NEW w \in 0 .. RtisPerSecond - 1
  PROVE  (IF w = 0 THEN RtisPerSecond - 1 ELSE w - 1) % (RtiDisabled + 1)
           \in 0 .. RtisPerSecond - 1
<1> DEFINE t == IF w = 0 THEN RtisPerSecond - 1 ELSE w - 1
<1>1. t \in Nat /\ t <= RtisPerSecond - 1 /\ RtiDisabled + 1 \in Nat \ {0}
  BY ProfilerConstants
<1> HIDE DEF t
<1>2. t % (RtiDisabled + 1) \in 0 .. t
  BY <1>1, U8OfSecond
<1>3. t % (RtiDisabled + 1) \in 0 .. RtisPerSecond - 1
  <2> DEFINE u == t % (RtiDisabled + 1)
  <2> HIDE DEF u
  <2>1. u \in 0 .. t
    BY <1>2 DEF u
  <2>2. u \in 0 .. RtisPerSecond - 1
    BY <1>1, <2>1, ProfilerConstants
  <2> QED BY <2>2 DEF u
<1> QED BY <1>3 DEF t

LEMMA RemainingType ==
  ASSUME ProfilerTypes, wantedRti # RtiDisabled
  PROVE  /\ rti % RtisPerSecond \in 0 .. RtisPerSecond - 1
         /\ TriggerRti \in 0 .. RtisPerSecond - 1
         /\ Away(TriggerRti, rti % RtisPerSecond) \in 0 .. RtisPerSecond - 1
         /\ Remaining \in 1 .. RtisPerSecond
<1>1. rti % RtisPerSecond \in 0 .. RtisPerSecond - 1
  BY RtiOfSecond, ProfilerConstants DEF ProfilerTypes
<1>2. TriggerRti \in 0 .. RtisPerSecond - 1
  <2>1. wantedRti \in 0 .. RtisPerSecond - 1
    BY DEF ProfilerTypes
  <2> QED BY <2>1, TriggerType DEF TriggerRti
<1> DEFINE p == rti % RtisPerSecond
<1> HIDE DEF p
<1>3. p \in 0 .. RtisPerSecond - 1
  BY <1>1 DEF p
<1>4. Away(TriggerRti, p) \in 0 .. RtisPerSecond - 1
  BY <1>2, <1>3, ProfilerConstants DEF Away
<1>5. Remaining \in 1 .. RtisPerSecond
  BY <1>4, ProfilerConstants DEF Remaining, ProfilerTypes, p
<1> QED BY <1>1, <1>2, <1>4, <1>5 DEF p

LEMMA AwayType ==
  ASSUME NEW t \in 0 .. RtisPerSecond - 1, NEW n \in 0 .. RtisPerSecond - 1
  PROVE  Away(t, n) \in 0 .. RtisPerSecond - 1
  BY ProfilerConstants DEF Away

LEMMA RunStep == ASSUME ProfilerInv, ProfilerRun PROVE ProfilerInv'
<1> USE DEF ProfilerInv
<1> DEFINE starts == /\ wantedRti # RtiDisabled
                     /\ rti % RtisPerSecond = TriggerRti
<1>1. /\ At(Main, "idle") /\ ~ runDone /\ runDone' = TRUE
      /\ starts => Begin(Main, "enable", "unused")
      /\ ~ starts => UNCHANGED <<pc, hook>>
      /\ waited' = IF wantedRti = RtiDisabled THEN waited ELSE waited + 1
      /\ UNCHANGED <<primask, saved, region, writePtr, wantedRti, rti, traced, finished>>
  BY DEF ProfilerRun, TriggerRti
<1>2. "unused" \in HookEvents /\ Main \in Contexts
  BY ProfilerConstants DEF HookEvents
<1>3. hook[Main].does = "nothing"
  BY <1>1, <1>2 DEF At, HooksFit, HookFits
<1> HIDE DEF starts
<1>4. /\ pc' \in [Contexts -> HookLabels]
      /\ hook' \in [Contexts -> [does : {"nothing", "trace", "disable", "enable"},
                                 event : HookEvents]]
      /\ HooksMasked' /\ HooksFit'
      /\ hook'[Main].does = IF starts THEN "enable" ELSE "nothing"
  <2>1. CASE starts
    BY <1>1, <1>2, <2>1, HookBegins
  <2>2. CASE ~ starts
    <3>1. UNCHANGED <<pc, hook, primask, saved, region, writePtr>>
      BY <1>1, <2>2
    <3>2. HooksMasked'
      BY <3>1 DEF HooksMasked, InHook
    <3>3. HooksFit'
      BY <3>1 DEF HooksFit, HookFits
    <3> QED BY <1>3, <2>2, <3>1, <3>2, <3>3 DEF ProfilerTypes
  <2> QED BY <2>1, <2>2
<1>5. ProfilerTypes'
  BY <1>1, <1>4 DEF ProfilerTypes
<1>6. RegionTrue'
  BY <1>1, RegionKept
<1>7. InTime'
  <2> SUFFICES ASSUME wantedRti # RtiDisabled
               PROVE  waited' + (IF starts THEN 0 ELSE Remaining') <= RtisPerSecond
    BY <1>1, <1>4 DEF InTime
  <2> DEFINE away == Away(TriggerRti, rti % RtisPerSecond)
  <2>1. /\ rti % RtisPerSecond \in 0 .. RtisPerSecond - 1
        /\ TriggerRti \in 0 .. RtisPerSecond - 1
        /\ away \in 0 .. RtisPerSecond - 1
    BY RemainingType
  <2>2. starts <=> rti % RtisPerSecond = TriggerRti
    BY DEF starts
  <2>3. away = 0 <=> rti % RtisPerSecond = TriggerRti
    BY <2>1, ProfilerConstants DEF Away
  <2>4. Remaining = away + 1
    BY <1>1 DEF Remaining
  <2>5. Remaining' = IF away = 0 THEN RtisPerSecond ELSE away
    BY <1>1 DEF Remaining, TriggerRti, Away
  <2>6. waited + Remaining <= RtisPerSecond /\ waited' = waited + 1 /\ waited \in Nat
    BY <1>1, <1>3 DEF InTime, ProfilerTypes
  <2> HIDE DEF away
  <2> QED BY <2>1, <2>2, <2>3, <2>4, <2>5, <2>6, ProfilerConstants
<1> QED BY <1>4, <1>5, <1>6, <1>7

LEMMA CommandStep ==
  ASSUME ProfilerInv, NEW r \in 0 .. RtisPerSecond, EnableCommand(r) PROVE ProfilerInv'
<1> USE DEF ProfilerInv
<1> DEFINE taken == r < RtisPerSecond /\ wantedRti = RtiDisabled
<1>1. /\ At(Main, "idle")
      /\ wantedRti' = IF taken THEN r ELSE wantedRti
      /\ waited' = IF taken THEN 0 ELSE waited
      /\ UNCHANGED <<pc, primask, saved, region, writePtr, rti, runDone, hook, traced,
                     finished>>
  BY DEF EnableCommand, cpuVars
<1> HIDE DEF taken
<1>2. taken => r \in 0 .. RtisPerSecond - 1
  BY ProfilerConstants DEF taken
<1>3. HooksMasked' /\ HooksFit'
  BY <1>1 DEF HooksMasked, InHook, HooksFit, HookFits
<1>4. ProfilerTypes'
  BY <1>1, <1>2 DEF ProfilerTypes
<1>5. RegionTrue'
  BY <1>1, RegionKept
<1>6. InTime'
  <2>1. CASE taken
    <3> DEFINE p == rti % RtisPerSecond
    <3>1. p \in 0 .. RtisPerSecond - 1
      BY RtiOfSecond, ProfilerConstants DEF ProfilerTypes
    <3>2. TriggerRti' \in 0 .. RtisPerSecond - 1
      <4>1. wantedRti' = r
        BY <1>1, <2>1
      <4> QED BY <1>2, <2>1, <4>1, TriggerType DEF TriggerRti
    <3> DEFINE away == Away(TriggerRti', p)
    <3>3. away \in 0 .. RtisPerSecond - 1
      <4> HIDE DEF p
      <4> QED BY <3>1, <3>2, AwayType, ProfilerConstants
    <3>4. Remaining' = IF ~ runDone THEN away + 1
                       ELSE IF away = 0 THEN RtisPerSecond ELSE away
      BY <1>1 DEF Remaining, Away
    <3> HIDE DEF p, away
    <3>5. Remaining' \in 0 .. RtisPerSecond
      BY <3>3, <3>4, ProfilerConstants
    <3>6. waited' = 0
      BY <1>1, <2>1
    <3> DEFINE left == IF hook'[Main].does = "enable" THEN 0 ELSE Remaining'
    <3>7. left \in 0 .. RtisPerSecond
      BY <3>5, ProfilerConstants
    <3>8. waited' + left <= RtisPerSecond
      <4> HIDE DEF left
      <4> QED BY <3>6, <3>7, ProfilerConstants
    <3> QED BY <3>8, Zenon DEF InTime
  <2>2. CASE ~ taken
    BY <1>1, <2>2, TimeKept
  <2> QED BY <2>1, <2>2
<1> QED BY <1>3, <1>4, <1>5, <1>6

LEMMA RtiStep == ASSUME ProfilerInv, ProfilerRti PROVE ProfilerInv'
<1> USE DEF ProfilerInv
<1>1. /\ At(Main, "idle") /\ runDone /\ runDone' = FALSE
      /\ rti' = (rti + 1) % (2 * RtisPerSecond)
      /\ UNCHANGED <<pc, primask, saved, region, writePtr, wantedRti, hook, traced,
                     finished, waited>>
  BY DEF ProfilerRti, cpuVars
<1>2. HooksMasked' /\ HooksFit'
  BY <1>1 DEF HooksMasked, InHook, HooksFit, HookFits
<1>3. rti' \in 0 .. 2 * RtisPerSecond - 1
      /\ rti' % RtisPerSecond = IF rti % RtisPerSecond = RtisPerSecond - 1 THEN 0
                                ELSE (rti % RtisPerSecond) + 1
  <2>1. rti \in 0 .. 2 * RtisPerSecond - 1
    BY DEF ProfilerTypes
  <2> QED BY <1>1, <2>1, RtiOfSecond, ProfilerConstants
<1>4. ProfilerTypes'
  BY <1>1, <1>3 DEF ProfilerTypes
<1>5. RegionTrue'
  BY <1>1, RegionKept
<1>6. InTime'
  <2> SUFFICES ASSUME wantedRti # RtiDisabled
               PROVE  waited + (IF hook[Main].does = "enable" THEN 0 ELSE Remaining')
                        <= RtisPerSecond
    BY <1>1 DEF InTime
  <2>1. waited + (IF hook[Main].does = "enable" THEN 0 ELSE Remaining) <= RtisPerSecond
    BY DEF InTime
  <2> DEFINE p == rti % RtisPerSecond
             q == rti' % RtisPerSecond
  <2>2. p \in 0 .. RtisPerSecond - 1 /\ TriggerRti \in 0 .. RtisPerSecond - 1
    BY RemainingType
  <2>3. Remaining = IF Away(TriggerRti, p) = 0 THEN RtisPerSecond ELSE Away(TriggerRti, p)
    BY <1>1 DEF Remaining
  <2>4. Remaining' = Away(TriggerRti, q) + 1
    BY <1>1 DEF Remaining, Away, TriggerRti
  <2>5. q = IF p = RtisPerSecond - 1 THEN 0 ELSE p + 1
    BY <1>3
  <2> HIDE DEF p, q
  <2>6. Remaining' = Remaining
    BY <2>2, <2>3, <2>4, <2>5, ProfilerConstants DEF Away
  <2> QED BY <2>1, <2>6
<1> QED BY <1>2, <1>4, <1>5, <1>6

LEMMA ProfilerStep ==
  ProfilerInv /\ [ProfilerNext]_<<cpuVars, profilerVars>> => ProfilerInv'
<1> SUFFICES ASSUME ProfilerInv, [ProfilerNext]_<<cpuVars, profilerVars>>
             PROVE  ProfilerInv'
  OBVIOUS
<1>1. ASSUME NEW c \in Contexts,
             \/ \E e \in FunctionEvents : FunctionHook(c, e)
             \/ ProfilerLock(c) \/ StoreEvent(c) \/ AdvancePtr(c) \/ Unlock(c)
      PROVE  ProfilerInv'
  BY <1>1, HookStep, LockingStep, EventStored, AdvanceStep, UnlockStep
<1>2. CASE ProfilerDisable \/ DoEnable \/ DoDisable
  BY <1>2, DisableHookBegins, EnableStep, DisableStep
<1>3. CASE ProfilerRun \/ ProfilerRti
  BY <1>3, RunStep, RtiStep
<1>4. ASSUME NEW r \in 0 .. RtisPerSecond, EnableCommand(r) PROVE ProfilerInv'
  BY <1>4, CommandStep
<1>5. CASE UNCHANGED <<cpuVars, profilerVars>>
  <2>1. /\ UNCHANGED <<pc, primask, saved, region, writePtr, wantedRti, rti, runDone>>
        /\ UNCHANGED <<hook, traced, finished, waited>>
    BY <1>5 DEF cpuVars, profilerVars
  <2>2. ProfilerTypes' /\ HooksMasked' /\ HooksFit'
    BY <2>1 DEF ProfilerInv, ProfilerTypes, HooksMasked, HooksFit, HookFits, InHook
  <2>3. RegionTrue' /\ InTime'
    BY <2>1, RegionKept, TimeKept DEF ProfilerInv
  <2> QED BY <2>2, <2>3 DEF ProfilerInv
<1> QED BY <1>1, <1>2, <1>3, <1>4, <1>5 DEF ProfilerNext

\* The hooks run with interrupts masked, the region begins with the events traced,
\* and the runs until the RTI that is awaited go down with every run
\* (Profiler.cpp:68-116, :122-166).
THEOREM ProfilerInvariance == ProfilerSpec => []ProfilerInv
<1>1. ProfilerAloneInit => ProfilerInv
  BY ProfilerInitial DEF ProfilerAloneInit
<1> QED BY <1>1, ProfilerStep, PTL DEF ProfilerSpec

\* What a parser takes from the region of a profile that is over: the mark is behind
\* the last event, and no event is a mark.
LEMMA RegionParses == ASSUME ProfilerInv, finished PROVE Profiled = traced
<1> DEFINE ends == {i \in 1 .. RegionSize : region[i] \in {"end", "unused"}}
           Fits(m) == /\ m + 1 \in ends \cup {RegionSize + 1}
                      /\ \A i \in 1 .. m : i \notin ends
           n == Len(traced)
<1>1. /\ n \in Nat /\ n <= RegionSize /\ traced \in Seq(FunctionEvents)
      /\ \A i \in 1 .. n : region[i] = traced[i] /\ traced[i] \in FunctionEvents
      /\ region \in [1 .. RegionSize -> HookEvents] /\ RegionSize \in Nat
      /\ n < RegionSize => region[n + 1] \in {"end", "unused"}
  BY ProfilerConstants DEF ProfilerInv, ProfilerTypes, RegionTrue
<1>2. n \in 0 .. RegionSize /\ \A i \in 1 .. n : i \notin ends
  BY <1>1, ProfilerConstants
<1>3. n + 1 \in ends \cup {RegionSize + 1}
  BY <1>1
<1>4. ASSUME NEW m \in 0 .. RegionSize, Fits(m) PROVE m = n
  <2>1. ~ n < m
    <3>1. SUFFICES ASSUME n < m PROVE FALSE
      OBVIOUS
    <3>2. n + 1 \in 1 .. m /\ n + 1 # RegionSize + 1
      BY <1>1, <3>1
    <3> QED BY <1>3, <1>4, <3>2
  <2>2. ~ m < n
    <3>1. SUFFICES ASSUME m < n PROVE FALSE
      OBVIOUS
    <3>2. m + 1 \in 1 .. n /\ m + 1 # RegionSize + 1
      BY <1>1, <3>1
    <3> QED BY <1>2, <1>4, <3>2
  <2> HIDE DEF n
  <2> QED BY <1>2, <2>1, <2>2
<1>5. (CHOOSE m \in 0 .. RegionSize : Fits(m)) = n
  BY <1>2, <1>3, <1>4
<1>6. Profiled = SubSeq(region, 1, n)
  BY <1>5 DEF Profiled
<1>7. /\ SubSeq(region, 1, n) \in Seq(HookEvents) /\ Len(SubSeq(region, 1, n)) = n
      /\ \A i \in 1 .. n : SubSeq(region, 1, n)[i] = region[i]
  <2>1. region \in Seq(HookEvents) /\ Len(region) = RegionSize
    BY <1>1
  <2> QED BY <1>1, <2>1
<1>8. SubSeq(region, 1, n) = traced
  BY <1>1, <1>7
<1> QED BY <1>6, <1>8

\* A profile that is over holds the events of its time in their order, and no RTI is
\* awaited for more than a second, for every region and every positive number of RTIs
\* in a second, those a U8 cannot count included (Profiler.cpp:67-121, :127-169).
THEOREM ProfilesAreWhole == ProfilerSpec => []ProfileIsWhole
<1>1. ProfilerInv => ProfileIsWhole
  <2> SUFFICES ASSUME ProfilerInv PROVE ProfileIsWhole
    OBVIOUS
  <2>1. wantedRti # RtiDisabled => waited <= RtisPerSecond
    <3> SUFFICES ASSUME wantedRti # RtiDisabled PROVE waited <= RtisPerSecond
      OBVIOUS
    <3>1. Remaining \in 1 .. RtisPerSecond /\ waited \in Nat
      BY RemainingType DEF ProfilerInv, ProfilerTypes
    <3> QED BY <3>1, ProfilerConstants DEF ProfilerInv, InTime
  <2> QED BY <2>1, RegionParses DEF ProfileIsWhole
<1> QED BY <1>1, ProfilerInvariance, PTL

-----------------------------------------------------------------------------
(***************************************************************************)
(* Sums over finite sets, as MapThenSumSet takes them.                     *)
(***************************************************************************)

\* One step of the fold: g is what it has for smaller sets.
SumStep(f, g, s) ==
  IF s = {} THEN 0 ELSE LET x == CHOOSE x \in s : TRUE IN f[x] + g[s \ {x}]

Sums(f, S) == CHOOSE g : g = [s \in SUBSET S |-> SumStep(f, g, s)]
SumOf(f, S) == Sums(f, S)[S]

\* A set of natural numbers has a least element.
LEMMA LeastNatural ==
  ASSUME NEW T, T \subseteq Nat, T # {}
  PROVE  \E m \in T : \A k \in T : m <= k
<1> DEFINE R == {ss \in Nat \X Nat : ss[1] < ss[2]}
<1>1. IsWellFoundedOn(R, Nat)
  BY NatLessThanWellFounded DEF OpToRel
<1> HIDE DEF R
<1>2. PICK m \in T : \A y \in T : ~ (<<y, m>> \in R)
  BY <1>1, WFMin
<1>3. \A y \in T : ~ (y < m)
  BY <1>2 DEF R
<1> QED
  BY <1>3

\* Induction over the subsets of a finite set, of which G are those for which
\* something holds.
LEMMA SubsetInduction ==
  ASSUME NEW S, IsFiniteSet(S), NEW G,
         \A s \in SUBSET S : s # {} /\ (\A x \in s : s \ {x} \in G) => s \in G,
         {} \in G
  PROVE  SUBSET S \subseteq G
<1> DEFINE T == {Cardinality(s) : s \in (SUBSET S) \ G}
<1>1. SUFFICES ASSUME T # {} PROVE FALSE
  OBVIOUS
<1>2. \A s \in SUBSET S : IsFiniteSet(s) /\ Cardinality(s) \in Nat
  BY FS_Subset, FS_CardinalityType
<1>3. T \subseteq Nat
  BY <1>2
<1>4. PICK m \in T : \A k \in T : m <= k
  BY <1>1, <1>3, LeastNatural
<1>5. PICK s \in (SUBSET S) \ G : m = Cardinality(s)
  BY <1>4
<1>6. s # {}
  OBVIOUS
<1>7. PICK x \in s : s \ {x} \notin G
  BY <1>6
<1>8. s \ {x} \in (SUBSET S) \ G
  BY <1>5, <1>7
<1>9. Cardinality(s \ {x}) = Cardinality(s) - 1
  BY <1>2, <1>7, FS_RemoveElement
<1>10. Cardinality(s \ {x}) \in T
  BY <1>8
<1>11. m \in Nat
  BY <1>3
<1> HIDE DEF T
<1>12. m <= m - 1
  BY <1>4, <1>5, <1>9, <1>10
<1> QED
  BY <1>11, <1>12

\* A step looks only at a smaller set.
LEMMA SumLooksBack ==
  ASSUME NEW f, NEW g, NEW h, NEW s,
         \A x \in s : g[s \ {x}] = h[s \ {x}]
  PROVE  SumStep(f, g, s) = SumStep(f, h, s)
<1> DEFINE x == CHOOSE x \in s : TRUE
<1>1. s # {} => x \in s
  OBVIOUS
<1> HIDE DEF x
<1>2. s # {} => g[s \ {x}] = h[s \ {x}]
  BY <1>1
<1>3. SumStep(f, g, s) = IF s = {} THEN 0 ELSE f[x] + g[s \ {x}]
  BY DEF SumStep, x
<1>4. SumStep(f, h, s) = IF s = {} THEN 0 ELSE f[x] + h[s \ {x}]
  BY DEF SumStep, x
<1> QED
  BY <1>2, <1>3, <1>4

\* The fold does what its definition says.
LEMMA SumsExist ==
  ASSUME NEW f, NEW S, IsFiniteSet(S)
  PROVE  \E g : g = [s \in SUBSET S |-> SumStep(f, g, s)]
<1> DEFINE Small(m) == {s \in SUBSET S : Cardinality(s) <= m}
           Folds(m, g) == g = [s \in Small(m) |-> SumStep(f, g, s)]
           T == {m \in Nat : ~ \E g : Folds(m, g)}
<1>0. \A s \in SUBSET S :
        /\ IsFiniteSet(s) /\ Cardinality(s) \in Nat /\ Cardinality(s) <= Cardinality(S)
        /\ \A x \in s : Cardinality(s \ {x}) = Cardinality(s) - 1
  BY FS_Subset, FS_CardinalityType, FS_RemoveElement
<1>1. SUFFICES ASSUME T # {} PROVE FALSE
  <2>1. Cardinality(S) \in Nat /\ Cardinality(S) \notin T
    BY <1>0, <1>1
  <2>2. PICK g : Folds(Cardinality(S), g)
    BY <2>1
  <2>3. Small(Cardinality(S)) = SUBSET S
    BY <1>0
  <2>4. g = [s \in SUBSET S |-> SumStep(f, g, s)]
    BY <2>2, <2>3
  <2> QED
    BY <2>4
<1>2. PICK m \in T : \A k \in T : m <= k
  BY <1>1, LeastNatural
<1>3. m # 0
  <2> DEFINE g == [s \in Small(0) |-> 0]
  <2>1. \A s \in Small(0) : s = {}
    BY <1>0, FS_EmptySet
  <2>2. \A s \in Small(0) : SumStep(f, g, s) = 0
    BY <2>1 DEF SumStep
  <2>3. Folds(0, g)
    BY <2>2
  <2> QED
    BY <2>3
<1>4. m - 1 \in Nat /\ m - 1 \notin T
  <2>1. m \in Nat
    OBVIOUS
  <2> HIDE DEF T
  <2> QED
    BY <1>2, <1>3, <2>1
<1>5. PICK g : Folds(m - 1, g)
  BY <1>4
<1> DEFINE h == [s \in Small(m) |-> SumStep(f, g, s)]
<1>6. \A s \in Small(m - 1) : h[s] = g[s]
  <2>1. \A s \in Small(m - 1) : s \in Small(m) /\ g[s] = SumStep(f, g, s)
    <3>1. \A s \in Small(m - 1) : s \in Small(m)
      BY <1>0, <1>4
    <3> HIDE DEF Small
    <3>2. \A s \in Small(m - 1) : g[s] = SumStep(f, g, s)
      BY <1>5, Zenon
    <3> QED
      BY <3>1, <3>2
  <2> QED
    BY <2>1
<1>7. \A s \in Small(m) : SumStep(f, g, s) = SumStep(f, h, s)
  <2> SUFFICES ASSUME NEW s \in Small(m) PROVE SumStep(f, g, s) = SumStep(f, h, s)
    OBVIOUS
  <2>1. \A x \in s : s \ {x} \in Small(m - 1)
    BY <1>0, <1>4
  <2>2. \A x \in s : g[s \ {x}] = h[s \ {x}]
    BY <1>6, <2>1
  <2> HIDE DEF h
  <2> QED
    BY <2>2, SumLooksBack
<1>8. Folds(m, h)
  BY <1>7
<1> HIDE DEF h, Small
<1>9. m \notin T
  BY <1>8
<1> QED
  BY <1>2, <1>9

LEMMA SumsAt ==
  ASSUME NEW f, NEW S, IsFiniteSet(S)
  PROVE  \A s \in SUBSET S : Sums(f, S)[s] = SumStep(f, Sums(f, S), s)
<1> DEFINE g == Sums(f, S)
<1>1. \E h : h = [t \in SUBSET S |-> SumStep(f, h, t)]
  BY SumsExist
<1>2. g = [t \in SUBSET S |-> SumStep(f, g, t)]
  BY <1>1 DEF Sums
<1> HIDE DEF g
<1>3. \A s \in SUBSET S : g[s] = SumStep(f, g, s)
  BY <1>2, Zenon
<1> QED
  BY <1>3 DEF g

\* There is only one such fold.
LEMMA SumUnique ==
  ASSUME NEW f, NEW S, IsFiniteSet(S), NEW g,
         \A s \in SUBSET S : g[s] = SumStep(f, g, s)
  PROVE  g[S] = SumOf(f, S)
<1> DEFINE h == Sums(f, S)
           G == {s \in SUBSET S : g[s] = h[s]}
<1>1. \A s \in SUBSET S : h[s] = SumStep(f, h, s)
  BY SumsAt
<1> HIDE DEF h
<1>2. {} \in G
  BY <1>1 DEF SumStep
<1>3. ASSUME NEW s \in SUBSET S, \A x \in s : s \ {x} \in G PROVE s \in G
  <2>1. \A x \in s : g[s \ {x}] = h[s \ {x}]
    BY <1>3
  <2>2. SumStep(f, g, s) = SumStep(f, h, s)
    BY <2>1, SumLooksBack
  <2> QED
    BY <1>1, <2>2
<1> HIDE DEF G
<1>4. SUBSET S \subseteq G
  BY <1>2, <1>3, SubsetInduction
<1> QED
  BY <1>4 DEF G, h, SumOf

\* The sum over a subset is the same wherever it is taken from.
LEMMA SumInside ==
  ASSUME NEW f, NEW S, IsFiniteSet(S), NEW T \in SUBSET S
  PROVE  Sums(f, S)[T] = SumOf(f, T)
<1> DEFINE g == Sums(f, S)
<1>1. IsFiniteSet(T)
  BY FS_Subset
<1>2. \A s \in SUBSET S : g[s] = SumStep(f, g, s)
  BY SumsAt
<1>3. \A s \in SUBSET T : s \in SUBSET S
  OBVIOUS
<1> HIDE DEF g
<1>4. \A s \in SUBSET T : g[s] = SumStep(f, g, s)
  BY <1>2, <1>3
<1>5. g[T] = SumOf(f, T)
  BY <1>1, <1>4, SumUnique
<1> QED
  BY <1>5 DEF g

\* The sum over nothing, and over the rest when the chosen element is taken away.
LEMMA SumOfChosen ==
  ASSUME NEW f, NEW S, IsFiniteSet(S)
  PROVE  /\ S = {} => SumOf(f, S) = 0
         /\ S # {} => \E x \in S : SumOf(f, S) = f[x] + SumOf(f, S \ {x})
<1>1. SumOf(f, S) = SumStep(f, Sums(f, S), S)
  BY SumsAt DEF SumOf
<1>2. \A x \in S : Sums(f, S)[S \ {x}] = SumOf(f, S \ {x})
  BY SumInside
<1> QED
  BY <1>1, <1>2 DEF SumStep

LEMMA SumOfType ==
  ASSUME NEW f, NEW S, IsFiniteSet(S), \A x \in S : f[x] \in Int
  PROVE  SumOf(f, S) \in Int
<1> DEFINE G == {s \in SUBSET S : SumOf(f, s) \in Int}
<1>1. {} \in G
  BY SumOfChosen, FS_EmptySet
<1>2. ASSUME NEW s \in SUBSET S, s # {}, \A x \in s : s \ {x} \in G PROVE s \in G
  <2>1. IsFiniteSet(s)
    BY FS_Subset
  <2>2. PICK x \in s : SumOf(f, s) = f[x] + SumOf(f, s \ {x})
    BY <1>2, <2>1, SumOfChosen
  <2>3. f[x] \in Int /\ SumOf(f, s \ {x}) \in Int
    BY <1>2
  <2> QED
    BY <2>2, <2>3
<1> HIDE DEF G
<1>3. SUBSET S \subseteq G
  BY <1>1, <1>2, SubsetInduction
<1> QED
  BY <1>3 DEF G

\* Whichever element is taken away.
LEMMA SumWithout ==
  ASSUME NEW f, NEW S, IsFiniteSet(S), \A x \in S : f[x] \in Int, NEW y \in S
  PROVE  SumOf(f, S) = f[y] + SumOf(f, S \ {y})
<1> DEFINE G == {s \in SUBSET S : \A z \in s : SumOf(f, s) = f[z] + SumOf(f, s \ {z})}
<1>1. {} \in G
  OBVIOUS
<1>2. ASSUME NEW s \in SUBSET S, s # {}, \A x \in s : s \ {x} \in G PROVE s \in G
  <2>1. IsFiniteSet(s)
    BY FS_Subset
  <2>2. PICK x \in s : SumOf(f, s) = f[x] + SumOf(f, s \ {x})
    BY <1>2, <2>1, SumOfChosen
  <2>3. ASSUME NEW z \in s PROVE SumOf(f, s) = f[z] + SumOf(f, s \ {z})
    <3>1. CASE z = x
      BY <2>2, <3>1
    <3>2. CASE z # x
      <4> DEFINE r == (s \ {x}) \ {z}
      <4>1. SumOf(f, s \ {x}) = f[z] + SumOf(f, r)
        <5>1. s \ {x} \in G /\ z \in s \ {x}
          BY <1>2, <3>2
        <5> QED
          BY <5>1
      <4>2. SumOf(f, s \ {z}) = f[x] + SumOf(f, r)
        <5>1. s \ {z} \in G /\ x \in s \ {z}
          BY <1>2, <3>2
        <5>2. (s \ {z}) \ {x} = r
          OBVIOUS
        <5> HIDE DEF r
        <5> QED
          BY <5>1, <5>2
      <4>3. f[x] \in Int /\ f[z] \in Int /\ SumOf(f, r) \in Int
        <5>1. IsFiniteSet(r) /\ \A i \in r : f[i] \in Int
          BY <2>1, FS_Subset
        <5> QED
          BY <5>1, SumOfType
      <4> HIDE DEF r
      <4> QED
        BY <2>2, <4>1, <4>2, <4>3
    <3> QED
      BY <3>1, <3>2
  <2> QED
    BY <2>3
<1> HIDE DEF G
<1>3. SUBSET S \subseteq G
  BY <1>1, <1>2, SubsetInduction
<1> QED
  BY <1>3 DEF G

\* Equal summands.
LEMMA SumsEqual ==
  ASSUME NEW f, NEW g, NEW S, IsFiniteSet(S), \A x \in S : f[x] = g[x]
  PROVE  SumOf(f, S) = SumOf(g, S)
<1> DEFINE G == {s \in SUBSET S : Sums(f, S)[s] = Sums(g, S)[s]}
<1>1. \A s \in SUBSET S : /\ Sums(f, S)[s] = SumStep(f, Sums(f, S), s)
                          /\ Sums(g, S)[s] = SumStep(g, Sums(g, S), s)
  BY SumsAt
<1>2. {} \in G
  BY <1>1 DEF SumStep
<1>3. ASSUME NEW s \in SUBSET S, s # {}, \A x \in s : s \ {x} \in G PROVE s \in G
  <2> DEFINE y == CHOOSE x \in s : TRUE
  <2>1. y \in s
    BY <1>3
  <2>2. /\ SumStep(f, Sums(f, S), s) = f[y] + Sums(f, S)[s \ {y}]
        /\ SumStep(g, Sums(g, S), s) = g[y] + Sums(g, S)[s \ {y}]
    BY <1>3 DEF SumStep
  <2> HIDE DEF y
  <2>3. f[y] = g[y] /\ Sums(f, S)[s \ {y}] = Sums(g, S)[s \ {y}]
    BY <1>3, <2>1
  <2> QED
    BY <1>1, <2>2, <2>3
<1> HIDE DEF G
<1>4. SUBSET S \subseteq G
  BY <1>2, <1>3, SubsetInduction
<1> QED
  BY <1>4 DEF G, SumOf

\* A summand changes.
LEMMA SumChanges ==
  ASSUME NEW S, IsFiniteSet(S), NEW y \in S, NEW f, NEW g, NEW n \in Int,
         \A x \in S : f[x] \in Int,
         \A x \in S : g[x] = f[x] + (IF x = y THEN n ELSE 0)
  PROVE  SumOf(g, S) = SumOf(f, S) + n
<1>1. \A x \in S : g[x] \in Int
  OBVIOUS
<1>2. SumOf(f, S) = f[y] + SumOf(f, S \ {y}) /\ SumOf(g, S) = g[y] + SumOf(g, S \ {y})
  BY <1>1, SumWithout
<1>3. IsFiniteSet(S \ {y})
  BY FS_Subset
<1>4. SumOf(g, S \ {y}) = SumOf(f, S \ {y})
  BY <1>3, SumsEqual
<1>5. SumOf(f, S \ {y}) \in Int
  BY <1>3, SumOfType
<1> QED
  BY <1>2, <1>4, <1>5

LEMMA SumIsFold ==
  ASSUME NEW f, NEW S
  PROVE  MapThenSumSet(LAMBDA x : f[x], S) = SumOf(f, S)
  BY DEF MapThenSumSet, MapThenFoldSet, SumOf, Sums, SumStep

-----------------------------------------------------------------------------
(***************************************************************************)
(* Allocator: what its identifiers have counted, for any number of them    *)
(* and any sizes.                                                          *)
(***************************************************************************)
AllocatorInv ==
  /\ heapUsed \in Int /\ internal \in Int /\ preRegister \in Int /\ elsewhere \in Int
  /\ allocations \in [Ids -> Int]
  /\ defaultId \in Ids
  /\ registered \in BOOLEAN
  /\ registered => /\ heapUsed = preRegister + SumOf(allocations, Ids) + elsewhere
                   /\ internal <= preRegister
  /\ ~ registered => /\ heapUsed >= 0 /\ elsewhere = 0
                     /\ allocations = [id \in Ids |-> 0]

LEMMA IdsFinite == IsFiniteSet(Ids)
  BY AllocatorAssumption, FS_Interval DEF Ids

\* Nothing is counted before the first allocation.
LEMMA NothingCounted == SumOf([id \in Ids |-> 0], Ids) = 0
<1> DEFINE f == [id \in Ids |-> 0]
           G == {s \in SUBSET Ids : SumOf(f, s) = 0}
<1>1. {} \in G
  BY SumOfChosen, FS_EmptySet
<1>2. ASSUME NEW s \in SUBSET Ids, s # {}, \A x \in s : s \ {x} \in G PROVE s \in G
  <2>1. IsFiniteSet(s)
    BY IdsFinite, FS_Subset
  <2>2. PICK x \in s : SumOf(f, s) = f[x] + SumOf(f, s \ {x})
    BY <1>2, <2>1, SumOfChosen
  <2>3. f[x] = 0 /\ SumOf(f, s \ {x}) = 0
    BY <1>2
  <2> QED
    BY <2>2, <2>3
<1> HIDE DEF G
<1>3. SUBSET Ids \subseteq G
  BY IdsFinite, <1>1, <1>2, SubsetInduction
<1> QED
  BY <1>3 DEF G

LEMMA CountedType ==
  ASSUME AllocatorInv
  PROVE  SumOf(allocations, Ids) \in Int
<1>1. \A id \in Ids : allocations[id] \in Int
  BY DEF AllocatorInv
<1> QED
  BY <1>1, IdsFinite, SumOfType

LEMMA AllocatorInitial == AllocatorInit => AllocatorInv
<1>1. 0 \in Ids
  BY AllocatorAssumption DEF Ids
<1> SUFFICES ASSUME AllocatorInit PROVE AllocatorInv
  OBVIOUS
<1>2. allocations = [id \in Ids |-> 0]
  BY DEF AllocatorInit
<1>3. allocations \in [Ids -> Int]
  BY <1>2
<1>4. /\ heapUsed = 0 /\ internal = 0 /\ preRegister = 0 /\ elsewhere = 0
      /\ defaultId = 0 /\ registered = FALSE
  BY DEF AllocatorInit
<1>5. /\ heapUsed \in Int /\ internal \in Int /\ preRegister \in Int
      /\ elsewhere \in Int /\ heapUsed >= 0
  BY <1>4
<1>6. defaultId \in Ids /\ registered \in BOOLEAN /\ ~ registered
  BY <1>1, <1>4, Zenon
<1> QED
  BY <1>2, <1>3, <1>4, <1>5, <1>6, Zenon DEF AllocatorInv

\* setup counts what has been taken before, the table included.
LEMMA SetupKeeps ==
  ASSUME AllocatorInv, NEW id \in Ids, AllocatorSetup(id)
  PROVE  AllocatorInv'
<1>1. PICK actual \in Taken(1) : wrapMalloc(1, actual) /\ internal' = actual
  BY DEF AllocatorSetup
<1>2. actual \in Int /\ heapUsed' = heapUsed + actual /\ heapUsed \in Int /\ heapUsed >= 0
  BY <1>1 DEF Taken, wrapMalloc, AllocatorSetup, AllocatorInv
<1>3. SumOf(allocations, Ids)' = 0
  BY NothingCounted DEF AllocatorSetup, AllocatorInv
<1>4. /\ preRegister' = heapUsed' /\ elsewhere' = 0 /\ registered' = TRUE
      /\ allocations' = allocations /\ defaultId' = id
  BY DEF AllocatorSetup, AllocatorInv
<1>5. (SumOf(allocations, Ids))' = SumOf(allocations', Ids)
  OBVIOUS
<1>6. AllocatorInv!2'
  BY <1>4 DEF AllocatorInv
<1> QED
  BY <1>1, <1>2, <1>3, <1>4, <1>5, <1>6 DEF AllocatorInv

\* An allocation adds to one identifier what it takes from the heap.
LEMMA AllocateKeeps ==
  ASSUME AllocatorInv, NEW identifier, NEW n \in 1 .. MaxRequest, Allocate(identifier, n)
  PROVE  AllocatorInv'
<1>1. CASE ~ allowAllocation
  BY <1>1 DEF Allocate, AllocatorInv
<1>2. CASE allowAllocation
  <2> DEFINE here == IdOf(identifier)
  <2>1. PICK actual \in Taken(n) :
          /\ wrapMalloc(n, actual)
          /\ allocations' = [id \in Ids |-> allocations[id]
                               + (IF id = here THEN actual ELSE 0)]
    BY <1>2 DEF Allocate
  <2>2. actual \in Int
    BY <2>1, AllocatorAssumption DEF Taken
  <2>3. here \in Ids
    BY DEF IdOf, AllocatorInv
  <2> HIDE DEF here
  <2>4. \A id \in Ids : allocations[id] \in Int
    BY DEF AllocatorInv
  <2>5. \A id \in Ids : allocations'[id] = allocations[id] + (IF id = here THEN actual ELSE 0)
    BY <2>1
  <2>6. SumOf(allocations', Ids) = SumOf(allocations, Ids) + actual
    BY <2>2, <2>3, <2>4, <2>5, IdsFinite, SumChanges
  <2>7. allocations' \in [Ids -> Int]
    BY <2>1, <2>2, <2>4
  <2>8. heapUsed' = heapUsed + actual
    BY <2>1 DEF wrapMalloc
  <2>9. SumOf(allocations, Ids) \in Int
    BY CountedType
  <2>10. /\ registered /\ UNCHANGED <<internal, preRegister, defaultId, registered, elsewhere>>
    BY DEF Allocate
  <2> QED
    BY <2>2, <2>6, <2>7, <2>8, <2>9, <2>10 DEF AllocatorInv
<1> QED
  BY <1>1, <1>2

\* What the C library takes is the remainder once setup has been called.
LEMMA MallocElsewhereKeeps ==
  ASSUME AllocatorInv, NEW n \in 1 .. MaxRequest, MallocElsewhere(n)
  PROVE  AllocatorInv'
<1>1. PICK actual \in Taken(n) :
        /\ wrapMalloc(n, actual)
        /\ elsewhere' = IF registered THEN elsewhere + actual ELSE elsewhere
  BY DEF MallocElsewhere
<1>2. actual \in Int /\ actual >= 0 /\ heapUsed' = heapUsed + actual
  BY <1>1, AllocatorAssumption DEF Taken, wrapMalloc
<1>3. UNCHANGED <<allocations, internal, preRegister, defaultId, registered>>
  BY DEF MallocElsewhere
<1>4. SumOf(allocations, Ids) \in Int
  BY CountedType
<1> QED
  BY <1>1, <1>2, <1>3, <1>4 DEF AllocatorInv

LEMMA AllocatorStep == AllocatorInv /\ [AllocatorNext]_allocatorVars => AllocatorInv'
<1> SUFFICES ASSUME AllocatorInv, [AllocatorNext]_allocatorVars PROVE AllocatorInv'
  OBVIOUS
<1>1. ASSUME NEW id \in Ids, AllocatorSetup(id) \/ SetDefaultId(id) PROVE AllocatorInv'
  <2>1. CASE AllocatorSetup(id)
    BY <2>1, SetupKeeps
  <2>2. CASE SetDefaultId(id)
    BY <2>2 DEF SetDefaultId, AllocatorInv
  <2> QED
    BY <1>1, <2>1, <2>2
<1>2. ASSUME NEW id \in Ids \cup {DefaultId, InvalidId}, NEW n \in 1 .. MaxRequest,
             Allocate(id, n)
      PROVE AllocatorInv'
  BY <1>2, AllocateKeeps
<1>3. ASSUME NEW n \in 1 .. MaxRequest, AllocateNothing(n) \/ MallocElsewhere(n)
      PROVE AllocatorInv'
  <2>1. CASE AllocateNothing(n)
    BY <2>1 DEF AllocateNothing, allocatorVars, AllocatorInv
  <2>2. CASE MallocElsewhere(n)
    BY <2>2, MallocElsewhereKeeps
  <2> QED
    BY <1>3, <2>1, <2>2
<1>4. CASE Deallocate
  BY <1>4 DEF Deallocate, AllocatorInv
<1>5. CASE DisableAllocation
  BY <1>5 DEF DisableAllocation, AllocatorInv
<1>6. CASE UNCHANGED allocatorVars
  BY <1>6 DEF allocatorVars, AllocatorInv
<1> QED
  BY <1>1, <1>2, <1>3, <1>4, <1>5, <1>6 DEF AllocatorNext

\* Under the invariant the total is what the identifiers, and setup, have counted.
THEOREM AllocatorInvariance == AllocatorSpec => []AllocatorInv
BY AllocatorInitial, AllocatorStep, PTL DEF AllocatorSpec

\* Whatever the identifiers and the sizes, everything taken through the allocator
\* is in the report's total, and its remainder is what the C library has taken
\* (StrictMallocAllocator.cpp:51-120, :146-180).
THEOREM AllocationsAreAccounted == AllocatorSpec => []AllocationsAccounted
<1>1. AllocatorInv => AllocationsAccounted
  <2> SUFFICES ASSUME AllocatorInv PROVE AllocationsAccounted
    OBVIOUS
  <2>1. MapThenSumSet(LAMBDA id : allocations[id], Ids) = SumOf(allocations, Ids)
    BY SumIsFold
  <2>2. SumOf(allocations, Ids) \in Int
    BY CountedType
  <2> QED
    BY <2>1, <2>2 DEF AllocatorInv, AllocationsAccounted, Total
<1> QED
  BY <1>1, AllocatorInvariance, PTL

-----------------------------------------------------------------------------
(***************************************************************************)
(* AdcSampler                                                              *)
(***************************************************************************)
\* What the main loop and the handler run is startReadInner; at most one of them
\* does so at a time.
Addressing == {"address", "save", "mask", "datamask", "dataout", "restore", "written"}
Selecting == {"release", "delay", "make"} \cup Addressing
Inner == {"request", "convert"} \cup Selecting
Working(c) == pc[c] \in Inner
Worker == IF Working(1) THEN 1 ELSE Main
Where == pc[Worker]

SamplerTypes ==
  /\ DOMAIN pc = Contexts
  /\ pc[Main] \in {"idle", "asked"} \cup Inner /\ pc[1] \in {"idle"} \cup Inner
  /\ reqs \in RequestLists \cup {<<>>} /\ requestIndex \in 0 .. Len(reqs)
  /\ asked.list \in RequestLists \cup {<<>>} /\ asked.buf \in Buffers
  /\ buffer \in Buffers
  /\ DOMAIN data = Buffers /\ \A b \in Buffers : DOMAIN data[b] = 0 .. DataSize - 1
  /\ DOMAIN port = Contexts /\ port[Main] \in Ports /\ port[1] \in Ports
  /\ DOMAIN datamask = Ports /\ DOMAIN high = Ports /\ DOMAIN lastPins = Ports
  /\ otherHigh \in BOOLEAN

\* Of the client, the handler, the converter and its interrupt, one at most has
\* the request, and only while there is one.
Turns ==
  /\ ~ (Working(Main) /\ Working(1))
  /\ Where \in Inner => adc = NoRequest /\ ~ irq /\ Busy
  /\ adc # NoRequest => ~ irq /\ Busy /\ adc = curRequest
  /\ irq => Busy
  /\ pc[Main] = "asked" /\ ~ wasBusy => ~ Busy
  /\ Where \in Inner \ {"request"} \/ adc # NoRequest \/ irq =>
       curRequest = reqs[requestIndex + 1]
  /\ Where \in Selecting => curRequest.isMux

\* The enable pins, as far as the change to the request's multiplexer has come.
Enabling ==
  /\ Where \notin {"delay", "make"} \cup Addressing =>
       enabled = {lastMux.en} \ {NoPin}
  /\ Where \in {"delay", "make"} => enabled = {}
  /\ Where \in Addressing => enabled = {curRequest.en} \ {NoPin}
  /\ DelaySuffices =>
       fading \subseteq IF Where = "delay" THEN {lastMux.en} \ {NoPin} ELSE {}

\* The pins of a port: what the sampler has written last, or is about to record,
\* and the other handler's pin.
PortTrue(p) ==
  /\ lastPins[p] \subseteq PinsOf(p)
  /\ high[p] \ {OtherPin} = IF Where \in {"restore", "written"} /\ p = port[Worker]
                            THEN PinsValue(p) ELSE lastPins[p]
  /\ OtherPin \in high[p] <=> otherHigh /\ p = PortOf[OtherPin]

Pins ==
  /\ \A p \in Ports : PortTrue(p)
  /\ Where \in Selecting =>
       \A p \in 0 .. port[Worker] - 1 : lastPins[p] = PinsValue(p)
  /\ Where \in {"datamask", "dataout"} => primask = 1
  /\ Where = "dataout" => datamask[port[Worker]] = PinsOf(port[Worker])

\* The converter samples the inputs the request names.
Selected ==
  (Where = "convert" \/ adc # NoRequest \/ irq) /\ curRequest.isMux =>
    /\ lastMux = curRequest
    /\ \A p \in Ports : lastPins[p] = PinsValue(p)

Sampled ==
  irq => \E n \in {curRequest.cnt, curRequest.cnt + 1}, settled \in Settlings(curRequest) :
           fifo = [k \in 1 .. n |-> Wanted(curRequest,
                     IF curRequest.sweep THEN curRequest.chan + k - 1
                     ELSE curRequest.chan, settled)]

\* The words of the requests served so far are in the buffer.
Served ==
  /\ dataIndex = WordsOf(reqs, requestIndex) /\ dataIndex <= DataSize
  /\ \A i \in 1 .. requestIndex : \A k \in 1 .. Words(reqs[i]) :
       LET word == data[buffer][WordsOf(reqs, i - 1) + k - 1]
       IN  ~ IsWanted(word, reqs[i], k) => word = ErrorWord /\ readErrors

SamplerInv ==
  SamplerTypes /\ Turns /\ Enabling /\ Pins /\ Selected /\ Sampled /\ Served

-----------------------------------------------------------------------------
LEMMA TwoContexts == Main \in Contexts /\ 1 \in Contexts /\ Main # 1 /\ Ports = {0, 1}
  BY IrqsAssumption, AdcAssumption DEF Main, Contexts, Ports

\* The delay is of one clock.
LEMMA SufficesSame == ASSUME sysclk' = sysclk PROVE DelaySuffices' <=> DelaySuffices
  BY DEF DelaySuffices, MuxDelay, CyclesTaken

LEMMA WantedSame ==
  ASSUME sysclk' = sysclk, accepted' = accepted
  PROVE  \A word, q, k : IsWanted(word, q, k)' <=> IsWanted(word, q, k)
<1>1. DelaySuffices' <=> DelaySuffices
  BY SufficesSame
<1>2. \A q : Settlings(q)' = Settlings(q)
  BY <1>1 DEF Settlings
<1>3. \A q, settled : WantedWords(q, settled)' = WantedWords(q, settled)
  BY DEF WantedWords, Wanted
<1> QED
  BY <1>2, <1>3 DEF IsWanted

LEMMA SampledSame ==
  ASSUME Sampled, UNCHANGED <<irq, fifo, curRequest, accepted, sysclk>>
  PROVE  Sampled'
<1>1. DelaySuffices' <=> DelaySuffices
  BY SufficesSame
<1>2. Settlings(curRequest)' = Settlings(curRequest)
  BY <1>1 DEF Settlings
<1> QED
  BY <1>2 DEF Sampled, Wanted

-----------------------------------------------------------------------------
(***************************************************************************)
(* The words of a list                                                     *)
(***************************************************************************)
Lengths(l, n) == [i \in 1 .. n |-> Words(l[i])]

\* A fold of the lengths is their sum.
LEMMA WordsOfSum ==
  ASSUME NEW l, NEW n \in Nat
  PROVE  WordsOf(l, n) = SumOf(Lengths(l, n), 1 .. n)
<1> DEFINE S == 1 .. n
           f == Lengths(l, n)
           Step(g, s) == IF s = {} THEN 0
                         ELSE LET x == CHOOSE x \in s : TRUE IN Words(l[x]) + g[s \ {x}]
           fold == CHOOSE g : g = [s \in SUBSET S |-> Step(g, s)]
<1>1. WordsOf(l, n) = fold[S]
  BY DEF WordsOf, MapThenSumSet, MapThenFoldSet
<1>2. IsFiniteSet(S)
  BY FS_Interval
<1>3. \A g : \A s \in SUBSET S : SumStep(f, g, s) = Step(g, s)
  <2> SUFFICES ASSUME NEW g, NEW s \in SUBSET S PROVE SumStep(f, g, s) = Step(g, s)
    OBVIOUS
  <2>1. CASE s = {}
    BY <2>1 DEF SumStep
  <2>2. CASE s # {}
    <3> DEFINE x == CHOOSE x \in s : TRUE
    <3>1. x \in s
      BY <2>2
    <3>2. SumStep(f, g, s) = f[x] + g[s \ {x}] /\ Step(g, s) = Words(l[x]) + g[s \ {x}]
      BY <2>2 DEF SumStep
    <3> HIDE DEF x, Step
    <3>3. f[x] = Words(l[x])
      BY <3>1 DEF Lengths
    <3> QED
      BY <3>2, <3>3
  <2> QED
    BY <2>1, <2>2
<1> HIDE DEF Step, f, S
<1>4. PICK g : g = [s \in SUBSET S |-> SumStep(f, g, s)]
  BY <1>2, SumsExist
<1>5. g = [s \in SUBSET S |-> Step(g, s)]
  BY <1>3, <1>4
<1>6. fold = [s \in SUBSET S |-> Step(fold, s)]
  BY <1>5
<1> HIDE DEF fold
<1>7. \A s \in SUBSET S : fold[s] = Step(fold, s)
  BY <1>6, Zenon
<1>8. \A s \in SUBSET S : fold[s] = SumStep(f, fold, s)
  BY <1>3, <1>7
<1>9. fold[S] = SumOf(f, S)
  BY <1>2, <1>8, SumUnique
<1> QED
  BY <1>1, <1>9 DEF f, S

LEMMA NoWords == ASSUME NEW l PROVE WordsOf(l, 0) = 0
<1>1. WordsOf(l, 0) = SumOf(Lengths(l, 0), 1 .. 0)
  BY WordsOfSum
<1>2. 1 .. 0 = {}
  OBVIOUS
<1>3. SumOf(Lengths(l, 0), {}) = 0
  BY FS_EmptySet, SumOfChosen
<1> QED
  BY <1>1, <1>2, <1>3

LEMMA WordsType ==
  ASSUME NEW l \in RequestLists, NEW i \in 1 .. Len(l)
  PROVE  Words(l[i]) \in Nat \ {0}
  BY AdcAssumption DEF Words

\* The next request's words come after those of the requests before it.
LEMMA NextWords ==
  ASSUME NEW l \in RequestLists, NEW n \in 0 .. Len(l) - 1
  PROVE  /\ WordsOf(l, n) \in Int
         /\ WordsOf(l, n + 1) = WordsOf(l, n) + Words(l[n + 1])
<1> DEFINE f == Lengths(l, n + 1)
           e == Lengths(l, n)
<1>0. n \in Nat /\ n + 1 \in Nat /\ n + 1 \in 1 .. n + 1 /\ Len(l) \in Nat
  BY AdcAssumption
<1>1. WordsOf(l, n + 1) = SumOf(f, 1 .. n + 1) /\ WordsOf(l, n) = SumOf(e, 1 .. n)
  BY <1>0, WordsOfSum
<1>2. \A i \in 1 .. n + 1 : f[i] = Words(l[i]) /\ Words(l[i]) \in Int
  BY <1>0, WordsType DEF Lengths
<1>3. \A i \in 1 .. n : f[i] = e[i] /\ e[i] \in Int
  BY <1>0, <1>2 DEF Lengths
<1>4. IsFiniteSet(1 .. n) /\ IsFiniteSet(1 .. n + 1)
  BY <1>0, FS_Interval
<1>10. (1 .. n + 1) \ {n + 1} = 1 .. n
  BY <1>0
<1>5. f[n + 1] = Words(l[n + 1])
  BY <1>0, <1>2
<1> HIDE DEF f, e
<1>6. SumOf(f, 1 .. n + 1) = f[n + 1] + SumOf(f, 1 .. n)
  <2>1. \A i \in 1 .. n + 1 : f[i] \in Int
    BY <1>2
  <2>2. SumOf(f, 1 .. n + 1) = f[n + 1] + SumOf(f, (1 .. n + 1) \ {n + 1})
    BY <1>0, <2>1, <1>4, SumWithout
  <2> QED
    BY <1>10, <2>2
<1>7. SumOf(f, 1 .. n) = SumOf(e, 1 .. n)
  BY <1>3, <1>4, SumsEqual
<1>8. SumOf(e, 1 .. n) \in Int
  BY <1>3, <1>4, SumOfType
<1>9. Words(l[n + 1]) \in Int
  BY <1>0, <1>2
<1> QED
  BY <1>1, <1>5, <1>6, <1>7, <1>8, <1>9

LEMMA WordsOfType ==
  ASSUME NEW l \in RequestLists, NEW n \in 0 .. Len(l)
  PROVE  WordsOf(l, n) \in Int
<1>0. Len(l) \in Nat
  BY AdcAssumption
<1>1. CASE n = 0
  BY <1>1, NoWords
<1>2. CASE n # 0
  <2>1. n - 1 \in 0 .. Len(l) - 1 /\ (n - 1) + 1 = n
    BY <1>0, <1>2
  <2>2. WordsOf(l, n - 1) \in Int /\ WordsOf(l, (n - 1) + 1) = WordsOf(l, n - 1) + Words(l[(n - 1) + 1])
    BY <2>1, NextWords
  <2>3. Words(l[n]) \in Int
    BY <1>0, <1>2, WordsType
  <2> QED
    BY <2>1, <2>2, <2>3
<1> QED
  BY <1>1, <1>2

\* A request's words come before those of the requests after it.
LEMMA WordsOrdered ==
  ASSUME NEW l \in RequestLists, NEW i \in 0 .. Len(l), NEW n \in i .. Len(l)
  PROVE  WordsOf(l, i) <= WordsOf(l, n)
<1> DEFINE T == {m \in i .. Len(l) : ~ (WordsOf(l, i) <= WordsOf(l, m))}
<1>0. Len(l) \in Nat
  BY AdcAssumption
<1>1. SUFFICES ASSUME T # {} PROVE FALSE
  OBVIOUS
<1>2. T \subseteq Nat
  BY <1>0
<1>3. PICK m \in T : \A k \in T : m <= k
  BY <1>1, <1>2, LeastNatural
<1>4. m \in i .. Len(l) /\ ~ (WordsOf(l, i) <= WordsOf(l, m))
  OBVIOUS
<1>5. WordsOf(l, i) \in Int /\ WordsOf(l, m) \in Int
  BY <1>0, <1>4, WordsOfType
<1>6. m # i
  BY <1>4, <1>5
<1>7. m - 1 \in i .. Len(l) /\ m - 1 \in 0 .. Len(l) - 1 /\ (m - 1) + 1 = m /\ m \in 1 .. Len(l)
  BY <1>0, <1>4, <1>6
<1>8. m - 1 \notin T
  BY <1>2, <1>3, <1>7
<1>9. WordsOf(l, i) <= WordsOf(l, m - 1)
  BY <1>7, <1>8
<1>10. WordsOf(l, m - 1) \in Int /\ WordsOf(l, (m - 1) + 1) = WordsOf(l, m - 1) + Words(l[(m - 1) + 1])
  BY <1>7, NextWords
<1>11. Words(l[m]) \in Nat
  BY <1>7, WordsType
<1> HIDE DEF T
<1> QED
  BY <1>4, <1>5, <1>7, <1>9, <1>10, <1>11

-----------------------------------------------------------------------------
\* Where a context goes in startReadInner.
LEMMA WorkerAt ==
  ASSUME SamplerInv, NEW c \in {Main, 1}, NEW l \in Inner, At(c, l)
  PROVE  /\ Worker = c /\ Where = l
         /\ adc = NoRequest /\ ~ irq /\ Busy
<1>1. pc[c] = l /\ "idle" \notin Inner
  BY DEF At, Inner, Selecting, Addressing
<1>2. c = Main => pc[1] = "idle"
  BY TwoContexts DEF At, Executes, Contexts, Main
<1>3. Worker = c /\ Where = l
  BY <1>1, <1>2 DEF Worker, Where, Working
<1> QED
  BY <1>1, <1>2, <1>3 DEF SamplerInv, Turns

LEMMA WorkerGoes ==
  ASSUME SamplerInv, NEW c \in {Main, 1}, NEW l \in Inner, At(c, l),
         NEW next \in Inner \cup {"idle"}, Goto(c, next)
  PROVE  /\ next \in Inner => Worker' = c /\ Where' = next
         /\ next = "idle" => Where' \notin Inner
         /\ DOMAIN pc' = Contexts
         /\ pc'[Main] \in {"idle", "asked"} \cup Inner /\ pc'[1] \in {"idle"} \cup Inner
         /\ ~ (Working(Main)' /\ Working(1)')
         /\ pc'[Main] = "asked" => pc[Main] = "asked"
<1>1. pc[c] = l /\ "idle" \notin Inner /\ "asked" \notin Inner
  BY DEF At, Inner, Selecting, Addressing
<1>2. c = Main => pc[1] = "idle"
  BY TwoContexts DEF At, Executes, Contexts, Main
<1>3. c = 1 => pc[Main] \notin Inner
  BY <1>1 DEF SamplerInv, Turns, Working
<1>4. /\ DOMAIN pc = Contexts
      /\ pc[Main] \in {"idle", "asked"} \cup Inner /\ pc[1] \in {"idle"} \cup Inner
  BY DEF SamplerInv, SamplerTypes
<1>5. /\ pc' = [pc EXCEPT ![c] = next] /\ pc'[c] = next
      /\ c = 1 => pc'[Main] = pc[Main]
      /\ c = Main => pc'[1] = pc[1]
  BY <1>4, TwoContexts DEF Goto
<1>6. DOMAIN pc' = Contexts
  BY <1>4, <1>5
<1>7. CASE c = 1
  BY <1>1, <1>3, <1>4, <1>5, <1>6, <1>7, TwoContexts DEF Worker, Where, Working
<1>8. CASE c = Main
  BY <1>1, <1>2, <1>4, <1>5, <1>6, <1>8, TwoContexts DEF Worker, Where, Working
<1> QED
  BY <1>7, <1>8

\* What no step of startReadInner changes.
LEMMA ServedSame ==
  ASSUME Served,
         UNCHANGED <<reqs, buffer, requestIndex, dataIndex, readErrors, data, accepted,
                     sysclk>>
  PROVE  Served'
<1>1. \A word, q, k : IsWanted(word, q, k)' <=> IsWanted(word, q, k)
  BY WantedSame
<1> QED
  BY <1>1, ZenonT(60) DEF Served, Words

\* What a step of startReadInner leaves alone, whatever it does to the multiplexers.
readSame == UNCHANGED <<clientVars, reqs, buffer, requestIndex, dataIndex, readErrors,
                        irq, sysclk, data, adcStopped, otherHigh>>

\* So much of the invariant holds after such a step.
InnerKept ==
  /\ Served' /\ Sampled'
  /\ DOMAIN pc' = Contexts
  /\ pc'[Main] \in {"idle", "asked"} \cup Inner /\ pc'[1] \in {"idle"} \cup Inner
  /\ reqs' \in RequestLists \cup {<<>>} /\ requestIndex' \in 0 .. Len(reqs')
  /\ asked'.list \in RequestLists \cup {<<>>} /\ asked'.buf \in Buffers
  /\ buffer' \in Buffers
  /\ DOMAIN data' = Buffers /\ \A b \in Buffers : DOMAIN data'[b] = 0 .. DataSize - 1
  /\ otherHigh' \in BOOLEAN
  /\ ~ (Working(Main)' /\ Working(1)')
  /\ Busy' /\ ~ irq'
  /\ pc'[Main] = "asked" => wasBusy'
  /\ reqs' = reqs /\ requestIndex' = requestIndex
  /\ DelaySuffices' <=> DelaySuffices

LEMMA InnerSame ==
  ASSUME SamplerInv, NEW c \in {Main, 1}, NEW l \in Inner, At(c, l),
         NEW next \in Inner \cup {"idle"}, Goto(c, next), readSame
  PROVE  InnerKept
<1>1. Served'
  BY ServedSame DEF SamplerInv, readSame, clientVars
<1>2. Busy /\ ~ irq /\ adc = NoRequest
  BY WorkerAt
<1>3. Sampled' /\ ~ irq'
  BY <1>2 DEF Sampled, readSame
<1>4. Busy' = Busy
  BY DEF Busy, readSame
<1>5. /\ DOMAIN pc' = Contexts
      /\ pc'[Main] \in {"idle", "asked"} \cup Inner /\ pc'[1] \in {"idle"} \cup Inner
      /\ ~ (Working(Main)' /\ Working(1)')
      /\ pc'[Main] = "asked" => pc[Main] = "asked"
  BY WorkerGoes
<1>6. /\ reqs' = reqs /\ requestIndex' = requestIndex /\ asked' = asked /\ data' = data
      /\ otherHigh' = otherHigh /\ wasBusy' = wasBusy /\ buffer' = buffer
  BY DEF readSame, clientVars
<1>7. /\ reqs \in RequestLists \cup {<<>>} /\ requestIndex \in 0 .. Len(reqs)
      /\ asked.list \in RequestLists \cup {<<>>} /\ asked.buf \in Buffers
      /\ buffer \in Buffers
      /\ DOMAIN data = Buffers /\ \A b \in Buffers : DOMAIN data[b] = 0 .. DataSize - 1
      /\ otherHigh \in BOOLEAN
  BY DEF SamplerInv, SamplerTypes
<1>8. pc[Main] = "asked" /\ ~ wasBusy => ~ Busy
  BY DEF SamplerInv, Turns
<1>9. DelaySuffices' <=> DelaySuffices
  BY SufficesSame DEF readSame
<1> QED
  BY <1>1, <1>2, <1>3, <1>4, <1>5, <1>6, <1>7, <1>8, <1>9 DEF InnerKept

MuxTypes ==
  /\ DOMAIN port = Contexts /\ port[Main] \in Ports /\ port[1] \in Ports
  /\ DOMAIN datamask = Ports /\ DOMAIN high = Ports /\ DOMAIN lastPins = Ports

\* What is left to show of a step within startReadInner.
LEMMA InnerDone ==
  ASSUME InnerKept, MuxTypes', adc' = NoRequest,
         curRequest' = reqs[requestIndex + 1],
         Where' \in Selecting => curRequest'.isMux,
         Enabling', Pins', Selected'
  PROVE  SamplerInv'
<1>1. SamplerTypes'
  BY DEF InnerKept, SamplerTypes, MuxTypes
<1>2. Turns'
  BY DEF InnerKept, Turns
<1> QED
  BY <1>1, <1>2 DEF InnerKept, SamplerInv

\* The request being served is one of a list.
LEMMA RequestType ==
  ASSUME SamplerInv, Busy
  PROVE  /\ reqs \in RequestLists /\ requestIndex \in 0 .. Len(reqs) - 1
         /\ requestIndex + 1 \in 1 .. Len(reqs)
         /\ reqs[requestIndex + 1].cnt \in Nat /\ reqs[requestIndex + 1].chan \in Nat
         /\ reqs[requestIndex + 1].sweep \in BOOLEAN
         /\ reqs[requestIndex + 1].isMux \in BOOLEAN
         /\ reqs[requestIndex + 1].addr \subseteq AddressPins
<1>1. reqs \in RequestLists \cup {<<>>} /\ requestIndex \in 0 .. Len(reqs)
  BY DEF SamplerInv, SamplerTypes
<1>2. Len(<<>>) = 0
  OBVIOUS
<1>3. reqs \in RequestLists
  BY <1>1, <1>2 DEF Busy
<1>4. Len(reqs) \in Nat /\ DOMAIN reqs = 1 .. Len(reqs)
  BY <1>3, AdcAssumption
<1>5. requestIndex + 1 \in 1 .. Len(reqs) /\ requestIndex \in 0 .. Len(reqs) - 1
  BY <1>1, <1>4 DEF Busy
<1> QED
  BY <1>3, <1>4, <1>5, AdcAssumption

LEMMA NextRequestKeeps ==
  ASSUME SamplerInv, NEW c \in {Main, 1}, NextRequest(c)
  PROVE  SamplerInv'
<1> DEFINE r == reqs[requestIndex + 1]
           next == CASE ~ r.isMux -> "convert"
                     [] r.isMux /\ r.en # lastMux.en -> "release"
                     [] r.isMux /\ r.en = lastMux.en -> "address"
<1>1. /\ At(c, "request") /\ Goto(c, next) /\ curRequest' = r
      /\ port' = [port EXCEPT ![c] = 0]
      /\ readSame
      /\ UNCHANGED <<primask, lastMux, enabled, fading, datamask, high, lastPins, adc>>
  BY DEF NextRequest, readSame, adcVars
<1> HIDE DEF next
<1>2. "request" \in Inner
  BY DEF Inner
<1>3. Worker = c /\ Where = "request" /\ adc = NoRequest /\ Busy
  BY <1>1, <1>2, WorkerAt
<1>4. r.isMux \in BOOLEAN
  BY <1>3, RequestType
<1>5. /\ next \in {"convert", "release", "address"}
      /\ next = "convert" => ~ r.isMux
      /\ next # "convert" => r.isMux
      /\ next = "address" => r.en = lastMux.en
  BY <1>4 DEF next
<1>6. next \in Inner
  BY <1>5 DEF Inner, Selecting, Addressing
<1> HIDE DEF r
<1>7. Worker' = c /\ Where' = next
  BY <1>1, <1>2, <1>6, WorkerGoes
<1>8. InnerKept
  BY <1>1, <1>2, <1>6, InnerSame
<1>9. MuxTypes /\ Enabling /\ Pins
  BY DEF SamplerInv, SamplerTypes, MuxTypes
<1>10. DOMAIN port' = Contexts /\ port'[Main] \in Ports /\ port'[1] \in Ports /\ port'[c] = 0
  BY <1>1, <1>9, TwoContexts DEF MuxTypes
<1>11. Enabling'
  BY <1>1, <1>3, <1>5, <1>7, <1>9, <1>8 DEF Enabling, Addressing, InnerKept
<1>12. ASSUME NEW p \in Ports PROVE PortTrue(p)'
  <2>1. PortTrue(p)
    BY <1>9 DEF Pins
  <2> QED
    BY <1>1, <1>3, <1>5, <1>7, <2>1 DEF PortTrue, PinsOf, readSame
<1>13. 0 .. port'[c] - 1 = {}
  BY <1>10
<1>14. Pins'
  BY <1>5, <1>7, <1>12, <1>13 DEF Pins, Selecting, Addressing
<1>15. Selected'
  BY <1>1, <1>3, <1>5, <1>7, <1>8 DEF Selected, InnerKept
<1>16. MuxTypes'
  BY <1>1, <1>9, <1>10 DEF MuxTypes
<1>17. Where' \in Selecting => curRequest'.isMux
  BY <1>1, <1>5, <1>7 DEF Selecting, Addressing
<1>18. adc' = NoRequest /\ curRequest' = reqs[requestIndex + 1]
  BY <1>1, <1>3 DEF r
<1> QED
  BY <1>8, <1>11, <1>14, <1>15, <1>16, <1>17, <1>18, InnerDone

\* What is known of a step after the request has been read.
LEMMA RequestRead ==
  ASSUME SamplerInv, NEW c \in {Main, 1}, NEW l \in Selecting, At(c, l),
         UNCHANGED <<adc, curRequest>>
  PROVE  /\ l \in Inner
         /\ Worker = c /\ Where = l
         /\ adc' = NoRequest
         /\ curRequest' = reqs[requestIndex + 1]
         /\ curRequest'.isMux
         /\ c \in Contexts /\ port[c] \in Ports
<1>1. l \in Inner /\ l # "request"
  BY DEF Inner, Selecting, Addressing
<1>2. Worker = c /\ Where = l /\ adc = NoRequest
  BY <1>1, WorkerAt
<1>3. c \in Contexts /\ port[c] \in Ports
  BY TwoContexts DEF SamplerInv, SamplerTypes
<1> QED
  BY <1>1, <1>2, <1>3 DEF SamplerInv, Turns

LEMMA ReleaseKeeps ==
  ASSUME SamplerInv, NEW c \in {Main, 1}, Release(c)
  PROVE  SamplerInv'
<1> DEFINE off == {lastMux.en} \ {NoPin}
           next == IF off = {} THEN "make" ELSE "delay"
<1>1. /\ At(c, "release") /\ Goto(c, next)
      /\ enabled' = enabled \ off /\ fading' = fading \cup off
      /\ readSame
      /\ UNCHANGED <<primask, curRequest, lastMux, port, datamask, high, lastPins, adc>>
  BY DEF Release, readSame, adcVars, readVars
<1> HIDE DEF next
<1>2. "release" \in Selecting /\ next \in Selecting /\ next \in Inner
  BY DEF Selecting, Inner, next
<1>3. /\ "release" \in Inner /\ Worker = c /\ Where = "release" /\ adc' = NoRequest
      /\ curRequest' = reqs[requestIndex + 1] /\ curRequest'.isMux
  BY <1>1, <1>2, RequestRead
<1>4. Worker' = c /\ Where' = next
  BY <1>1, <1>2, <1>3, WorkerGoes
<1>5. InnerKept
  BY <1>1, <1>2, <1>3, InnerSame
<1>6. MuxTypes /\ Enabling /\ Pins
  BY DEF SamplerInv, SamplerTypes, MuxTypes
<1>7. Enabling'
  <2>1. enabled = off /\ (DelaySuffices => fading = {})
    BY <1>3, <1>6 DEF Enabling, Addressing
  <2>2. enabled' = {} /\ (DelaySuffices' => fading' = off)
    BY <1>1, <1>5, <2>1 DEF InnerKept
  <2>3. next = "make" => off = {}
    BY DEF next
  <2>4. next \in {"make", "delay"} /\ off = off'
    BY <1>1 DEF next
  <2> QED
    BY <1>4, <2>2, <2>3, <2>4 DEF Enabling, Addressing
<1>8. next \in {"make", "delay"}
  BY DEF next
<1>9. ASSUME NEW p \in Ports PROVE PortTrue(p)'
  <2>1. PortTrue(p)
    BY <1>6 DEF Pins
  <2> QED
    BY <1>1, <1>3, <1>4, <1>8, <2>1 DEF PortTrue, PinsOf, readSame
<1>10. Pins'
  BY <1>1, <1>3, <1>4, <1>6, <1>8, <1>9 DEF Pins, Selecting, PinsValue, PinsOf
<1>11. Selected'
  BY <1>3, <1>4, <1>5, <1>8 DEF Selected, InnerKept
<1>12. MuxTypes'
  BY <1>1, <1>6 DEF MuxTypes
<1> QED
  BY <1>3, <1>5, <1>7, <1>10, <1>11, <1>12, InnerDone

LEMMA DelayKeeps ==
  ASSUME SamplerInv, NEW c \in {Main, 1}, Delay(c)
  PROVE  SamplerInv'
<1>1. /\ At(c, "delay") /\ Goto(c, "make")
      /\ fading' = IF DelaySuffices THEN {} ELSE fading
      /\ readSame
      /\ UNCHANGED <<primask, curRequest, lastMux, port, enabled, datamask, high, lastPins, adc>>
  BY DEF Delay, readSame, adcVars, readVars
<1>2. "delay" \in Selecting /\ "make" \in Selecting /\ "make" \in Inner
  BY DEF Selecting, Inner
<1>3. /\ "delay" \in Inner /\ Worker = c /\ Where = "delay" /\ adc' = NoRequest
      /\ curRequest' = reqs[requestIndex + 1] /\ curRequest'.isMux
  BY <1>1, <1>2, RequestRead
<1>4. Worker' = c /\ Where' = "make"
  BY <1>1, <1>2, <1>3, WorkerGoes
<1>5. InnerKept
  BY <1>1, <1>2, <1>3, InnerSame
<1>6. MuxTypes /\ Enabling /\ Pins
  BY DEF SamplerInv, SamplerTypes, MuxTypes
<1>7. Enabling'
  BY <1>1, <1>3, <1>4, <1>6, <1>5 DEF Enabling, Addressing, InnerKept
<1>9. ASSUME NEW p \in Ports PROVE PortTrue(p)'
  <2>1. PortTrue(p)
    BY <1>6 DEF Pins
  <2> QED
    BY <1>1, <1>3, <1>4, <2>1 DEF PortTrue, PinsOf, readSame
<1>10. Pins'
  BY <1>1, <1>3, <1>4, <1>6, <1>9 DEF Pins, Selecting, PinsValue, PinsOf
<1>11. Selected'
  BY <1>3, <1>4, <1>5 DEF Selected, InnerKept
<1>12. MuxTypes'
  BY <1>1, <1>6 DEF MuxTypes
<1> QED
  BY <1>3, <1>5, <1>7, <1>10, <1>11, <1>12, InnerDone

LEMMA MakeKeeps ==
  ASSUME SamplerInv, NEW c \in {Main, 1}, Make(c)
  PROVE  SamplerInv'
<1>1. /\ At(c, "make") /\ Goto(c, "address")
      /\ enabled' = enabled \cup ({curRequest.en} \ {NoPin})
      /\ readSame
      /\ UNCHANGED <<primask, curRequest, lastMux, port, fading, datamask, high, lastPins, adc>>
  BY DEF Make, readSame, adcVars, readVars
<1>2. "make" \in Selecting /\ "address" \in Selecting /\ "address" \in Inner
  BY DEF Selecting, Inner, Addressing
<1>3. /\ "make" \in Inner /\ Worker = c /\ Where = "make" /\ adc' = NoRequest
      /\ curRequest' = reqs[requestIndex + 1] /\ curRequest'.isMux
  BY <1>1, <1>2, RequestRead
<1>4. Worker' = c /\ Where' = "address"
  BY <1>1, <1>2, <1>3, WorkerGoes
<1>5. InnerKept
  BY <1>1, <1>2, <1>3, InnerSame
<1>6. MuxTypes /\ Enabling /\ Pins
  BY DEF SamplerInv, SamplerTypes, MuxTypes
<1>7. Enabling'
  BY <1>1, <1>3, <1>4, <1>6, <1>5 DEF Enabling, Addressing, InnerKept
<1>9. ASSUME NEW p \in Ports PROVE PortTrue(p)'
  <2>1. PortTrue(p)
    BY <1>6 DEF Pins
  <2> QED
    BY <1>1, <1>3, <1>4, <2>1 DEF PortTrue, PinsOf, readSame
<1>10. Pins'
  BY <1>1, <1>3, <1>4, <1>6, <1>9 DEF Pins, Selecting, PinsValue, PinsOf
<1>11. Selected'
  BY <1>3, <1>4, <1>5 DEF Selected, InnerKept
<1>12. MuxTypes'
  BY <1>1, <1>6 DEF MuxTypes
<1> QED
  BY <1>3, <1>5, <1>7, <1>10, <1>11, <1>12, InnerDone

LEMMA AddressKeeps ==
  ASSUME SamplerInv, NEW c \in {Main, 1}, Address(c)
  PROVE  SamplerInv'
<1> DEFINE p0 == port[c]
           next == IF lastPins[p0] # PinsValue(p0) THEN "save" ELSE "written"
<1>1. /\ At(c, "address") /\ Goto(c, next)
      /\ readSame
      /\ UNCHANGED <<primask, samplerVars>>
  BY DEF Address, readSame, samplerVars, adcVars, readVars, muxVars
<1>0. UNCHANGED <<curRequest, lastMux, port, enabled, fading, datamask, high, lastPins,
                  adc, primask>>
  BY <1>1 DEF samplerVars, muxVars, readVars, adcVars
<1> HIDE DEF next
<1>2. "address" \in Selecting /\ next \in {"save", "written"}
  BY DEF Selecting, Addressing, next
<1>8. next \in Inner /\ next \in Addressing /\ next \in Selecting
  BY <1>2 DEF Selecting, Inner, Addressing
<1>3. /\ "address" \in Inner /\ Worker = c /\ Where = "address" /\ adc' = NoRequest
      /\ curRequest' = reqs[requestIndex + 1] /\ curRequest'.isMux
  BY <1>0, <1>1, <1>2, RequestRead
<1>4. Worker' = c /\ Where' = next
  BY <1>1, <1>3, <1>8, WorkerGoes
<1>5. InnerKept
  BY <1>1, <1>3, <1>8, InnerSame
<1>6. MuxTypes /\ Enabling /\ Pins
  BY DEF SamplerInv, SamplerTypes, MuxTypes
<1>7. Enabling'
  BY <1>0, <1>2, <1>3, <1>4, <1>6, <1>5 DEF Enabling, Addressing, InnerKept
<1>9. ASSUME NEW p \in Ports PROVE PortTrue(p)'
  <2>1. PortTrue(p)
    BY <1>6 DEF Pins
  <2>2. next = "written" => lastPins[p0] = PinsValue(p0)
    BY DEF next
  <2>3. PinsValue(p)' = PinsValue(p) /\ PinsOf(p)' = PinsOf(p)
    BY <1>0 DEF PinsValue, PinsOf
  <2>4. otherHigh' = otherHigh
    BY <1>1 DEF readSame
  <2> QED
    BY <1>0, <1>2, <1>3, <1>4, <2>1, <2>2, <2>3, <2>4 DEF PortTrue
<1>10. Pins'
  BY <1>0, <1>2, <1>3, <1>4, <1>6, <1>9 DEF Pins, Selecting, PinsValue, PinsOf
<1>11. Selected'
  BY <1>2, <1>3, <1>4, <1>5 DEF Selected, InnerKept
<1>12. MuxTypes'
  BY <1>0, <1>6 DEF MuxTypes
<1> QED
  BY <1>3, <1>5, <1>7, <1>10, <1>11, <1>12, InnerDone

\* The steps of the critical section.
LEMMA SelectPinsKeeps ==
  ASSUME SamplerInv, NEW c \in {Main, 1}, SelectPins(c)
  PROVE  SamplerInv'
<1>1. PICK l \in {"save", "mask", "restore"}, next \in {"mask", "datamask", "written"} :
        /\ At(c, l) /\ Goto(c, next)
        /\ next = "datamask" => primask' = 1
        /\ next = "written" <=> l = "restore"
  BY DEF SelectPins, SavePrimask, MaskInterrupts, RestoreInterrupts
<1>13. UNCHANGED samplerVars
  BY DEF SelectPins
<1>0. /\ readSame
      /\ UNCHANGED <<curRequest, lastMux, port, enabled, fading, datamask, high, lastPins,
                     adc>>
  BY <1>13 DEF samplerVars, muxVars, readVars, adcVars, readSame
<1>2. l \in Selecting /\ next \in Selecting /\ next \in Inner /\ l \in Addressing
  BY DEF Selecting, Inner, Addressing
<1>3. /\ l \in Inner /\ Worker = c /\ Where = l /\ adc' = NoRequest
      /\ curRequest' = reqs[requestIndex + 1] /\ curRequest'.isMux
  BY <1>0, <1>1, <1>2, RequestRead
<1>4. Worker' = c /\ Where' = next
  BY <1>1, <1>2, <1>3, WorkerGoes
<1>5. InnerKept
  BY <1>0, <1>1, <1>2, <1>3, InnerSame
<1>6. MuxTypes /\ Enabling /\ Pins
  BY DEF SamplerInv, SamplerTypes, MuxTypes
<1>7. Enabling'
  BY <1>0, <1>2, <1>3, <1>4, <1>6, <1>5 DEF Enabling, Addressing, InnerKept
<1>9. ASSUME NEW p \in Ports PROVE PortTrue(p)'
  <2>1. PortTrue(p)
    BY <1>6 DEF Pins
  <2>3. PinsValue(p)' = PinsValue(p) /\ PinsOf(p)' = PinsOf(p)
    BY <1>0 DEF PinsValue, PinsOf
  <2>4. otherHigh' = otherHigh
    BY <1>0 DEF readSame
  <2> QED
    BY <1>0, <1>1, <1>3, <1>4, <2>1, <2>3, <2>4 DEF PortTrue
<1>10. Pins'
  BY <1>0, <1>1, <1>2, <1>3, <1>4, <1>6, <1>9 DEF Pins, PinsValue, PinsOf
<1>11. Selected'
  BY <1>3, <1>4, <1>5 DEF Selected, InnerKept
<1>12. MuxTypes'
  BY <1>0, <1>6 DEF MuxTypes
<1> QED
  BY <1>3, <1>5, <1>7, <1>10, <1>11, <1>12, InnerDone

LEMMA WriteDatamaskKeeps ==
  ASSUME SamplerInv, NEW c \in {Main, 1}, WriteDatamask(c)
  PROVE  SamplerInv'
<1>1. /\ At(c, "datamask") /\ Goto(c, "dataout")
      /\ datamask' = [datamask EXCEPT ![port[c]] = PinsOf(port[c])]
      /\ readSame
      /\ UNCHANGED <<primask, curRequest, lastMux, port, enabled, fading, high, lastPins, adc>>
  BY DEF WriteDatamask, readSame, adcVars, readVars
<1>2. /\ "datamask" \in Selecting /\ "dataout" \in Selecting /\ "dataout" \in Inner
      /\ "dataout" \in Addressing /\ "datamask" \in Addressing
  BY DEF Selecting, Inner, Addressing
<1>3. /\ "datamask" \in Inner /\ Worker = c /\ Where = "datamask" /\ adc' = NoRequest
      /\ curRequest' = reqs[requestIndex + 1] /\ curRequest'.isMux
      /\ port[c] \in Ports
  BY <1>1, <1>2, RequestRead
<1>4. Worker' = c /\ Where' = "dataout"
  BY <1>1, <1>2, <1>3, WorkerGoes
<1>5. InnerKept
  BY <1>1, <1>2, <1>3, InnerSame
<1>6. MuxTypes /\ Enabling /\ Pins
  BY DEF SamplerInv, SamplerTypes, MuxTypes
<1>7. Enabling'
  BY <1>1, <1>2, <1>3, <1>4, <1>6, <1>5 DEF Enabling, InnerKept
<1>8. datamask'[port'[c]] = PinsOf(port'[c]) /\ DOMAIN datamask' = Ports
  BY <1>1, <1>3, <1>6 DEF MuxTypes
<1>9. ASSUME NEW p \in Ports PROVE PortTrue(p)'
  <2>1. PortTrue(p)
    BY <1>6 DEF Pins
  <2> QED
    BY <1>1, <1>3, <1>4, <2>1 DEF PortTrue, PinsOf, readSame
<1>10. Pins'
  BY <1>1, <1>2, <1>3, <1>4, <1>6, <1>8, <1>9 DEF Pins, PinsValue, PinsOf
<1>11. Selected'
  BY <1>3, <1>4, <1>5 DEF Selected, InnerKept
<1>12. MuxTypes'
  BY <1>1, <1>6, <1>8 DEF MuxTypes
<1> QED
  BY <1>3, <1>5, <1>7, <1>10, <1>11, <1>12, InnerDone

LEMMA WriteDataoutKeeps ==
  ASSUME SamplerInv, NEW c \in {Main, 1}, WriteDataout(c)
  PROVE  SamplerInv'
<1> DEFINE q == port[c]
<1>1. /\ At(c, "dataout") /\ Goto(c, "restore")
      /\ high' = [high EXCEPT ![q] = Dataout(q, datamask[q], PinsValue(q))]
      /\ readSame
      /\ UNCHANGED <<primask, curRequest, lastMux, port, enabled, fading, datamask, lastPins, adc>>
  BY DEF WriteDataout, readSame, adcVars, readVars
<1>2. /\ "dataout" \in Selecting /\ "restore" \in Selecting /\ "restore" \in Inner
      /\ "dataout" \in Addressing /\ "restore" \in Addressing
  BY DEF Selecting, Inner, Addressing
<1>3. /\ "dataout" \in Inner /\ Worker = c /\ Where = "dataout" /\ adc' = NoRequest
      /\ curRequest' = reqs[requestIndex + 1] /\ curRequest'.isMux
      /\ q \in Ports
  BY <1>1, <1>2, RequestRead
<1>4. Worker' = c /\ Where' = "restore"
  BY <1>1, <1>2, <1>3, WorkerGoes
<1>5. InnerKept
  BY <1>1, <1>2, <1>3, InnerSame
<1>6. MuxTypes /\ Enabling /\ Pins
  BY DEF SamplerInv, SamplerTypes, MuxTypes
<1>7. Enabling'
  BY <1>1, <1>2, <1>3, <1>4, <1>6, <1>5 DEF Enabling, InnerKept
<1>8. /\ DOMAIN high' = Ports
      /\ high'[q] = (high[q] \ datamask[q]) \cup (PinsValue(q) \cap datamask[q])
      /\ \A p \in Ports : p # q => high'[p] = high[p]
  BY <1>1, <1>3, <1>6 DEF MuxTypes, Dataout
<1>13. datamask[q] = PinsOf(q)
  BY <1>3, <1>6 DEF Pins
<1>14. OtherPin \notin PinsOf(q) /\ PinsValue(q) \subseteq PinsOf(q)
  BY AdcAssumption DEF PinsOf, PinsValue
<1>9. ASSUME NEW p \in Ports PROVE PortTrue(p)'
  <2>1. PortTrue(p)
    BY <1>6 DEF Pins
  <2>2. PinsValue(p)' = PinsValue(p) /\ PinsOf(p)' = PinsOf(p) /\ otherHigh' = otherHigh
    BY <1>1 DEF PinsValue, PinsOf, readSame
  <2>3. high[p] \ {OtherPin} = lastPins[p] /\ lastPins[p] \subseteq PinsOf(p)
    BY <1>3, <2>1 DEF PortTrue
  <2>4. CASE p # q
    BY <1>1, <1>3, <1>4, <1>8, <2>1, <2>2, <2>4 DEF PortTrue
  <2>5. CASE p = q
    <3>1. high'[p] \ {OtherPin} = PinsValue(p)
      BY <1>8, <1>13, <1>14, <2>3, <2>5
    <3>2. OtherPin \in high'[p] <=> OtherPin \in high[p]
      BY <1>8, <1>13, <1>14, <2>5
    <3> QED
      BY <1>1, <1>4, <2>1, <2>2, <2>3, <2>5, <3>1, <3>2 DEF PortTrue
  <2> QED
    BY <2>4, <2>5
<1>10. Pins'
  BY <1>1, <1>2, <1>3, <1>4, <1>6, <1>9 DEF Pins, PinsValue, PinsOf
<1>11. Selected'
  BY <1>3, <1>4, <1>5 DEF Selected, InnerKept
<1>12. MuxTypes'
  BY <1>1, <1>6, <1>8 DEF MuxTypes
<1> QED
  BY <1>3, <1>5, <1>7, <1>10, <1>11, <1>12, InnerDone

-----------------------------------------------------------------------------
LEMMA PinsWrittenKeeps ==
  ASSUME SamplerInv, NEW c \in {Main, 1}, PinsWritten(c)
  PROVE  SamplerInv'
<1> DEFINE q == port[c]
           next == IF q + 1 \in Ports THEN "address" ELSE "convert"
<1>1. /\ At(c, "written") /\ Goto(c, next)
      /\ lastPins' = [lastPins EXCEPT ![q] = PinsValue(q)]
      /\ IF q + 1 \in Ports THEN port' = [port EXCEPT ![c] = @ + 1] /\ UNCHANGED lastMux
                            ELSE lastMux' = curRequest /\ UNCHANGED port
      /\ readSame
      /\ UNCHANGED <<primask, curRequest, enabled, fading, datamask, high, adc>>
  BY DEF PinsWritten, readSame, adcVars, readVars
<1> HIDE DEF next
<1>2. /\ "written" \in Selecting /\ "written" \in Addressing
      /\ next \in Inner /\ next \in {"address", "convert"}
      /\ next = "address" <=> q + 1 \in Ports
  BY DEF Selecting, Inner, Addressing, next
<1>3. /\ "written" \in Inner /\ Worker = c /\ Where = "written" /\ adc' = NoRequest
      /\ curRequest' = reqs[requestIndex + 1] /\ curRequest'.isMux
      /\ c \in Contexts /\ q \in Ports
  BY <1>1, <1>2, RequestRead
<1>4. Worker' = c /\ Where' = next
  BY <1>1, <1>2, <1>3, WorkerGoes
<1>5. InnerKept
  BY <1>1, <1>2, <1>3, InnerSame
<1>6. MuxTypes /\ Enabling /\ Pins
  BY DEF SamplerInv, SamplerTypes, MuxTypes
<1>7. enabled = {curRequest.en} \ {NoPin} /\ (DelaySuffices => fading = {})
  BY <1>2, <1>3, <1>6 DEF Enabling, Addressing
<1>8. Enabling'
  BY <1>1, <1>2, <1>4, <1>7, <1>5 DEF Enabling, Addressing, InnerKept
<1>9. /\ DOMAIN lastPins' = Ports /\ lastPins'[q] = PinsValue(q)
      /\ \A p \in Ports : p # q => lastPins'[p] = lastPins[p]
  BY <1>1, <1>3, <1>6 DEF MuxTypes
<1>10. ASSUME NEW p \in Ports
       PROVE  PinsValue(p)' = PinsValue(p) /\ PinsOf(p)' = PinsOf(p) /\ otherHigh' = otherHigh
  BY <1>1 DEF PinsValue, PinsOf, readSame
<1>11. ASSUME NEW p \in Ports PROVE PortTrue(p)'
  <2>1. PortTrue(p)
    BY <1>6 DEF Pins
  <2>2. PinsValue(q) \subseteq PinsOf(q)
    BY DEF PinsValue
  <2>3. high'[p] = high[p] /\ ~ (Where' \in {"restore", "written"})
    BY <1>1, <1>2, <1>4
  <2>4. high[p] \ {OtherPin} = lastPins'[p] /\ lastPins'[p] \subseteq PinsOf(p)
    BY <1>3, <1>9, <2>1, <2>2 DEF PortTrue
  <2> QED
    BY <1>10, <2>1, <2>3, <2>4 DEF PortTrue
<1>12. q \in {0, 1}
  BY <1>3, TwoContexts
<1>13. \A p \in 0 .. q - 1 : lastPins[p] = PinsValue(p)
  BY <1>2, <1>3, <1>6 DEF Pins
<1>14. \A p \in 0 .. q : lastPins'[p] = PinsValue(p)
  <2> SUFFICES ASSUME NEW p \in 0 .. q PROVE lastPins'[p] = PinsValue(p)
    OBVIOUS
  <2>1. p \in Ports /\ (p # q => p \in 0 .. q - 1)
    BY <1>12, TwoContexts
  <2> QED
    BY <1>9, <1>13, <2>1
<1>15. q + 1 \in Ports => port' = [port EXCEPT ![c] = q + 1] /\ port'[c] = q + 1
  BY <1>1, <1>3, <1>6 DEF MuxTypes
<1>16. Pins'
  <2>1. next = "address" => \A p \in 0 .. port'[c] - 1 : lastPins'[p] = PinsValue(p)'
    <3> SUFFICES ASSUME next = "address", NEW p \in 0 .. port'[c] - 1
                 PROVE  lastPins'[p] = PinsValue(p)'
      OBVIOUS
    <3>1. port'[c] - 1 = q
      BY <1>2, <1>12, <1>15
    <3>2. p \in 0 .. q /\ p \in Ports
      BY <1>12, <3>1, TwoContexts
    <3> QED
      BY <1>10, <1>14, <3>2
  <2> QED
    BY <1>2, <1>4, <1>11, <2>1 DEF Pins, Selecting, Addressing
<1>17. Selected'
  <2>1. q + 1 \notin Ports => \A p \in Ports : p \in 0 .. q
    BY <1>12, TwoContexts
  <2>2. q + 1 \notin Ports => \A p \in Ports : lastPins'[p] = PinsValue(p)'
    BY <1>10, <1>14, <2>1
  <2> QED
    BY <1>1, <1>2, <1>3, <1>4, <1>5, <2>2 DEF Selected, InnerKept
<1>18. DOMAIN port' = Contexts /\ port'[Main] \in Ports /\ port'[1] \in Ports
  BY <1>1, <1>6, <1>15, TwoContexts DEF MuxTypes
<1>19. MuxTypes'
  BY <1>1, <1>6, <1>9, <1>18 DEF MuxTypes
<1> QED
  BY <1>3, <1>5, <1>8, <1>16, <1>17, <1>19, InnerDone

\* The converter takes over.
LEMMA ConvertKeeps ==
  ASSUME SamplerInv, NEW c \in {Main, 1}, Convert(c)
  PROVE  SamplerInv'
<1>1. /\ At(c, "convert") /\ Goto(c, "idle") /\ adc' = curRequest
      /\ readSame
      /\ UNCHANGED <<curRequest, lastMux, port, enabled, fading, datamask, high, lastPins>>
  BY DEF Convert, readSame, readVars, muxVars
<1>2. "convert" \in Inner \ {"request"} /\ "convert" \notin Selecting
  BY DEF Inner, Selecting, Addressing
<1>3. Worker = c /\ Where = "convert"
  BY <1>1, <1>2, WorkerAt
<1>4. Where' \notin Inner
  BY <1>1, <1>2, WorkerGoes
<1>5. InnerKept
  BY <1>1, <1>2, InnerSame
<1>6. MuxTypes /\ Enabling /\ Pins /\ Selected /\ Turns
  BY DEF SamplerInv, SamplerTypes, MuxTypes
<1>7. SamplerTypes'
  BY <1>1, <1>5, <1>6 DEF InnerKept, SamplerTypes, MuxTypes
<1>8. curRequest = reqs[requestIndex + 1]
  BY <1>2, <1>3, <1>6 DEF Turns
<1>9. Turns'
  BY <1>1, <1>4, <1>5, <1>8 DEF InnerKept, Turns, Inner
<1>10. Where' \notin {"delay", "make", "restore", "written", "datamask", "dataout"} \cup Addressing \cup Selecting
  BY <1>4 DEF Inner, Selecting, Addressing
<1>11. Enabling'
  BY <1>1, <1>2, <1>3, <1>6, <1>10, <1>5 DEF Enabling, Selecting, InnerKept
<1>12. ASSUME NEW p \in Ports PROVE PortTrue(p)'
  <2>1. PortTrue(p)
    BY <1>6 DEF Pins
  <2> QED
    BY <1>1, <1>3, <1>10, <2>1 DEF PortTrue, PinsOf, readSame
<1>13. Pins'
  BY <1>10, <1>12 DEF Pins
<1>14. Selected'
  BY <1>1, <1>3, <1>6 DEF Selected, PinsValue, PinsOf
<1> QED
  BY <1>5, <1>7, <1>9, <1>11, <1>13, <1>14 DEF SamplerInv, InnerKept

-----------------------------------------------------------------------------
\* A step that is not of startReadInner leaves its place, and all it keeps there.
LEMMA MuxSame ==
  ASSUME Where' \notin Inner, Where \notin Inner,
         UNCHANGED <<lastMux, enabled, fading, datamask, high, lastPins, otherHigh, curRequest,
                     sysclk>>,
         Enabling, Pins
  PROVE  Enabling' /\ Pins'
<1>1. /\ Where \notin {"delay", "make", "restore", "written", "datamask", "dataout"} \cup Addressing \cup Selecting
      /\ Where' \notin {"delay", "make", "restore", "written", "datamask", "dataout"} \cup Addressing \cup Selecting
  BY DEF Inner, Selecting, Addressing
<1>2. Enabling'
  BY <1>1, SufficesSame DEF Enabling
<1>3. ASSUME NEW p \in Ports PROVE PortTrue(p)'
  <2>1. PortTrue(p)
    BY DEF Pins
  <2> QED
    BY <1>1, <2>1 DEF PortTrue, PinsOf
<1> QED
  BY <1>1, <1>2, <1>3 DEF Pins

\* The converter samples the inputs of the request.
LEMMA SamplesKeeps == ASSUME SamplerInv, Samples PROVE SamplerInv'
<1>1. PICK n \in {adc.cnt, adc.cnt + 1} :
        fifo' = [k \in 1 .. n |-> Sample(adc, IF adc.sweep THEN adc.chan + k - 1
                                              ELSE adc.chan)]
  BY DEF Samples
<1>2. adc # NoRequest /\ irq' /\ adc' = NoRequest
  BY DEF Samples
<1>3. UNCHANGED <<cpuVars, clientVars, readVars, muxVars, sysclk, data>>
  BY DEF Samples
<1>4. SamplerTypes /\ Turns /\ Enabling /\ Pins /\ Selected /\ Served
  BY DEF SamplerInv
<1>5. Where \notin Inner /\ Busy /\ adc = curRequest /\ curRequest = reqs[requestIndex + 1]
  BY <1>2, <1>4 DEF Turns
<1>6. Where' = Where /\ pc' = pc /\ Working(Main)' = Working(Main) /\ Working(1)' = Working(1)
  BY <1>3 DEF cpuVars, Where, Worker, Working
<1>7. SamplerTypes'
  BY <1>3, <1>4 DEF SamplerTypes, cpuVars, clientVars, readVars, muxVars
<1>8. Busy' = Busy /\ curRequest' = curRequest /\ reqs' = reqs /\ requestIndex' = requestIndex
      /\ wasBusy' = wasBusy
  BY <1>3 DEF Busy, readVars, clientVars
<1>9. Turns'
  BY <1>2, <1>4, <1>5, <1>6, <1>8 DEF Turns, Inner
<1>10. Enabling' /\ Pins'
  BY <1>3, <1>4, <1>5, <1>6, <1>8, MuxSame DEF muxVars
<1>11. Selected'
  BY <1>2, <1>3, <1>4, <1>8 DEF Selected, muxVars, PinsValue, PinsOf
<1>12. Served'
  BY <1>3, <1>4, ServedSame DEF readVars, clientVars
<1>13. curRequest.isMux => enabled = {curRequest.en} \ {NoPin}
  BY <1>2, <1>4, <1>5 DEF Selected, Enabling, Inner, Selecting
<1>14. curRequest.isMux => (high[0] \cup high[1]) \ {OtherPin} = curRequest.addr
  <2> SUFFICES ASSUME curRequest.isMux
               PROVE  (high[0] \cup high[1]) \ {OtherPin} = curRequest.addr
    OBVIOUS
  <2>1. \A p \in Ports : high[p] \ {OtherPin} = PinsValue(p)
    <3> SUFFICES ASSUME NEW p \in Ports PROVE high[p] \ {OtherPin} = PinsValue(p)
      OBVIOUS
    <3>1. PortTrue(p) /\ lastPins[p] = PinsValue(p)
      BY <1>2, <1>4 DEF Pins, Selected
    <3>2. Where \notin {"restore", "written"}
      BY <1>5 DEF Inner, Selecting, Addressing
    <3> QED
      BY <3>1, <3>2 DEF PortTrue
  <2>2. curRequest.addr \subseteq AddressPins
    BY <1>5, RequestType
  <2>3. \A a \in curRequest.addr : PortOf[a] \in {0, 1}
    BY <2>2, AdcAssumption, TwoContexts
  <2>4. PinsValue(0) \cup PinsValue(1) = curRequest.addr
    BY <2>2, <2>3 DEF PinsValue, PinsOf
  <2>5. 0 \in Ports /\ 1 \in Ports
    BY TwoContexts
  <2> HIDE DEF Main
  <2> QED
    BY <2>1, <2>4, <2>5
<1> DEFINE settled == curRequest.isMux => fading = {}
<1>15. settled \in Settlings(curRequest)
  <2>1. curRequest.isMux \in BOOLEAN
    BY <1>5, RequestType
  <2>2. DelaySuffices => fading = {}
    BY <1>4, <1>5 DEF Enabling, Inner, Selecting
  <2>3. settled \in BOOLEAN
    OBVIOUS
  <2>4. (curRequest.isMux /\ ~ DelaySuffices) \/ settled = TRUE
    BY <2>1, <2>2
  <2> HIDE DEF settled
  <2> QED
    BY <2>1, <2>3, <2>4 DEF Settlings
<1>16. \A chan : Sample(adc, chan) = Wanted(curRequest, chan, settled)
  BY <1>5, <1>13, <1>14 DEF Sample, Wanted
<1> HIDE DEF settled
<1>17. Sampled'
  <2> DEFINE here(k) == IF curRequest.sweep THEN curRequest.chan + k - 1 ELSE curRequest.chan
  <2>1. fifo' = [k \in 1 .. n |-> Wanted(curRequest, here(k), settled)]
    BY <1>1, <1>5, <1>16
  <2>2. DelaySuffices' <=> DelaySuffices
    BY <1>3, SufficesSame
  <2>3. Settlings(curRequest)' = Settlings(curRequest)
    BY <1>8, <2>2 DEF Settlings
  <2>4. /\ curRequest' = curRequest /\ accepted' = accepted
        /\ n \in {curRequest'.cnt, curRequest'.cnt + 1} /\ settled \in Settlings(curRequest)'
    BY <1>1, <1>3, <1>5, <1>8, <1>15, <2>3 DEF clientVars
  <2>5. fifo' = [k \in 1 .. n |-> Wanted(curRequest, IF curRequest.sweep
                   THEN curRequest.chan + k - 1 ELSE curRequest.chan, settled)]
    BY <2>1
  <2> HIDE DEF here
  <2> QED
    BY <2>4, <2>5 DEF Sampled, Wanted
<1> QED
  BY <1>7, <1>9, <1>10, <1>11, <1>12, <1>17 DEF SamplerInv

\* What was on lets go whenever it does.
LEMMA FadeKeeps == ASSUME SamplerInv, Fade PROVE SamplerInv'
<1>1. /\ fading' = {}
      /\ UNCHANGED <<pc, primask, clientVars, readVars, lastMux, port, enabled, datamask,
                     high, lastPins, otherHigh, adcVars, data>>
  BY DEF Fade, cpuVars
<1>2. /\ wasBusy' = wasBusy /\ asked' = asked /\ accepted' = accepted
      /\ reqs' = reqs /\ requestIndex' = requestIndex /\ buffer' = buffer
      /\ dataIndex' = dataIndex /\ curRequest' = curRequest /\ readErrors' = readErrors
      /\ adc' = adc /\ fifo' = fifo /\ irq' = irq /\ sysclk' = sysclk
  BY <1>1 DEF clientVars, readVars, adcVars
<1>3. SamplerTypes /\ Turns /\ Enabling /\ Pins /\ Selected /\ Sampled /\ Served
  BY DEF SamplerInv
<1>4. SamplerTypes'
  BY <1>1, <1>2, <1>3 DEF SamplerTypes
<1>5. Turns'
  BY <1>1, <1>2, <1>3 DEF Turns, Working, Where, Worker, Busy
<1>6. Enabling' /\ Selected'
  BY <1>1, <1>2, <1>3 DEF Enabling, Selected, Where, Worker, Working, PinsValue, PinsOf
<1>7. Pins'
  BY <1>1, <1>2, <1>3 DEF Pins, PortTrue, Where, Worker, Working, PinsValue, PinsOf
<1>8. Sampled' /\ Served'
  BY <1>1, <1>2, <1>3, SampledSame, ServedSame
<1> QED
  BY <1>4, <1>5, <1>6, <1>7, <1>8 DEF SamplerInv

\* The other handler cannot come between the writes of DATAMASK and DATAOUT.
LEMMA OtherHandlerKeeps == ASSUME SamplerInv, OtherHandler PROVE SamplerInv'
<1> DEFINE q == PortOf[OtherPin]
<1>1. /\ primask = 0
      /\ datamask' = [datamask EXCEPT ![q] = {OtherPin}]
      /\ high' = [high EXCEPT ![q] = Dataout(q, {OtherPin}, IF otherHigh THEN {} ELSE {OtherPin})]
      /\ otherHigh' = ~ otherHigh
      /\ UNCHANGED <<cpuVars, clientVars, readVars, lastMux, port, enabled, fading,
                     lastPins, adcVars, data>>
  BY DEF OtherHandler
<1>2. SamplerTypes /\ Turns /\ Enabling /\ Pins /\ Selected /\ Sampled /\ Served
  BY DEF SamplerInv
<1>3. /\ Where' = Where /\ Worker' = Worker /\ pc' = pc /\ Busy' = Busy
      /\ curRequest' = curRequest
      /\ Working(Main)' = Working(Main) /\ Working(1)' = Working(1) /\ primask' = primask
  BY <1>1 DEF cpuVars, Where, Worker, Working, Busy, readVars
<1>4. SamplerTypes'
  BY <1>1, <1>2 DEF SamplerTypes, cpuVars, clientVars, readVars
<1>5. Turns'
  BY <1>1, <1>2, <1>3 DEF Turns, readVars, clientVars, adcVars
<1>6. Enabling'
  BY <1>1, <1>2, <1>3, SufficesSame DEF Enabling, adcVars
<1>7. Where \notin {"datamask", "dataout"}
  BY <1>1, <1>2 DEF Pins
<1>8. /\ q \in Ports
      /\ high'[q] = (high[q] \ {OtherPin}) \cup (IF otherHigh THEN {} ELSE {OtherPin})
      /\ \A p \in Ports : p # q => high'[p] = high[p]
  BY <1>1, <1>2, AdcAssumption DEF SamplerTypes, Dataout
<1>9. \A p \in Ports : PinsValue(p)' = PinsValue(p) /\ PinsOf(p)' = PinsOf(p)
  BY <1>3 DEF PinsValue, PinsOf
<1>10. ASSUME NEW p \in Ports PROVE PortTrue(p)'
  <2>1. PortTrue(p) /\ otherHigh \in BOOLEAN
    BY <1>2 DEF Pins, SamplerTypes
  <2>2. high'[p] \ {OtherPin} = high[p] \ {OtherPin}
    BY <1>8
  <2>3. OtherPin \in high'[p] <=> otherHigh' /\ p = q
    BY <1>1, <1>8, <2>1 DEF PortTrue
  <2>4. lastPins' = lastPins /\ port' = port
    BY <1>1
  <2> QED
    BY <1>3, <1>9, <2>1, <2>2, <2>3, <2>4 DEF PortTrue
<1>11. Pins'
  BY <1>1, <1>2, <1>3, <1>7, <1>9, <1>10 DEF Pins, PinsValue, PinsOf
<1>12. Selected'
  BY <1>1, <1>2, <1>3 DEF Selected, adcVars, PinsValue, PinsOf
<1>13. Sampled'
  BY <1>1, <1>2, <1>3, SampledSame DEF adcVars, clientVars
<1>14. Served'
  BY <1>1, <1>2, ServedSame DEF readVars, clientVars, adcVars
<1> QED
  BY <1>4, <1>5, <1>6, <1>11, <1>12, <1>13, <1>14 DEF SamplerInv

-----------------------------------------------------------------------------
\* Where startReadInner is, when only the client has moved outside it.
LEMMA ClientMoves ==
  ASSUME SamplerTypes, pc[Main] \notin Inner, NEW next, next \notin Inner, Goto(Main, next)
  PROVE  /\ DOMAIN pc' = Contexts /\ pc'[Main] = next /\ pc'[1] = pc[1]
         /\ ~ Working(Main) /\ ~ Working(Main)' /\ Working(1)' = Working(1)
         /\ Worker' = Worker
         /\ Where \notin Inner => Where' \notin Inner
         /\ Where \in Inner => Where' = Where
<1>1. /\ DOMAIN pc' = Contexts /\ pc'[Main] = next /\ pc'[1] = pc[1]
  BY TwoContexts DEF SamplerTypes, Goto
<1> QED
  BY <1>1, TwoContexts DEF Working, Worker, Where

\* The places of the words served are in the buffer.
LEMMA WordPlace ==
  ASSUME SamplerTypes, Served,
         NEW i \in 1 .. requestIndex, NEW k \in 1 .. Words(reqs[i])
  PROVE  /\ WordsOf(reqs, i - 1) \in Int /\ Words(reqs[i]) \in Nat
         /\ WordsOf(reqs, i - 1) + k - 1 \in 0 .. DataSize - 1
         /\ WordsOf(reqs, i - 1) + k <= dataIndex
<1>1. reqs \in RequestLists \cup {<<>>} /\ requestIndex \in 0 .. Len(reqs)
  BY DEF SamplerTypes
<1>2. Len(<<>>) = 0
  OBVIOUS
<1>3. reqs \in RequestLists
  BY <1>1, <1>2
<1>4. Len(reqs) \in Nat
  BY <1>3, AdcAssumption
<1>5. /\ i \in 1 .. Len(reqs) /\ i \in 0 .. Len(reqs) /\ i - 1 \in 0 .. Len(reqs) - 1
      /\ i - 1 \in 0 .. Len(reqs) /\ 0 \in 0 .. Len(reqs)
      /\ requestIndex \in i .. Len(reqs) /\ i - 1 \in 0 .. Len(reqs) /\ (i - 1) + 1 = i
  BY <1>1, <1>4
<1>6. /\ WordsOf(reqs, i - 1) \in Int
      /\ WordsOf(reqs, (i - 1) + 1) = WordsOf(reqs, i - 1) + Words(reqs[(i - 1) + 1])
  BY <1>3, <1>5, NextWords
<1>7. WordsOf(reqs, i) <= WordsOf(reqs, requestIndex)
  BY <1>3, <1>5, WordsOrdered
<1>8. WordsOf(reqs, 0) <= WordsOf(reqs, i - 1)
  BY <1>3, <1>5, WordsOrdered
<1>9. WordsOf(reqs, 0) = 0
  BY NoWords
<1>10. WordsOf(reqs, requestIndex) = dataIndex /\ dataIndex <= DataSize /\ DataSize \in Nat
  BY AdcAssumption DEF Served
<1>11. Words(reqs[i]) \in Nat
  BY <1>3, <1>5, WordsType
<1>12. WordsOf(reqs, requestIndex) \in Int
  BY <1>1, <1>3, WordsOfType
<1> QED
  BY <1>5, <1>6, <1>7, <1>8, <1>9, <1>10, <1>11, <1>12, SMTT(40)

LEMMA ListNotEmpty ==
  ASSUME NEW l \in RequestLists \cup {<<>>}, l # <<>>
  PROVE  l \in RequestLists /\ Len(l) \in Nat /\ Len(l) # 0
<1>1. l \in RequestLists /\ Len(l) \in Nat /\ DOMAIN l = 1 .. Len(l)
  BY AdcAssumption
<1> QED
  BY <1>1, AdcAssumption

LEMMA StartReadKeeps ==
  ASSUME SamplerInv, NEW list \in RequestLists \cup {<<>>}, NEW b \in Buffers,
         StartRead(list, b)
  PROVE  SamplerInv'
<1>1. /\ At(Main, "idle") /\ wasBusy' = Busy /\ asked' = [list |-> list, buf |-> b]
      /\ Goto(Main, "asked")
      /\ UNCHANGED <<primask, rejected, accepted, readVars, muxVars, adcVars, data>>
  BY DEF StartRead, MayStart
<1>2. SamplerTypes /\ Turns /\ Enabling /\ Pins /\ Selected /\ Sampled /\ Served
  BY DEF SamplerInv
<1>3. pc[Main] = "idle" /\ pc[1] = "idle"
  BY <1>1, TwoContexts DEF At, Executes, Main, Contexts
<1>4. "idle" \notin Inner /\ "asked" \notin Inner
  BY DEF Inner, Selecting, Addressing
<1>5. /\ DOMAIN pc' = Contexts /\ pc'[Main] = "asked" /\ pc'[1] = "idle"
      /\ ~ Working(Main)' /\ Worker' = Worker
      /\ Where' \notin Inner /\ Where \notin Inner
  <2>1. Where \notin Inner
    BY <1>3, <1>4 DEF Where, Worker, Working
  <2> QED
    BY <1>1, <1>2, <1>3, <1>4, <2>1, ClientMoves
<1>6. /\ reqs' = reqs /\ requestIndex' = requestIndex /\ buffer' = buffer
      /\ dataIndex' = dataIndex /\ curRequest' = curRequest /\ readErrors' = readErrors
      /\ sysclk' = sysclk /\ adc' = adc /\ fifo' = fifo /\ irq' = irq /\ data' = data /\ accepted' = accepted
      /\ port' = port /\ datamask' = datamask /\ high' = high /\ lastPins' = lastPins
      /\ lastMux' = lastMux /\ enabled' = enabled /\ fading' = fading
      /\ otherHigh' = otherHigh
  BY <1>1 DEF readVars, muxVars, adcVars
<1>7. SamplerTypes'
  BY <1>1, <1>2, <1>5, <1>6 DEF SamplerTypes
<1>8. Busy' = Busy
  BY <1>6 DEF Busy
<1>9. Turns'
  BY <1>1, <1>2, <1>5, <1>6, <1>8 DEF Turns, Inner
<1>10. Enabling' /\ Pins'
  BY <1>2, <1>5, <1>6, MuxSame
<1>11. Selected'
  BY <1>2, <1>5, <1>6 DEF Selected, PinsValue, PinsOf, Inner
<1>12. Sampled'
  BY <1>2, <1>6, SampledSame
<1>13. Served'
  BY <1>2, <1>6, ServedSame
<1> QED
  BY <1>7, <1>9, <1>10, <1>11, <1>12, <1>13 DEF SamplerInv

\* A rejected read changes no word of the buffer of the read in progress, and none
\* of a buffer it does not ask for.
LEMMA RejectReadKeeps == ASSUME SamplerInv, RejectRead PROVE SamplerInv'
<1>1. /\ At(Main, "asked") /\ (asked.list = <<>> \/ wasBusy)
      /\ data' = Prepopulated(data)
      /\ Goto(Main, "idle")
      /\ UNCHANGED <<primask, wasBusy, asked, accepted, readVars, muxVars, adcVars>>
  BY DEF RejectRead
<1>2. SamplerTypes /\ Turns /\ Enabling /\ Pins /\ Selected /\ Sampled /\ Served
  BY DEF SamplerInv
<1>3. pc[Main] = "asked" /\ pc[1] = "idle"
  BY <1>1, TwoContexts DEF At, Executes, Main, Contexts
<1>4. "idle" \notin Inner /\ "asked" \notin Inner
  BY DEF Inner, Selecting, Addressing
<1>5. /\ DOMAIN pc' = Contexts /\ pc'[Main] = "idle" /\ pc'[1] = "idle"
      /\ ~ Working(Main)' /\ Worker' = Worker
      /\ Where' \notin Inner /\ Where \notin Inner
  <2>1. Where \notin Inner
    BY <1>3, <1>4 DEF Where, Worker, Working
  <2> QED
    BY <1>1, <1>2, <1>3, <1>4, <2>1, ClientMoves
<1>6. /\ reqs' = reqs /\ requestIndex' = requestIndex /\ buffer' = buffer
      /\ dataIndex' = dataIndex /\ curRequest' = curRequest /\ readErrors' = readErrors
      /\ sysclk' = sysclk /\ adc' = adc /\ fifo' = fifo /\ irq' = irq /\ accepted' = accepted
      /\ port' = port /\ datamask' = datamask /\ high' = high /\ lastPins' = lastPins
      /\ lastMux' = lastMux /\ enabled' = enabled /\ fading' = fading
      /\ otherHigh' = otherHigh
  BY <1>1 DEF readVars, muxVars, adcVars
<1>7. DOMAIN data' = Buffers /\ \A b \in Buffers : DOMAIN data'[b] = 0 .. DataSize - 1
  <2>1. DOMAIN data = Buffers /\ \A b \in Buffers : DOMAIN data[b] = 0 .. DataSize - 1
    BY <1>2 DEF SamplerTypes
  <2> QED
    BY <1>1, <2>1 DEF Prepopulated
<1>8. \A i \in 0 .. DataSize - 1 : data'[buffer][i] = data[buffer][i]
  <2> SUFFICES ASSUME NEW i \in 0 .. DataSize - 1
               PROVE  data'[buffer][i] = data[buffer][i]
    OBVIOUS
  <2>1. DOMAIN data = Buffers /\ buffer \in Buffers /\ DOMAIN data[buffer] = 0 .. DataSize - 1
    BY <1>2 DEF SamplerTypes
  <2>2. CASE asked.buf # buffer \/ wasBusy
    BY <1>1, <2>1, <2>2 DEF Prepopulated
  <2>3. CASE asked.buf = buffer /\ ~ wasBusy
    <3>1. asked.list = <<>>
      BY <1>1, <2>3
    <3>2. Len(<<>>) = 0
      OBVIOUS
    <3>3. WordsOf(asked.list, Len(asked.list)) = 0
      BY <3>1, <3>2, NoWords
    <3>4. ~ (i < WordsOf(asked.list, Len(asked.list)))
      BY <3>3, AdcAssumption
    <3> QED
      BY <1>1, <2>1, <2>3, <3>4 DEF Prepopulated
  <2> QED
    BY <2>2, <2>3
<1>9. SamplerTypes'
  BY <1>1, <1>2, <1>5, <1>6, <1>7 DEF SamplerTypes
<1>10. Busy' = Busy
  BY <1>6 DEF Busy
<1>11. Turns'
  BY <1>1, <1>2, <1>5, <1>6, <1>10 DEF Turns, Inner
<1>12. Enabling' /\ Pins'
  BY <1>2, <1>5, <1>6, MuxSame
<1>13. Selected'
  BY <1>2, <1>5, <1>6 DEF Selected, PinsValue, PinsOf, Inner
<1>14. Sampled'
  BY <1>2, <1>6, SampledSame
<1>15. Served'
  <2>1. ASSUME NEW i \in 1 .. requestIndex, NEW k \in 1 .. Words(reqs[i])
        PROVE  WordsOf(reqs, i - 1) + k - 1 \in 0 .. DataSize - 1
    BY <2>1, <1>2, WordPlace DEF Served, SamplerTypes
  <2>2. \A word, q, k : IsWanted(word, q, k)' <=> IsWanted(word, q, k)
    BY <1>6, WantedSame
  <2>3. \A i \in 1 .. requestIndex : \A k \in 1 .. Words(reqs[i]) :
          data'[buffer][WordsOf(reqs, i - 1) + k - 1] = data[buffer][WordsOf(reqs, i - 1) + k - 1]
    BY <1>8, <2>1
  <2>4. ASSUME NEW i \in 1 .. requestIndex, NEW k \in 1 .. Words(reqs[i]),
               ~ IsWanted(data'[buffer][WordsOf(reqs, i - 1) + k - 1], reqs[i], k)
        PROVE  data'[buffer][WordsOf(reqs, i - 1) + k - 1] = ErrorWord /\ readErrors
    <3>1. ~ IsWanted(data[buffer][WordsOf(reqs, i - 1) + k - 1], reqs[i], k)
      BY <2>3, <2>4
    <3>2. data[buffer][WordsOf(reqs, i - 1) + k - 1] = ErrorWord /\ readErrors
      BY <1>2, <3>1 DEF Served
    <3> QED
      BY <2>3, <3>2
  <2>5. dataIndex' = WordsOf(reqs', requestIndex') /\ dataIndex' <= DataSize
    BY <1>2, <1>6 DEF Served
  <2> QED
    BY <1>6, <2>2, <2>4, <2>5 DEF Served
<1> QED
  BY <1>9, <1>11, <1>12, <1>13, <1>14, <1>15 DEF SamplerInv

\* A read that is accepted starts with no word.
LEMMA AcceptReadKeeps == ASSUME SamplerInv, AcceptRead PROVE SamplerInv'
<1>1. /\ At(Main, "asked") /\ asked.list # <<>> /\ ~ wasBusy
      /\ data' = Prepopulated(data)
      /\ reqs' = asked.list /\ buffer' = asked.buf
      /\ requestIndex' = 0 /\ dataIndex' = 0
      /\ Goto(Main, "request")
      /\ UNCHANGED <<primask, wasBusy, asked, curRequest, readErrors, muxVars, adcVars>>
  BY DEF AcceptRead
<1>2. SamplerTypes /\ Turns /\ Enabling /\ Pins /\ Selected /\ Sampled /\ Served
  BY DEF SamplerInv
<1>3. pc[Main] = "asked" /\ pc[1] = "idle"
  BY <1>1, TwoContexts DEF At, Executes, Main, Contexts
<1>4. /\ "idle" \notin Inner /\ "asked" \notin Inner /\ "request" \in Inner
      /\ "request" \notin {"delay", "make", "convert", "dataout", "datamask", "restore", "written"}
      /\ "request" \notin Addressing /\ "request" \notin Selecting
  BY DEF Inner, Selecting, Addressing
<1>5. DOMAIN pc' = Contexts /\ pc'[Main] = "request" /\ pc'[1] = "idle"
  BY <1>1, <1>2, <1>3, TwoContexts DEF Goto, SamplerTypes
<1>6. /\ Where' = "request" /\ ~ Working(1)' /\ Where \notin Inner
  BY <1>3, <1>4, <1>5 DEF Where, Worker, Working
<1>7. ~ Busy /\ adc = NoRequest /\ ~ irq
  BY <1>1, <1>2, <1>3 DEF Turns
<1>8. /\ sysclk' = sysclk /\ adc' = adc /\ fifo' = fifo /\ irq' = irq
      /\ port' = port /\ datamask' = datamask /\ high' = high /\ lastPins' = lastPins
      /\ lastMux' = lastMux /\ enabled' = enabled /\ fading' = fading
      /\ otherHigh' = otherHigh
  BY <1>1 DEF muxVars, adcVars
<1>9. DOMAIN data' = Buffers /\ \A b \in Buffers : DOMAIN data'[b] = 0 .. DataSize - 1
  <2>1. DOMAIN data = Buffers /\ \A b \in Buffers : DOMAIN data[b] = 0 .. DataSize - 1
    BY <1>2 DEF SamplerTypes
  <2> QED
    BY <1>1, <2>1 DEF Prepopulated
<1>10. asked.list \in RequestLists /\ Len(asked.list) \in Nat /\ Len(asked.list) # 0
  BY <1>1, <1>2, ListNotEmpty DEF SamplerTypes
<1>11. SamplerTypes'
  BY <1>1, <1>2, <1>4, <1>5, <1>8, <1>9, <1>10 DEF SamplerTypes
<1>12. Busy'
  BY <1>1, <1>10 DEF Busy
<1>13. Turns'
  BY <1>1, <1>4, <1>5, <1>6, <1>7, <1>8, <1>12 DEF Turns
<1>14. Where \notin {"delay", "make", "restore", "written", "datamask", "dataout"} \cup Addressing
  BY <1>6 DEF Inner, Selecting, Addressing
<1>15. Enabling'
  BY <1>2, <1>4, <1>6, <1>8, <1>14, SufficesSame DEF Enabling
<1>16. ASSUME NEW p \in Ports PROVE PortTrue(p)'
  <2>1. PortTrue(p)
    BY <1>2 DEF Pins
  <2> QED
    BY <1>4, <1>6, <1>8, <1>14, <2>1 DEF PortTrue, PinsOf
<1>17. Pins'
  BY <1>4, <1>6, <1>16 DEF Pins
<1>18. Selected' /\ Sampled'
  BY <1>4, <1>6, <1>7, <1>8 DEF Selected, Sampled
<1>19. Served'
  <2>1. WordsOf(reqs', 0) = 0
    BY NoWords
  <2>2. 1 .. 0 = {} /\ 0 <= DataSize
    BY AdcAssumption
  <2> QED
    BY <1>1, <2>1, <2>2 DEF Served
<1> QED
  BY <1>11, <1>13, <1>15, <1>17, <1>18, <1>19 DEF SamplerInv

-----------------------------------------------------------------------------
\* The words a request is served with are what it asked for, or errors.
LEMMA WordsReadTrue ==
  ASSUME SamplerInv, irq,
         NEW k \in 1 .. Words(curRequest)
  PROVE  ~ IsWanted(WordsRead[k], curRequest, k) =>
           WordsRead[k] = ErrorWord /\ WordsRead[1] = ErrorWord
<1> DEFINE r == curRequest
           here(j) == IF r.sweep THEN r.chan + j - 1 ELSE r.chan
           ok == Len(fifo) = r.cnt + 1
<1>1. r = reqs[requestIndex + 1] /\ Busy
  BY DEF SamplerInv, Turns
<1>2. r.cnt \in Nat /\ r.chan \in Nat /\ r.sweep \in BOOLEAN
  BY <1>1, RequestType
<1>3. PICK n \in {r.cnt, r.cnt + 1}, s \in Settlings(r) :
        fifo = [j \in 1 .. n |-> Wanted(r, here(j), s)]
  BY DEF SamplerInv, Sampled
<1>4. Words(r) \in Nat \ {0} /\ 1 \in 1 .. Words(r)
  BY <1>2 DEF Words
<1>5. CASE ~ ok
  <2>1. \A j \in 1 .. Words(r) : WordsRead[j] = ErrorWord
    BY <1>5 DEF WordsRead
  <2> QED
    BY <1>4, <2>1
<1>6. CASE ok
  <2> SUFFICES WordsRead[k] = WantedWords(r, s)[k]
    BY DEF IsWanted
  <2>1. Len(fifo) = n
    BY <1>2, <1>3
  <2>2. n = r.cnt + 1
    BY <1>6, <2>1
  <2>3. CASE r.sweep /\ r.cnt # 0
    <3>1. Words(r) = r.cnt + 1 /\ Words(r) > 1
      BY <1>2, <2>3 DEF Words
    <3>2. WordsRead[k] = <<fifo[k]>>
      BY <1>2, <1>6, <3>1 DEF WordsRead
    <3>3. fifo[k] = Wanted(r, r.chan + k - 1, s)
      BY <1>3, <2>2, <2>3, <3>1
    <3>4. WantedWords(r, s)[k] = <<Wanted(r, r.chan + k - 1, s)>>
      BY <2>3, <3>1 DEF WantedWords
    <3> QED
      BY <3>2, <3>3, <3>4
  <2>4. CASE ~ (r.sweep /\ r.cnt # 0)
    <3>1. Words(r) = 1 /\ k = 1
      BY <1>2, <2>4 DEF Words
    <3>2. WordsRead[1] = fifo
      BY <1>6, <3>1 DEF WordsRead
    <3>3. CASE r.sweep
      <4>1. r.cnt = 0 /\ n = 1
        BY <1>2, <2>2, <2>4, <3>3
      <4>2. fifo = [j \in 1 .. 1 |-> Wanted(r, r.chan + j - 1, s)]
        BY <1>3, <3>3, <4>1
      <4>3. fifo = <<Wanted(r, r.chan, s)>>
        <5>1. r.chan + 1 - 1 = r.chan
          BY <1>2
        <5>2. fifo = <<Wanted(r, r.chan + 1 - 1, s)>>
          BY <4>2
        <5> QED
          BY <5>1, <5>2
      <4>4. WantedWords(r, s)[1] = <<Wanted(r, r.chan, s)>>
        <5>1. r.chan + 1 - 1 = r.chan /\ 1 \in 1 .. r.cnt + 1
          BY <1>2
        <5>2. WantedWords(r, s)[1] = <<Wanted(r, r.chan + 1 - 1, s)>>
          BY <3>3, <5>1 DEF WantedWords
        <5> QED
          BY <5>1, <5>2
      <4> QED
        BY <3>1, <3>2, <4>3, <4>4
    <3>4. CASE ~ r.sweep
      <4>1. fifo = [j \in 1 .. r.cnt + 1 |-> Wanted(r, r.chan, s)]
        BY <1>3, <2>2, <3>4
      <4>2. WantedWords(r, s)[1] = [j \in 1 .. r.cnt + 1 |-> Wanted(r, r.chan, s)]
        BY <3>4 DEF WantedWords
      <4> QED
        BY <3>1, <3>2, <4>1, <4>2
    <3> QED
      BY <3>3, <3>4
  <2> QED
    BY <2>3, <2>4
<1> QED
  BY <1>5, <1>6

\* Serving a request stores its words after those of the requests before it.
LEMMA AdcIrqKeeps == ASSUME SamplerInv, AdcIrq PROVE SamplerInv'
<1> DEFINE w == WordsRead
           n == Words(curRequest)
           next == IF requestIndex + 1 < Len(reqs) THEN "request" ELSE "idle"
<1>1. /\ At(1, "idle") /\ irq /\ irq' = FALSE
      /\ UNCHANGED <<primask, clientVars, muxVars, adc, sysclk>>
  BY DEF AdcIrq, MayStart
<1>2. SamplerTypes /\ Turns /\ Enabling /\ Pins /\ Selected /\ Sampled /\ Served
  BY DEF SamplerInv
<1>3. /\ Where \notin Inner /\ Busy /\ adc = NoRequest /\ adc' = NoRequest
      /\ curRequest = reqs[requestIndex + 1]
  BY <1>1, <1>2 DEF Turns
<1>4. /\ pc[1] = "idle" /\ ~ Working(1) /\ ~ Working(Main) /\ pc[Main] \notin Inner
      /\ "idle" \notin Inner /\ "asked" \notin Inner /\ Worker = Main
  <2>1. "idle" \notin Inner /\ "asked" \notin Inner
    BY DEF Inner, Selecting, Addressing
  <2> QED
    BY <1>1, <1>3, <2>1 DEF At, Where, Worker, Working
<1>5. /\ reqs \in RequestLists /\ requestIndex \in 0 .. Len(reqs) - 1
      /\ requestIndex + 1 \in 1 .. Len(reqs) /\ Len(reqs) \in Nat
      /\ curRequest.cnt \in Nat
  BY <1>3, RequestType, AdcAssumption
<1>6. n \in Nat \ {0} /\ 1 \in 1 .. n
  BY <1>3, <1>5, WordsType
<1>7. Len(w) = n
  BY <1>6 DEF WordsRead
<1>8. /\ accepted' = accepted /\ asked' = asked /\ wasBusy' = wasBusy
      /\ port' = port /\ datamask' = datamask /\ high' = high /\ lastPins' = lastPins
      /\ lastMux' = lastMux /\ enabled' = enabled /\ fading' = fading
      /\ otherHigh' = otherHigh /\ primask' = primask /\ sysclk' = sysclk
  BY <1>1 DEF clientVars, muxVars
<1>9. CASE dataIndex + Len(w) > DataSize
  <2>1. UNCHANGED <<readVars, data, pc>>
    BY <1>9 DEF AdcIrq
  <2>2. /\ Where' = Where /\ Worker' = Worker /\ Busy' = Busy
        /\ Working(1)' = Working(1) /\ Working(Main)' = Working(Main)
        /\ pc' = pc /\ reqs' = reqs /\ requestIndex' = requestIndex /\ buffer' = buffer
        /\ dataIndex' = dataIndex /\ curRequest' = curRequest /\ readErrors' = readErrors
        /\ data' = data
    BY <2>1 DEF Where, Worker, Working, Busy, readVars
  <2>3. SamplerTypes'
    BY <1>2, <1>8, <2>2 DEF SamplerTypes
  <2>4. Turns'
    BY <1>1, <1>2, <1>3, <1>8, <2>2 DEF Turns, Inner, Selecting
  <2>5. Enabling' /\ Pins'
    BY <1>2, <1>3, <1>8, <2>2, MuxSame
  <2>6. Selected' /\ Sampled'
    BY <1>1, <1>3, <2>2 DEF Selected, Sampled, Inner
  <2>7. Served'
    BY <1>2, <1>8, <2>2, ServedSame
  <2> QED
    BY <2>3, <2>4, <2>5, <2>6, <2>7 DEF SamplerInv
<1>10. CASE ~ (dataIndex + Len(w) > DataSize)
  <2>1. /\ data' = [data EXCEPT ![buffer] =
                  [i \in DOMAIN @ |-> IF i \in dataIndex .. dataIndex + Len(w) - 1
                                      THEN w[i - dataIndex + 1] ELSE @[i]]]
        /\ dataIndex' = dataIndex + Len(w)
        /\ readErrors' = (readErrors \/ w[1] = ErrorWord)
        /\ requestIndex' = requestIndex + 1
        /\ Goto(1, IF requestIndex' < Len(reqs) THEN "request" ELSE "idle")
        /\ UNCHANGED <<reqs, buffer, curRequest>>
    BY <1>10 DEF AdcIrq
  <2>2. Goto(1, next)
    BY <2>1
  <2>3. next \in {"request", "idle"}
    OBVIOUS
  <2>4. Busy' <=> next = "request"
    BY <2>1 DEF Busy
  <2> HIDE DEF w, n, next
  <2>5. DOMAIN pc' = Contexts /\ pc'[1] = next /\ pc'[Main] = pc[Main]
    BY <1>2, <2>2, TwoContexts DEF Goto, SamplerTypes
  <2>6. /\ "request" \in Inner /\ "request" \notin Selecting /\ "request" \notin Addressing
        /\ "request" \notin {"delay", "make", "convert", "dataout", "datamask", "restore", "written"}
    BY DEF Inner, Selecting, Addressing
  <2>7. /\ ~ Working(Main)'
        /\ Where' \in Inner <=> next = "request"
        /\ next = "request" => Where' = "request"
    BY <1>4, <2>3, <2>5, <2>6 DEF Where, Worker, Working
  <2>8. /\ Where' \notin {"delay", "make", "convert", "dataout", "datamask", "restore", "written"}
        /\ Where' \notin Selecting /\ Where' \notin Addressing
        /\ Where' \notin Inner \ {"request"}
    BY <2>3, <2>6, <2>7 DEF Inner, Selecting, Addressing
  <2>9. /\ Where \notin {"delay", "make", "dataout", "datamask", "restore", "written"}
        /\ Where \notin Selecting /\ Where \notin Addressing
    BY <1>3 DEF Inner, Selecting, Addressing
  <2>10. DOMAIN data' = Buffers /\ \A b \in Buffers : DOMAIN data'[b] = 0 .. DataSize - 1
    BY <1>2, <2>1 DEF SamplerTypes
  <2>11. SamplerTypes'
    <3>1. requestIndex' \in 0 .. Len(reqs')
      BY <1>5, <2>1
    <3>2. pc'[1] \in {"idle"} \cup Inner /\ pc'[Main] \in {"idle", "asked"} \cup Inner
      BY <1>2, <2>3, <2>5, <2>6 DEF SamplerTypes
    <3> QED
      BY <1>2, <1>8, <2>1, <2>5, <2>10, <3>1, <3>2 DEF SamplerTypes
  <2>12. pc[Main] = "asked" => wasBusy
    BY <1>2, <1>3 DEF Turns
  <2>13. Turns'
    BY <1>1, <1>3, <1>8, <2>4, <2>5, <2>7, <2>8, <2>12 DEF Turns
  <2>14. Enabling'
    BY <1>2, <1>8, <2>8, <2>9, SufficesSame DEF Enabling
  <2>15. ASSUME NEW p \in Ports PROVE PortTrue(p)'
    <3>1. PortTrue(p)
      BY <1>2 DEF Pins
    <3> QED
      BY <1>8, <2>8, <2>9, <3>1 DEF PortTrue, PinsOf
  <2>16. Pins'
    BY <2>8, <2>15 DEF Pins
  <2>17. Selected' /\ Sampled'
    BY <1>1, <1>3, <2>8 DEF Selected, Sampled
  <2>18. /\ dataIndex = WordsOf(reqs, requestIndex) /\ dataIndex \in Nat
         /\ dataIndex' = dataIndex + n /\ dataIndex + n <= DataSize
    <3>1. dataIndex = WordsOf(reqs, requestIndex)
      BY <1>2 DEF Served
    <3>2. WordsOf(reqs, 0) = 0 /\ WordsOf(reqs, 0) <= WordsOf(reqs, requestIndex)
          /\ WordsOf(reqs, requestIndex) \in Int
      <4>1. 0 \in 0 .. Len(reqs) /\ requestIndex \in 0 .. Len(reqs)
        BY <1>5
      <4> QED
        BY <1>5, <4>1, NoWords, WordsOrdered, WordsOfType
    <3>3. DataSize \in Nat
      BY AdcAssumption
    <3> QED
      BY <1>6, <1>7, <1>10, <2>1, <3>1, <3>2, <3>3
  <2>19. WordsOf(reqs, requestIndex + 1) = dataIndex + n
    BY <1>3, <1>5, <2>18, NextWords DEF n
  <2>20. ASSUME NEW i \in 0 .. DataSize - 1
         PROVE  data'[buffer][i] = IF i \in dataIndex .. dataIndex + n - 1
                                   THEN w[i - dataIndex + 1] ELSE data[buffer][i]
    BY <1>2, <1>7, <2>1 DEF SamplerTypes
  <2>21. \A word, q, k : IsWanted(word, q, k)' <=> IsWanted(word, q, k)
    BY <1>8, WantedSame
  <2>22. ASSUME NEW i \in 1 .. requestIndex + 1, NEW k \in 1 .. Words(reqs[i]),
                ~ IsWanted(data'[buffer][WordsOf(reqs, i - 1) + k - 1], reqs[i], k)
         PROVE  data'[buffer][WordsOf(reqs, i - 1) + k - 1] = ErrorWord /\ readErrors'
    <3>1. CASE i = requestIndex + 1
      <4>1. reqs[i] = curRequest /\ WordsOf(reqs, i - 1) = dataIndex /\ k \in 1 .. n
        <5>1. i - 1 = requestIndex
          BY <1>5, <3>1
        <5> QED
          BY <1>3, <2>18, <3>1, <5>1 DEF n
      <4>2. /\ dataIndex + k - 1 \in dataIndex .. dataIndex + n - 1
            /\ dataIndex + k - 1 \in 0 .. DataSize - 1
            /\ (dataIndex + k - 1) - dataIndex + 1 = k
        BY <1>6, <2>18, <4>1, AdcAssumption
      <4>3. data'[buffer][dataIndex + k - 1] = w[k]
        BY <2>20, <4>2
      <4>4. ~ IsWanted(w[k], curRequest, k)
        BY <2>22, <4>1, <4>3
      <4>5. w[k] = ErrorWord /\ w[1] = ErrorWord
        BY <1>1, <4>1, <4>4, WordsReadTrue DEF w, n
      <4> QED
        BY <2>1, <4>1, <4>3, <4>5
    <3>2. CASE i # requestIndex + 1
      <4>1. i \in 1 .. requestIndex
        BY <1>5, <3>2
      <4> DEFINE place == WordsOf(reqs, i - 1) + k - 1
      <4>2. /\ WordsOf(reqs, i - 1) \in Int /\ place \in 0 .. DataSize - 1
            /\ WordsOf(reqs, i - 1) + k <= dataIndex
        BY <1>2, <4>1, WordPlace
      <4>3. ~ (place \in dataIndex .. dataIndex + n - 1)
        BY <1>6, <2>18, <4>2
      <4> HIDE DEF place
      <4>4. data'[buffer][place] = data[buffer][place]
        BY <2>20, <4>2, <4>3
      <4>5. ~ IsWanted(data[buffer][place], reqs[i], k)
        BY <2>22, <4>4 DEF place
      <4>6. data[buffer][place] = ErrorWord /\ readErrors
        BY <1>2, <4>1, <4>5 DEF Served, place
      <4> QED
        BY <2>1, <4>4, <4>6 DEF place
    <3> QED
      BY <3>1, <3>2
  <2>23. Served'
    <3>1. reqs' = reqs /\ buffer' = buffer /\ requestIndex' = requestIndex + 1
      BY <2>1
    <3>2. dataIndex' = WordsOf(reqs', requestIndex') /\ dataIndex' <= DataSize
      BY <2>18, <2>19, <3>1
    <3> QED
      BY <2>21, <2>22, <3>1, <3>2 DEF Served
  <2> QED
    BY <2>11, <2>13, <2>14, <2>16, <2>17, <2>23 DEF SamplerInv
<1> QED
  BY <1>9, <1>10

-----------------------------------------------------------------------------
LEMMA SamplerInitial == SamplerAloneInit => SamplerInv
<1> SUFFICES ASSUME CpuInit, SamplerInit PROVE SamplerInv
  BY DEF SamplerAloneInit
<1>1. /\ pc = [c \in Contexts |-> "idle"] /\ pc[Main] = "idle" /\ pc[1] = "idle"
  BY TwoContexts DEF CpuInit
<1>2. /\ reqs = <<>> /\ buffer \in Buffers /\ requestIndex = 0 /\ dataIndex = 0
      /\ curRequest = NoRequest /\ lastMux = NoRequest
      /\ asked = [list |-> <<>>, buf |-> buffer]
      /\ enabled = {} /\ fading = {}
      /\ otherHigh = FALSE /\ adc = NoRequest /\ irq = FALSE
  BY DEF SamplerInit
<1>3. /\ port = [c \in Contexts |-> 0]
      /\ datamask = [p \in Ports |-> {}] /\ high = [p \in Ports |-> {}]
      /\ lastPins = [p \in Ports |-> {}]
      /\ data = [b \in Buffers |-> [i \in 0 .. DataSize - 1 |-> OldWord]]
  BY DEF SamplerInit
<1>4. /\ "idle" \notin Inner /\ "idle" \notin Selecting /\ "idle" \notin Addressing
      /\ "idle" \notin {"delay", "make", "convert", "dataout", "datamask", "restore", "written"}
  BY DEF Inner, Selecting, Addressing
<1>5. Where = "idle" /\ ~ Working(Main) /\ ~ Working(1)
  BY <1>1, <1>4 DEF Where, Worker, Working
<1>6. Len(<<>>) = 0 /\ 0 \in 0 .. 0
  OBVIOUS
<1>7. SamplerTypes
  <2>1. port[Main] \in Ports /\ port[1] \in Ports
    BY <1>3, TwoContexts
  <2>2. requestIndex \in 0 .. Len(reqs)
    BY <1>2, <1>6
  <2> QED
    BY <1>1, <1>2, <1>3, <2>1, <2>2 DEF SamplerTypes
<1>8. Turns
  BY <1>1, <1>2, <1>4, <1>5 DEF Turns
<1>9. Enabling
  BY <1>2, <1>4, <1>5 DEF Enabling, NoRequest
<1>10. \A p \in Ports : PortTrue(p)
  BY <1>2, <1>3, <1>4, <1>5 DEF PortTrue
<1>11. Pins
  BY <1>4, <1>5, <1>10 DEF Pins
<1>12. Selected /\ Sampled
  BY <1>2, <1>4, <1>5 DEF Selected, Sampled
<1>13. Served
  <2>1. WordsOf(reqs, 0) = 0 /\ 1 .. 0 = {} /\ 0 <= DataSize
    BY NoWords, AdcAssumption
  <2> QED
    BY <1>2, <2>1 DEF Served
<1> QED
  BY <1>7, <1>8, <1>9, <1>11, <1>12, <1>13 DEF SamplerInv

LEMMA SamplerStutter ==
  ASSUME SamplerInv, UNCHANGED <<cpuVars, samplerVars>>
  PROVE  SamplerInv'
<1>1. UNCHANGED <<pc, primask, clientVars, readVars, muxVars, adcVars, data>>
  BY DEF cpuVars, samplerVars
<1>2. /\ wasBusy' = wasBusy /\ asked' = asked /\ accepted' = accepted
      /\ reqs' = reqs /\ requestIndex' = requestIndex /\ buffer' = buffer
      /\ dataIndex' = dataIndex /\ curRequest' = curRequest /\ readErrors' = readErrors
      /\ sysclk' = sysclk /\ adc' = adc /\ fifo' = fifo /\ irq' = irq /\ data' = data /\ pc' = pc
      /\ port' = port /\ datamask' = datamask /\ high' = high /\ lastPins' = lastPins
      /\ lastMux' = lastMux /\ enabled' = enabled /\ fading' = fading
      /\ otherHigh' = otherHigh /\ primask' = primask
  BY <1>1 DEF clientVars, readVars, muxVars, adcVars
<1>3. SamplerTypes /\ Turns /\ Enabling /\ Pins /\ Selected /\ Sampled /\ Served
  BY DEF SamplerInv
<1>4. SamplerTypes'
  BY <1>2, <1>3 DEF SamplerTypes
<1>5. Turns'
  BY <1>2, <1>3 DEF Turns, Working, Where, Worker, Busy
<1>6. Enabling' /\ Selected'
  BY <1>2, <1>3, SufficesSame DEF Enabling, Selected, Where, Worker, Working, PinsValue, PinsOf
<1>7. Pins'
  BY <1>2, <1>3 DEF Pins, PortTrue, Where, Worker, Working, PinsValue, PinsOf
<1>8. Sampled'
  BY <1>2, <1>3, SampledSame
<1>9. Served'
  BY <1>2, <1>3, ServedSame
<1> QED
  BY <1>4, <1>5, <1>6, <1>7, <1>8, <1>9 DEF SamplerInv

LEMMA SamplerStep ==
  SamplerInv /\ [SamplerNext]_<<cpuVars, samplerVars>> => SamplerInv'
<1> SUFFICES ASSUME SamplerInv, [SamplerNext]_<<cpuVars, samplerVars>> PROVE SamplerInv'
  OBVIOUS
<1>1. ASSUME NEW list \in RequestLists \cup {<<>>}, NEW b \in Buffers, StartRead(list, b)
      PROVE  SamplerInv'
  BY <1>1, StartReadKeeps
<1>2. CASE RejectRead \/ AcceptRead
  BY <1>2, RejectReadKeeps, AcceptReadKeeps
<1>3. ASSUME NEW c \in {Main, 1},
             \/ NextRequest(c) \/ Release(c) \/ Delay(c) \/ Make(c) \/ Address(c)
             \/ WriteDatamask(c) \/ WriteDataout(c) \/ SelectPins(c) \/ PinsWritten(c)
             \/ Convert(c)
      PROVE  SamplerInv'
  BY <1>3, NextRequestKeeps, ReleaseKeeps, DelayKeeps, MakeKeeps, AddressKeeps,
     WriteDatamaskKeeps, WriteDataoutKeeps, SelectPinsKeeps, PinsWrittenKeeps, ConvertKeeps
<1>4. CASE Fade \/ Samples \/ AdcIrq \/ OtherHandler
  BY <1>4, FadeKeeps, SamplesKeeps, AdcIrqKeeps, OtherHandlerKeeps
<1>5. CASE UNCHANGED <<cpuVars, samplerVars>>
  BY <1>5, SamplerStutter
<1> QED
  BY <1>1, <1>2, <1>3, <1>4, <1>5 DEF SamplerNext

\* The invariant holds of the client, the handler, the converter and the other
\* handler, in whatever order they step.
THEOREM SamplerInvariance == SamplerSpec => []SamplerInv
BY SamplerInitial, SamplerStep, PTL DEF SamplerSpec

\* Whatever the lists, the pins, the clock and the order of client, handler, converter
\* and the other handler, one multiplexer at most is switched on, no other pin is
\* disturbed, and a read ends with its own samples of its own inputs; if the delay that
\* configure computed suffices, the one before has let go each time
\* (AdcSampler.cpp:135-137, :175-379).
THEOREM SamplesAreTrue == SamplerSpec => []SamplesTrue
<1>1. SamplerInv => OneInput
  <2> SUFFICES ASSUME SamplerInv PROVE OneInput
    OBVIOUS
  <2>1. Enabling /\ Pins
    BY DEF SamplerInv
  <2>2. \E e : enabled \subseteq {e} /\ (DelaySuffices => fading \subseteq {e} \ enabled)
    <3>1. CASE Where \in Addressing
      <4>1. enabled \subseteq {curRequest.en} /\ (DelaySuffices => fading = {})
        BY <2>1, <3>1 DEF Enabling, Addressing
      <4> QED BY <4>1
    <3>2. CASE Where \notin Addressing
      <4>1. enabled = {} \/ enabled = {lastMux.en} \ {NoPin}
        BY <2>1, <3>2 DEF Enabling
      <4>2. Where = "delay" => enabled = {}
        BY <2>1 DEF Enabling
      <4>3. DelaySuffices => fading \subseteq IF Where = "delay" THEN {lastMux.en} ELSE {}
        BY <2>1 DEF Enabling
      <4>4. /\ enabled \subseteq {lastMux.en}
            /\ DelaySuffices => fading \subseteq {lastMux.en} \ enabled
        BY <4>1, <4>2, <4>3
      <4> QED BY <4>4
    <3> QED
      BY <3>1, <3>2
  <2>3. PICK e : enabled \subseteq {e} /\ (DelaySuffices => fading \subseteq {e} \ enabled)
    BY <2>2
  <2>4. /\ enabled = {} \/ enabled = {e}
        /\ DelaySuffices => enabled \cup fading = {} \/ enabled \cup fading = {e}
    BY <2>3
  <2>5. Cardinality(enabled) \in {0, 1} /\ (DelaySuffices => BreakBeforeMake)
    <3>1. \A S : S = {} \/ S = {e} => Cardinality(S) \in {0, 1}
      BY FS_EmptySet, FS_Singleton
    <3>2. \A n \in {0, 1} : n <= 1
      OBVIOUS
    <3>3. Cardinality(enabled) \in {0, 1}
      BY <2>4, <3>1
    <3>4. DelaySuffices => Cardinality(enabled \cup fading) \in {0, 1}
      BY <2>4, <3>1
    <3> QED
      BY <3>2, <3>3, <3>4 DEF BreakBeforeMake
  <2>6. OtherPin \in high[PortOf[OtherPin]] <=> otherHigh
    BY <2>1, AdcAssumption DEF Pins, PortTrue
  <2>7. otherHigh \in BOOLEAN
    BY DEF SamplerInv, SamplerTypes
  <2>8. (OtherPin \in high[PortOf[OtherPin]]) = otherHigh
    BY <2>6, <2>7, Zenon
  <2> QED
    BY <2>5, <2>8 DEF OneInput
<1>2. SamplerInv => ResultsBelong
  <2> SUFFICES ASSUME SamplerInv, ~ Busy PROVE
         /\ dataIndex = WordsOf(reqs, Len(reqs))
         /\ \A i \in DOMAIN reqs, k \in 1 .. 2 :
              k <= Words(reqs[i]) =>
                LET word == data[buffer][WordsOf(reqs, i - 1) + k - 1]
                IN  ~ IsWanted(word, reqs[i], k) => word = ErrorWord /\ readErrors
    BY DEF ResultsBelong
  <2>1. SamplerTypes /\ Served
    BY DEF SamplerInv
  <2>2. DOMAIN reqs = 1 .. Len(reqs) /\ Len(reqs) \in Nat
    BY <2>1, AdcAssumption DEF SamplerTypes
  <2>3. requestIndex = Len(reqs)
    <3>1. requestIndex \in 0 .. Len(reqs)
      BY <2>1 DEF SamplerTypes
    <3>2. ~ (requestIndex < Len(reqs))
      BY DEF Busy
    <3>3. \A n \in Nat : \A i \in 0 .. n : ~ (i < n) => i = n
      OBVIOUS
    <3> QED
      BY <2>2, <3>1, <3>2, <3>3, Zenon
  <2>4. dataIndex = WordsOf(reqs, Len(reqs))
    BY <2>1, <2>3 DEF Served
  <2>5. ASSUME NEW i \in DOMAIN reqs, NEW k \in 1 .. 2, k <= Words(reqs[i]),
               ~ IsWanted(data[buffer][WordsOf(reqs, i - 1) + k - 1], reqs[i], k)
        PROVE  data[buffer][WordsOf(reqs, i - 1) + k - 1] = ErrorWord /\ readErrors
    <3>1. i \in 1 .. requestIndex
      BY <2>2, <2>3
    <3>2. reqs \in RequestLists
      <4>1. Len(<<>>) = 0
        OBVIOUS
      <4> QED
        BY <2>1, <2>2, <4>1 DEF SamplerTypes
    <3>3. Words(reqs[i]) \in Nat
      BY <2>2, <3>2, WordsType
    <3>4. k \in 1 .. Words(reqs[i])
      BY <2>5, <3>3
    <3> QED
      BY <2>1, <2>5, <3>1, <3>4 DEF Served
  <2> QED
    BY <2>4, <2>5
<1> QED
  BY <1>1, <1>2, SamplerInvariance, PTL DEF SamplesTrue
================================================================================
