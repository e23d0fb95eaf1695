----------------------------- MODULE Schedule_proofs ---------------------------
(***************************************************************************)
(* Proofs about Schedule, and so about the Metronome under the MainLoop    *)
(* that it drives: any number of clients at any times, any durations, any  *)
(* width of the RTI's index and any number of missed RTIs.                 *)
(***************************************************************************)
EXTENDS Schedule, TLAPS

ProxyIsr == MainIsr + 1
Handlers == {MainIsr, ProxyIsr}

TimeLabels == {"save", "mask", "readCnt", "check", "readAgain", "restore"}
MainLabels == {"idle", "count", "test", "exchange", "cycle"} \cup TimeLabels
BatchLabels == {"read", "batch", "clear"}
IsrLabels == BatchLabels \cup {"idle", "disable", "advance", "top", "start", "enable"}

\* What RST may hold.
Rsts == {RstOf(d) : d \in Durations}

Times == [on : BOOLEAN, cnt : Nat, rst : Nat, pwma : Nat]
Batches == [until : Nat, index : 1 .. NumClients + 1, then : {"idle", "top", "enable"}]

ScheduleTypes ==
  /\ primask \in {0, 1} /\ saved \in [Contexts -> {0, 1}]
  /\ timer \in Times
  /\ pending \subseteq {"main", "proxy"} /\ enabled \subseteq {"main", "proxy"}
  /\ proxyIsr \in Handlers
  /\ index \in 1 .. NumClients + 1
  /\ thresholds \in [Clients -> Nat]
  /\ offsetBase \in Nat /\ rtiIndex \in Nat /\ previous \in Nat
  /\ batch \in [Contexts -> Batches]
  /\ rstValue \in Nat /\ cntValue \in Nat
  /\ failed \in {"none", "pending", "offset"}
  /\ loaded \in [now : Nat, before : Nat]
  /\ fired \in [Clients -> {0, 1}]
  /\ readyToRun \in Nat

Then(c) == batch[c].then

\* Where the contexts are: the proxy's handler is above the main timer's, or runs
\* in its place, and finds it at rest or about to disable the proxy.
Labels ==
  /\ pc \in [Contexts -> MainLabels \cup IsrLabels]
  /\ pc[Main] \in MainLabels /\ pc[MainIsr] \in IsrLabels
  /\ pc[ProxyIsr] \in BatchLabels \cup {"idle"}
  /\ \A c \in Contexts : c > ProxyIsr => pc[c] = "idle"
  /\ pc[ProxyIsr] # "idle" =>
       /\ pc[MainIsr] \in {"idle", "disable"}
       /\ Then(ProxyIsr) = "idle" /\ proxyIsr = ProxyIsr
  /\ pc[MainIsr] \in {"disable", "advance", "top", "start"} => Then(MainIsr) = "top"
  /\ pc[MainIsr] = "enable" => Then(MainIsr) = "enable"
  /\ pc[MainIsr] \in {"read", "clear"} => Then(MainIsr) # "top"
  /\ pc[MainIsr] \in BatchLabels /\ Then(MainIsr) = "idle" => proxyIsr = MainIsr

\* getRtiTime reads with interrupts masked, and nothing else masks them.
Masked ==
  /\ primask = 1 <=> pc[Main] \in {"readCnt", "check", "readAgain", "restore"}
  /\ primask = 1 => Settled
  /\ pc[Main] \in TimeLabels \ {"save"} => saved[Main] = 0

\* The main timer's handler is ending the RTI before.
Ending == pc[MainIsr] # "idle" /\ Then(MainIsr) = "top"

\* The timer has begun an RTI that the component does not know of.
Due == "main" \in pending \/ pc[MainIsr] \in {"disable", "advance"}

\* The main timer and its interrupt. Before the first reload nothing is due, and
\* the main loop waits.
Clock ==
  /\ ~ timer.on => /\ pc[Main] = "idle" /\ Settled
                   /\ pending = {} /\ enabled = {}
                   /\ loaded.now = 0 /\ timer.cnt = 0
  /\ timer.on => pc[Main] # "idle" /\ "main" \in enabled /\ timer.rst \in Rsts
  /\ timer.on /\ timer.cnt = 0 => "main" \in pending
  /\ MainActive => "main" \notin pending /\ timer.cnt # 0
  /\ loaded.now = 0 \/ timer.cnt <= loaded.now
  /\ loaded.now = 0 =>
       /\ readyToRun = 0 /\ pc[Main] \in {"idle", "count", "test"} /\ Settled
       /\ index = NumClients + 1 /\ timer.cnt <= 1
       /\ timer.cnt = 1 => "main" \notin pending

\* The component's base is what the timer has reloaded; while an RTI is due it is
\* what the timer reloaded before, and RST is still what it reloaded now.
Bases ==
  /\ ~ Due \/ timer.cnt = 0 =>
       offsetBase = loaded.now /\ previous = (loaded.before + 1) \div CyclesPerMicro
  /\ Due /\ timer.cnt # 0 => offsetBase = loaded.before /\ timer.rst = loaded.now
  /\ Ending /\ pc[MainIsr] \notin {"disable", "advance"} =>
       rstValue = loaded.now /\ rstValue \in Rsts
  /\ pc[Main] = "check" /\ "main" \notin pending => cntValue <= offsetBase

\* The thresholds are those of the RTI, and the count only falls below what a
\* batch has read.
InTime ==
  /\ ~ RtiEnds /\ index <= NumClients =>
       \A i \in Clients :
         thresholds[i] = loaded.now - TriggerMicros[i] * CyclesPerMicro
  /\ \A c \in Handlers :
       pc[c] = "batch" /\ ~ RtiEnds => timer.cnt <= batch[c].until
  /\ pc[MainIsr] = "batch" /\ Then(MainIsr) = "top" => batch[MainIsr].until = 0

\* The clients before k have been called.
Served(k) == \A i \in Clients : fired[i] = IF i < k THEN 1 ELSE 0

Serving ==
  /\ \A c \in Handlers : pc[c] \in {"batch", "clear"} =>
       Served(batch[c].index) /\ index <= batch[c].index
  /\ (\A c \in Handlers : pc[c] \notin {"batch", "clear"}) => Served(index)
  /\ pc[MainIsr] = "top" => index = NumClients + 1
  /\ \A c \in Handlers : pc[c] = "clear" =>
       batch[c].index <= NumClients /\ timer.pwma = thresholds[batch[c].index] + 1

\* The proxy's interrupt is off while the main timer's handler is at work, and on
\* when a client waits for it.
Arming ==
  /\ "proxy" \in enabled => index <= NumClients
  /\ pc[MainIsr] \notin {"idle", "disable"} /\ Then(MainIsr) # "idle" =>
       "proxy" \notin enabled
  /\ pc[MainIsr] = "enable" /\ index <= NumClients =>
       timer.pwma = thresholds[index] + 1
  /\ \A c \in Handlers :
       pc[c] \in BatchLabels /\ Then(c) = "idle" => "proxy" \in enabled
  /\ Settled /\ index <= NumClients =>
       "proxy" \in enabled /\ timer.pwma = thresholds[index] + 1

\* An RTI is taken up only when the loop may still miss one, and a cycle that is
\* no longer in its RTI will find the next one begun.
Cycles ==
  /\ RtiEnds => readyToRun < MaxMissed
  /\ pc[Main] \in {"cycle"} \cup TimeLabels /\ ~ fatal =>
       \/ rtiIndex = cycleRti \/ readyToRun # 0
       \/ Ending /\ pc[MainIsr] \notin {"disable", "advance"}

ScheduleInv ==
  /\ ScheduleTypes /\ Labels /\ Masked /\ Clock /\ Bases /\ InTime
  /\ Serving /\ Arming /\ Cycles

-----------------------------------------------------------------------------
\* What the assumptions say of the constants.
LEMMA Constants ==
  /\ Irqs \in Nat /\ Contexts = 0 .. Irqs /\ Main = 0 /\ MainIsr = 1 /\ ProxyIsr = 2
  /\ Handlers = {1, 2} /\ Handlers \subseteq Contexts /\ 0 \in Contexts
  /\ NumClients \in Nat /\ Clients = 1 .. NumClients
  /\ CyclesPerMicro \in Nat /\ CyclesPerMicro >= 2
  /\ RtiIndices \in Nat \ {0}
  /\ Durations \subseteq Nat \ {0}
  /\ TriggerMicros \in Seq(Nat)
  /\ \A i \in Clients, d \in Durations : TriggerMicros[i] < d
  /\ MaxMissed \in Nat \ {0}
<1>1. Irqs \in Nat /\ Irqs >= 2
  BY IrqsAssumption, MetronomeAssumption
<1>2. NumClients \in Nat /\ Clients = 1 .. NumClients
  BY MetronomeAssumption DEF NumClients, Clients
<1> QED
  BY <1>1, <1>2, MetronomeAssumption, MainLoopAssumption
  DEF Contexts, Main, MainIsr, ProxyIsr, Handlers

\* A larger number of microseconds has more cycles.
LEMMA CyclesGrow ==
  ASSUME NEW m \in Nat, NEW d \in Nat, m < d
  PROVE  (m + 1) * CyclesPerMicro <= d * CyclesPerMicro
BY Constants

\* Every reset value leaves the timer something to count.
LEMMA RstPositive == \A r \in Rsts : r \in Nat /\ r >= 1
<1> SUFFICES ASSUME NEW d \in Durations PROVE RstOf(d) \in Nat /\ RstOf(d) >= 1
  BY DEF Rsts
<1>1. d \in Nat /\ 0 < d
  BY Constants
<1>2. (0 + 1) * CyclesPerMicro <= d * CyclesPerMicro
  BY <1>1, CyclesGrow
<1> DEFINE p == d * CyclesPerMicro
<1>3. p \in Nat
  BY <1>1, Constants
<1>4. CyclesPerMicro <= p
  BY <1>2, Constants
<1> HIDE DEF p
<1>5. RstOf(d) = p - 1
  BY DEF RstOf, p
<1> QED
  BY <1>3, <1>4, <1>5, Constants

\* Every client's time is reached before the end of every RTI.
LEMMA ThresholdsFit ==
  \A r \in Rsts, i \in Clients : r - TriggerMicros[i] * CyclesPerMicro \in Nat
<1> SUFFICES ASSUME NEW d \in Durations, NEW i \in Clients
             PROVE  RstOf(d) - TriggerMicros[i] * CyclesPerMicro \in Nat
  BY DEF Rsts
<1> DEFINE m == TriggerMicros[i]
           p == d * CyclesPerMicro
           q == m * CyclesPerMicro
<1>1. m \in Nat /\ d \in Nat /\ m < d
  BY Constants DEF Clients
<1>2. (m + 1) * CyclesPerMicro <= p
  BY <1>1, CyclesGrow
<1>3. p \in Nat /\ q \in Nat
  BY <1>1, Constants
<1>4. (m + 1) * CyclesPerMicro = q + CyclesPerMicro
  BY <1>1, Constants
<1>5. RstOf(d) = p - 1
  BY DEF RstOf
<1> HIDE DEF p, q, m
<1>6. RstOf(d) - q \in Nat
  BY <1>2, <1>3, <1>4, <1>5, Constants
<1> QED
  BY <1>6 DEF q, m

-----------------------------------------------------------------------------
(***************************************************************************)
(* The steps of the main loop. They run while the handlers are at rest and *)
(* leave the metronome alone.                                              *)
(***************************************************************************)
atRest == <<timer, pending, enabled, proxyIsr, index, thresholds, offsetBase, rtiIndex,
            previous, batch, rstValue, loaded, fired>>

\* The main loop runs only while the handlers are at rest.
LEMMA MainAlone ==
  ASSUME ScheduleInv, Executes(Main)
  PROVE  /\ Settled /\ pc[MainIsr] = "idle" /\ pc[ProxyIsr] = "idle" /\ ~ Ending
         /\ \A c \in Handlers : pc[c] = "idle"
BY Constants DEF Executes, Settled, Ending

\* Whatever a step of the main loop does to its own variables, those parts of the
\* invariant that are about the handlers and the timer remain.
LEMMA MainMoves ==
  ASSUME ScheduleInv, Executes(Main), timer.on,
         NEW l \in MainLabels \ {"idle"}, pc' = [pc EXCEPT ![Main] = l],
         UNCHANGED atRest,
         readyToRun' = readyToRun \/ loaded.now # 0,
         l \in {"count", "test"} \/ loaded.now # 0
  PROVE  /\ Labels' /\ Clock' /\ InTime' /\ Serving' /\ Arming'
         /\ Settled' /\ ~ Ending' /\ pc'[Main] = l
         /\ pc'[MainIsr] = "idle" /\ Due' = Due /\ RtiEnds' = RtiEnds
<1>1. /\ Settled /\ pc[MainIsr] = "idle" /\ pc[ProxyIsr] = "idle"
      /\ \A c \in Handlers : pc[c] = "idle"
  BY MainAlone
<1>2. pc'[Main] = l /\ \A c \in Contexts \ {Main} : pc'[c] = pc[c]
  BY Constants DEF ScheduleInv, Labels
<1>3. /\ Settled' /\ pc'[MainIsr] = "idle" /\ pc'[ProxyIsr] = "idle"
      /\ \A c \in Handlers : pc'[c] = "idle"
  BY <1>1, <1>2, Constants DEF Settled
<1>4. Labels'
  BY <1>2, <1>3, Constants DEF ScheduleInv, Labels, BatchLabels
<1>5. ~ Ending' /\ ~ MainActive' /\ ~ MainActive /\ ~ Ending
  BY <1>1, <1>3 DEF Ending, MainActive
<1>6. Due' = Due /\ RtiEnds' = RtiEnds
  BY <1>1, <1>3 DEF Due, RtiEnds, MainActive, atRest
<1>7. Clock'
  BY <1>1, <1>2, <1>3, <1>5, Constants DEF ScheduleInv, Clock, atRest
<1>8. InTime'
  BY <1>1, <1>3, <1>6, Constants DEF ScheduleInv, InTime, atRest
<1>9. Serving'
  BY <1>1, <1>3, Constants DEF ScheduleInv, Serving, Served, atRest
<1>10. Arming'
  BY <1>1, <1>3, Constants DEF ScheduleInv, Arming, BatchLabels, atRest
<1> QED
  BY <1>2, <1>3, <1>4, <1>5, <1>6, <1>7, <1>8, <1>9, <1>10

\* Outside idle the metronome is on.
LEMMA TimerIsOn ==
  ASSUME ScheduleInv, pc[Main] # "idle" \/ ~ Settled PROVE timer.on
BY DEF ScheduleInv, Clock, ScheduleTypes, Times

\* The steps of the loop itself. getCounts is not called here.
LEMMA LoopKeepsInv ==
  ASSUME ScheduleInv, Loop
  PROVE  ScheduleInv'
<1> USE Constants
<1>1. /\ LoopStep /\ failed = "none"
      /\ cycleRti' = IF TakeRti THEN rtiIndex ELSE cycleRti
      /\ UNCHANGED metronomeVars
  BY DEF Loop
<1>2. UNCHANGED atRest /\ cntValue' = cntValue /\ failed' = failed
  BY <1>1 DEF metronomeVars, atRest
<1>3. Executes(Main) /\ pc[Main] # "idle" /\ ~ fatal
  BY <1>1 DEF LoopStep, CountSpare, TestReady, TakeRti, GetFirstCounts, GetOtherCounts,
              EnsureRtiNotElapsed, Runs, At
<1>4. timer.on /\ Settled /\ ~ Ending /\ primask \in {0, 1}
  BY <1>3, TimerIsOn, MainAlone DEF ScheduleInv, ScheduleTypes
<1>5. pc[Main] \in MainLabels
  BY DEF ScheduleInv, Labels
<1>6. CASE CountSpare
  <2>1. /\ pc[Main] = "count" /\ pc' = [pc EXCEPT ![Main] = "test"]
        /\ UNCHANGED <<primask, saved, readyToRun, fatal>>
    BY <1>6 DEF CountSpare, Runs, At, Goto
  <2>2. /\ Labels' /\ Clock' /\ InTime' /\ Serving' /\ Arming' /\ Settled' /\ ~ Ending'
        /\ pc'[Main] = "test" /\ pc'[MainIsr] = "idle" /\ Due' = Due
        /\ RtiEnds' = RtiEnds
    BY <1>2, <1>3, <1>4, <2>1, MainMoves DEF MainLabels
  <2> QED
    BY <1>2, <1>4, <2>1, <2>2
    DEF ScheduleInv, ScheduleTypes, Masked, Bases, Cycles, TimeLabels, atRest
<1>7. CASE TestReady
  <2>1. PICK l \in {"count", "exchange"} :
          /\ pc[Main] = "test" /\ pc' = [pc EXCEPT ![Main] = l]
          /\ l = "exchange" => readyToRun # 0
          /\ UNCHANGED <<primask, saved, readyToRun, fatal>>
    BY <1>7 DEF TestReady, Runs, At, Goto, mainLoopVars
  <2>2. l = "count" \/ loaded.now # 0
    BY <2>1 DEF ScheduleInv, Clock
  <2>3. /\ Labels' /\ Clock' /\ InTime' /\ Serving' /\ Arming' /\ Settled' /\ ~ Ending'
        /\ pc'[Main] = l /\ pc'[MainIsr] = "idle" /\ Due' = Due
        /\ RtiEnds' = RtiEnds
    BY <1>2, <1>3, <1>4, <2>1, <2>2, MainMoves DEF MainLabels
  <2> QED
    BY <1>2, <1>4, <2>1, <2>3
    DEF ScheduleInv, ScheduleTypes, Masked, Bases, Cycles, TimeLabels, atRest
<1>8. CASE TakeRti
  <2>1. /\ pc[Main] = "exchange" /\ pc' = [pc EXCEPT ![Main] = "cycle"]
        /\ readyToRun' = 0 /\ cycleRti' = rtiIndex
        /\ UNCHANGED <<primask, saved>>
    BY <1>1, <1>8 DEF TakeRti, Runs, At, Goto
  <2>2. loaded.now # 0
    BY <2>1 DEF ScheduleInv, Clock
  <2>3. /\ Labels' /\ Clock' /\ InTime' /\ Serving' /\ Arming' /\ Settled' /\ ~ Ending'
        /\ pc'[Main] = "cycle" /\ pc'[MainIsr] = "idle" /\ Due' = Due
        /\ RtiEnds' = RtiEnds
    BY <1>2, <1>3, <1>4, <2>1, <2>2, MainMoves DEF MainLabels
  <2> QED
    BY <1>2, <1>4, <2>1, <2>3
    DEF ScheduleInv, ScheduleTypes, Masked, Bases, Cycles, TimeLabels, atRest
<1>9. CASE EnsureRtiNotElapsed
  <2>1. /\ pc[Main] = "cycle" /\ pc' = [pc EXCEPT ![Main] = "count"]
        /\ UNCHANGED <<primask, saved, readyToRun>>
    BY <1>9 DEF EnsureRtiNotElapsed, Runs, At, Goto
  <2>2. /\ Labels' /\ Clock' /\ InTime' /\ Serving' /\ Arming' /\ Settled' /\ ~ Ending'
        /\ pc'[Main] = "count" /\ pc'[MainIsr] = "idle" /\ Due' = Due
        /\ RtiEnds' = RtiEnds
    BY <1>2, <1>3, <1>4, <2>1, MainMoves DEF MainLabels
  <2> QED
    BY <1>2, <1>4, <2>1, <2>2
    DEF ScheduleInv, ScheduleTypes, Masked, Bases, Cycles, TimeLabels, atRest
<1>10. ~ GetFirstCounts /\ ~ GetOtherCounts
  BY <1>5 DEF GetFirstCounts, GetOtherCounts, Runs, At, MainLabels, TimeLabels
<1> QED
  BY <1>1, <1>6, <1>7, <1>8, <1>9, <1>10 DEF LoopStep

\* The component changes the timer's reset value, when no RTI is due.
LEMMA UpdateKeepsInv ==
  ASSUME ScheduleInv, UpdateDuration, ~ fatal, UNCHANGED <<mainLoopVars, cycleRti>>
  PROVE  ScheduleInv'
<1> USE Constants
<1>1. /\ Executes(Main) /\ pc[Main] = "cycle" /\ ~ Preempted(Main)
      /\ UNCHANGED <<cpuVars, pending, enabled, proxyIsr, index, thresholds, offsetBase,
                     rtiIndex, previous, batch, rstValue, cntValue, failed, loaded,
                     fired, readyToRun, fatal>>
  BY DEF UpdateDuration, Proceeds, At, mainLoopVars
<1>2. PICK r \in Rsts : timer' = [timer EXCEPT !.rst = r]
  BY DEF UpdateDuration, Rsts
<1>3. r \in Nat /\ timer.on /\ timer \in Times
  BY <1>1, RstPositive, TimerIsOn DEF ScheduleInv, ScheduleTypes
<1>4. /\ timer' \in Times /\ timer'.on = timer.on /\ timer'.cnt = timer.cnt
      /\ timer'.pwma = timer.pwma /\ timer'.rst = r
  BY <1>2, <1>3 DEF Times
<1>5. Settled /\ pc[MainIsr] = "idle" /\ ~ Ending
  BY <1>1, MainAlone
<1>6. "main" \notin pending
  <2>1. primask = 0 /\ "main" \in enabled
    BY <1>1, <1>3 DEF ScheduleInv, Masked, Clock, ScheduleTypes
  <2> QED
    BY <1>1, <2>1 DEF Preempted, ContextOf
<1>7. UNCHANGED <<pc, primask, saved>>
  BY <1>1 DEF cpuVars
<1>8. /\ Due' = Due /\ ~ Due /\ RtiEnds' = RtiEnds /\ Ending' = Ending
      /\ MainActive' = MainActive /\ Settled' = Settled
  BY <1>1, <1>5, <1>6, <1>7 DEF Due, RtiEnds, Ending, MainActive, Settled, Then
<1>9. ScheduleTypes'
  BY <1>1, <1>4, <1>7 DEF ScheduleInv, ScheduleTypes
<1>10. Labels' /\ Masked'
  BY <1>1, <1>7, <1>8 DEF ScheduleInv, Labels, Masked, Then
<1>11. Clock' /\ Bases'
  BY <1>1, <1>3, <1>4, <1>5, <1>6, <1>7, <1>8 DEF ScheduleInv, Clock, Bases
<1>12. InTime' /\ Serving'
  BY <1>1, <1>4, <1>7, <1>8 DEF ScheduleInv, InTime, Serving, Served, Then
<1>13. Arming' /\ Cycles'
  BY <1>1, <1>4, <1>7, <1>8 DEF ScheduleInv, Arming, Cycles, Then
<1> QED
  BY <1>9, <1>10, <1>11, <1>12, <1>13 DEF ScheduleInv

\* The steps of getRtiTime.
LEMMA TimeKeepsInv ==
  ASSUME ScheduleInv, TimeStep, ~ fatal, UNCHANGED <<mainLoopVars, cycleRti>>
  PROVE  ScheduleInv'
<1> USE Constants
<1>1. /\ UNCHANGED atRest /\ ~ Preempted(Main) /\ failed = "none"
      /\ UNCHANGED <<readyToRun, fatal, cycleRti>>
  BY DEF TimeStep, GetRtiTime, LockTime, ReadFirstCnt, CheckFirstCnt, ReadRtiTime,
         ReadsTime, atRest, Proceeds, mainLoopVars
<1>2. Executes(Main) /\ pc[Main] \in {"cycle"} \cup TimeLabels
  BY DEF TimeStep, GetRtiTime, LockTime, ReadFirstCnt, CheckFirstCnt, ReadRtiTime,
         SavePrimask, MaskInterrupts, RestoreInterrupts, Proceeds, At, TimeLabels
<1>3. /\ timer.on /\ Settled /\ ~ Ending /\ primask \in {0, 1} /\ loaded.now # 0
      /\ pc[MainIsr] = "idle"
  BY <1>2, TimerIsOn, MainAlone DEF ScheduleInv, ScheduleTypes, Clock, TimeLabels
<1> DEFINE Moved(l) ==
      /\ Labels' /\ Clock' /\ InTime' /\ Serving' /\ Arming' /\ Settled' /\ ~ Ending'
      /\ pc'[Main] = l /\ pc'[MainIsr] = "idle" /\ Due' = Due
      /\ RtiEnds' = RtiEnds
<1>4. ASSUME NEW l \in {"cycle"} \cup TimeLabels, pc' = [pc EXCEPT ![Main] = l]
      PROVE  Moved(l)
  <2>1. l \in MainLabels \ {"idle"}
    BY <1>4 DEF MainLabels, TimeLabels
  <2> QED
    BY <1>1, <1>2, <1>3, <1>4, <2>1, MainMoves
<1> HIDE DEF Moved
<1>5. CASE GetRtiTime
  <2>1. /\ pc[Main] = "cycle" /\ pc' = [pc EXCEPT ![Main] = "save"]
        /\ UNCHANGED <<primask, saved, cntValue, failed>>
    BY <1>5 DEF GetRtiTime, Proceeds, At, Goto
  <2>2. Moved("save")
    BY <1>4, <2>1 DEF TimeLabels
  <2> QED
    BY <1>1, <1>3, <2>1, <2>2
    DEF ScheduleInv, ScheduleTypes, Masked, Bases, Cycles, TimeLabels, atRest, Moved
<1>6. CASE LockTime /\ SavePrimask(Main)
  <2>1. /\ pc[Main] = "save" /\ pc' = [pc EXCEPT ![Main] = "mask"]
        /\ saved' = [saved EXCEPT ![Main] = primask]
        /\ UNCHANGED <<primask, cntValue, failed>>
    BY <1>6 DEF LockTime, SavePrimask, At, Goto
  <2>2. Moved("mask")
    BY <1>4, <2>1 DEF TimeLabels
  <2>3. primask = 0
    BY <2>1, <1>3 DEF ScheduleInv, Masked
  <2> QED
    BY <1>1, <1>3, <2>1, <2>2, <2>3
    DEF ScheduleInv, ScheduleTypes, Masked, Bases, Cycles, TimeLabels, atRest, Moved
<1>7. CASE LockTime /\ MaskInterrupts(Main, "readCnt")
  <2>1. /\ pc[Main] = "mask" /\ pc' = [pc EXCEPT ![Main] = "readCnt"]
        /\ primask' = 1
        /\ UNCHANGED <<saved, cntValue, failed>>
    BY <1>7 DEF LockTime, MaskInterrupts, At, Goto
  <2>2. Moved("readCnt")
    BY <1>4, <2>1 DEF TimeLabels
  <2> QED
    BY <1>1, <1>3, <2>1, <2>2
    DEF ScheduleInv, ScheduleTypes, Masked, Bases, Cycles, TimeLabels, atRest, Moved
<1>8. CASE LockTime /\ RestoreInterrupts(Main, "cycle")
  <2>1. /\ pc[Main] = "restore" /\ pc' = [pc EXCEPT ![Main] = "cycle"]
        /\ primask' = saved[Main]
        /\ UNCHANGED <<saved, cntValue, failed>>
    BY <1>8 DEF LockTime, RestoreInterrupts, At, Goto
  <2>2. Moved("cycle")
    BY <1>4, <2>1
  <2>3. saved[Main] = 0
    BY <2>1 DEF ScheduleInv, Masked, TimeLabels
  <2> QED
    BY <1>1, <1>3, <2>1, <2>2, <2>3
    DEF ScheduleInv, ScheduleTypes, Masked, Bases, Cycles, TimeLabels, atRest, Moved
<1>9. CASE ReadFirstCnt
  <2>1. /\ pc[Main] = "readCnt" /\ pc' = [pc EXCEPT ![Main] = "check"]
        /\ cntValue' = timer.cnt
        /\ UNCHANGED <<primask, saved, failed>>
    BY <1>9 DEF ReadFirstCnt, Proceeds, At, Goto
  <2>2. Moved("check")
    BY <1>4, <2>1 DEF TimeLabels
  <2>3. "main" \notin pending => timer.cnt <= offsetBase
    BY <1>3 DEF ScheduleInv, Clock, Bases, Due
  <2>4. timer.cnt \in Nat
    BY DEF ScheduleInv, ScheduleTypes, Times
  <2> QED
    BY <1>1, <1>3, <2>1, <2>2, <2>3, <2>4
    DEF ScheduleInv, ScheduleTypes, Masked, Bases, Cycles, TimeLabels, atRest, Moved
<1>10. CASE CheckFirstCnt
  <2>1. /\ pc[Main] = "check" /\ pc' = [pc EXCEPT ![Main] = "readAgain"]
        /\ cntValue' = 0
        /\ failed' = IF "main" \in pending THEN "pending"
                     ELSE IF cntValue > offsetBase THEN "count" ELSE "none"
        /\ UNCHANGED <<primask, saved>>
    BY <1>10 DEF CheckFirstCnt, Proceeds, At, Goto
  <2>2. Moved("readAgain")
    BY <1>4, <2>1 DEF TimeLabels
  <2>3. failed' \in {"none", "pending"}
    BY <2>1 DEF ScheduleInv, ScheduleTypes, Bases
  <2> QED
    BY <1>1, <1>3, <2>1, <2>2, <2>3
    DEF ScheduleInv, ScheduleTypes, Masked, Bases, Cycles, TimeLabels, atRest, Moved
<1>11. CASE ReadRtiTime
  <2>1. /\ pc[Main] = "readAgain" /\ pc' = [pc EXCEPT ![Main] = "restore"]
        /\ failed' \in {"none", "offset"}
        /\ UNCHANGED <<primask, saved, cntValue>>
    BY <1>11 DEF ReadRtiTime, Proceeds, At, Goto
  <2>2. Moved("restore")
    BY <1>4, <2>1 DEF TimeLabels
  <2> QED
    BY <1>1, <1>3, <2>1, <2>2
    DEF ScheduleInv, ScheduleTypes, Masked, Bases, Cycles, TimeLabels, atRest, Moved
<1> QED
  BY <1>5, <1>6, <1>7, <1>8, <1>9, <1>10, <1>11 DEF TimeStep, LockTime

\* The metronome is started as the loop begins.
LEMMA BootKeepsInv ==
  ASSUME ScheduleInv, Boot
  PROVE  ScheduleInv'
<1> USE Constants
<1>1. /\ Executes(Main) /\ pc[Main] = "idle" /\ pc' = [pc EXCEPT ![Main] = "count"]
      /\ ~ timer.on /\ pending' = {} /\ enabled' = {"main"}
      /\ UNCHANGED <<primask, saved, proxyIsr, index, thresholds, offsetBase, rtiIndex,
                     previous, batch, rstValue, cntValue, failed, loaded, fired,
                     readyToRun, fatal, cycleRti>>
  BY DEF Boot, ResetVector, StartMetronome, Runs, At, Goto
<1>2. PICK r \in Rsts : timer' = [on |-> TRUE, cnt |-> 1, rst |-> r, pwma |-> 0]
  BY DEF Boot, StartMetronome, Rsts
<1>3. r \in Nat
  BY RstPositive
<1>4. /\ timer' \in Times /\ timer'.on /\ timer'.cnt = 1 /\ timer'.rst = r
  BY <1>2, <1>3 DEF Times
<1>5. /\ Settled /\ pending = {} /\ enabled = {} /\ loaded.now = 0
      /\ index = NumClients + 1 /\ readyToRun = 0 /\ timer.cnt = 0
  BY <1>1 DEF ScheduleInv, Clock
<1>6. /\ pc'[Main] = "count"
      /\ \A c \in Contexts \ {Main} : pc'[c] = "idle" /\ pc[c] = "idle"
  BY <1>1, <1>5 DEF ScheduleInv, Labels, Settled
<1>7. /\ pc[MainIsr] = "idle" /\ pc'[MainIsr] = "idle" /\ pc[ProxyIsr] = "idle"
      /\ pc'[ProxyIsr] = "idle" /\ Settled'
      /\ \A c \in Handlers : pc[c] = "idle" /\ pc'[c] = "idle"
  BY <1>6 DEF Settled
<1>8. /\ ~ Due /\ ~ Due' /\ ~ RtiEnds /\ ~ RtiEnds' /\ ~ Ending /\ ~ Ending'
      /\ ~ MainActive'
  BY <1>1, <1>5, <1>7 DEF Due, RtiEnds, Ending, MainActive
<1>9. ScheduleTypes' /\ Labels'
  BY <1>1, <1>4, <1>6, <1>7
  DEF ScheduleInv, ScheduleTypes, Labels, MainLabels, BatchLabels, IsrLabels
<1>10. Masked' /\ Clock'
  BY <1>1, <1>4, <1>5, <1>6, <1>7, <1>8 DEF ScheduleInv, Masked, Clock, TimeLabels
<1>11. Bases' /\ InTime'
  BY <1>1, <1>4, <1>5, <1>6, <1>7, <1>8 DEF ScheduleInv, Bases, InTime
<1>12. Serving' /\ Arming' /\ Cycles'
  BY <1>1, <1>4, <1>5, <1>6, <1>7, <1>8
  DEF ScheduleInv, Serving, Served, Arming, Cycles, BatchLabels, TimeLabels
<1> QED
  BY <1>9, <1>10, <1>11, <1>12 DEF ScheduleInv

-----------------------------------------------------------------------------
(***************************************************************************)
(* The steps of the handlers, which leave the main loop where it is.       *)
(***************************************************************************)
loopAway == <<primask, saved, cntValue, proxyIsr, loaded, readyToRun, fatal, cycleRti>>

\* While a handler is active interrupts are enabled, the metronome is on and has
\* begun an RTI.
LEMMA HandlerAlone ==
  ASSUME ScheduleInv, NEW c \in Handlers, pc[c] # "idle"
  PROVE  /\ ~ Settled /\ timer.on /\ loaded.now # 0 /\ primask = 0
         /\ pc[Main] \notin {"readCnt", "check", "readAgain", "restore"}
         /\ "main" \in enabled /\ timer.rst \in Rsts /\ pc[Main] # "idle"
BY Constants
DEF ScheduleInv, ScheduleTypes, Clock, Masked, Settled, Times

\* Only one handler is in a batch.
LEMMA OneBatch ==
  ASSUME ScheduleInv, NEW c \in Handlers, pc[c] \in BatchLabels, NEW d \in Handlers,
         d # c
  PROVE  pc[d] \notin BatchLabels
BY Constants DEF ScheduleInv, Labels, BatchLabels

\* What becomes of the parts that speak of the main loop.
LEMMA LoopKept ==
  ASSUME ScheduleInv, NEW c \in Handlers, pc[c] # "idle", UNCHANGED loopAway,
         pc' \in [Contexts -> MainLabels \cup IsrLabels], pc'[Main] = pc[Main],
         RtiEnds' => RtiEnds,
         Ending => Ending' /\ (pc[MainIsr] \notin {"disable", "advance"} =>
                                 pc'[MainIsr] \notin {"disable", "advance"}),
         rtiIndex' = rtiIndex
  PROVE  Masked' /\ Cycles'
<1>1. /\ loaded.now # 0 /\ primask = 0
      /\ pc[Main] \notin {"readCnt", "check", "readAgain", "restore"}
  BY HandlerAlone
<1>2. Masked'
  BY <1>1 DEF ScheduleInv, Masked, loopAway
<1>3. Cycles'
  BY <1>1 DEF ScheduleInv, Cycles, loopAway
<1> QED
  BY <1>2, <1>3

\* What a handler writes into its own locals.
LEMMA BatchSet ==
  ASSUME batch \in [Contexts -> Batches], NEW c \in Contexts, NEW r \in Batches,
         batch' = [batch EXCEPT ![c] = r]
  PROVE  /\ batch' \in [Contexts -> Batches] /\ batch'[c] = r
         /\ \A d \in Contexts \ {c} : batch'[d] = batch[d]
OBVIOUS

\* A client is called: one more has been served.
LEMMA TriggerKeepsInv ==
  ASSUME ScheduleInv, NEW c \in Handlers, TriggerClient(c), ~ fatal,
         UNCHANGED <<mainLoopVars, cycleRti>>
  PROVE  ScheduleInv'
<1> USE Constants
<1>2. batch \in [Contexts -> Batches] /\ c \in Contexts /\ batch[c] \in Batches
  BY DEF ScheduleInv, ScheduleTypes
<1>0. PICK k \in 1 .. NumClients + 1 : k = batch[c].index
  BY <1>2 DEF Batches
<1>1. /\ pc[c] = "batch" /\ k \in 1 .. NumClients
      /\ fired' = [fired EXCEPT ![k] = @ + 1]
      /\ UNCHANGED <<pc, timer, pending, enabled, index, thresholds, offsetBase,
                     rtiIndex, previous, rstValue, failed, loopAway>>
  BY <1>0 DEF TriggerClient, Proceeds, At, KeepsTime, mainLoopVars, loopAway
<1>3. /\ batch' \in [Contexts -> Batches] /\ batch'[c].index = k + 1
      /\ batch'[c].until = batch[c].until /\ batch'[c].then = batch[c].then
      /\ \A d \in Contexts \ {c} : batch'[d] = batch[d]
  <2> DEFINE r == [batch[c] EXCEPT !.index = k + 1]
  <2>1. batch' = [batch EXCEPT ![c] = r]
    BY <1>0 DEF TriggerClient
  <2>2. k + 1 \in 1 .. NumClients + 1
    BY <1>1
  <2>3. /\ r \in Batches /\ r.index = k + 1
        /\ r.until = batch[c].until /\ r.then = batch[c].then
    BY <1>2, <2>2 DEF Batches
  <2> HIDE DEF r
  <2> QED
    BY <1>2, <2>1, <2>3, BatchSet
<1>4. /\ \A d \in Contexts : batch'[d].then = batch[d].then
      /\ \A d \in Contexts : batch'[d].until = batch[d].until
  BY <1>3
<1>5. /\ Due' = Due /\ RtiEnds' = RtiEnds /\ Ending' = Ending /\ Settled' = Settled
      /\ MainActive' = MainActive
  BY <1>1, <1>4 DEF Due, RtiEnds, Ending, Settled, MainActive, Then
<1>6. Served(k) /\ index <= k
  BY <1>0, <1>1 DEF ScheduleInv, Serving
<1>7. /\ fired' \in [Clients -> {0, 1}]
      /\ \A i \in Clients : fired'[i] = IF i < k + 1 THEN 1 ELSE 0
  <2>1. fired \in [Clients -> {0, 1}] /\ fired[k] = 0
    BY <1>1, <1>6 DEF ScheduleInv, ScheduleTypes, Served
  <2> QED
    BY <1>1, <1>3, <1>6, <2>1 DEF Served
<1>8. ScheduleTypes'
  BY <1>1, <1>3, <1>7 DEF ScheduleInv, ScheduleTypes, loopAway
<1>9. Labels'
  BY <1>1, <1>4 DEF ScheduleInv, Labels, Then, loopAway
<1>10. Masked' /\ Cycles'
  BY <1>1, <1>5, LoopKept DEF ScheduleInv, Labels
<1>11. Clock' /\ Bases'
  BY <1>1, <1>5 DEF ScheduleInv, Clock, Bases, loopAway
<1>12. InTime'
  BY <1>1, <1>4, <1>5 DEF ScheduleInv, InTime, Then, loopAway
<1>13. Serving'
  <2>1. \A d \in Handlers : d # c => pc[d] \notin BatchLabels
    BY <1>1, OneBatch DEF BatchLabels
  <2>2. \A d \in Handlers : d # c => pc[d] \notin {"batch", "clear"}
    BY <2>1 DEF BatchLabels
  <2>3. Served(k + 1)'
    BY <1>7 DEF Served
  <2>4. (index <= k + 1 /\ pc[MainIsr] # "top") \/ index = NumClients + 1
    BY <1>1, <1>6 DEF ScheduleInv, Serving, ScheduleTypes
  <2>5. index' <= k + 1
    BY <1>1, <1>6 DEF ScheduleInv, ScheduleTypes
  <2>6. \A d \in Handlers : pc'[d] \in {"batch", "clear"} => d = c
    BY <1>1, <2>2
  <2>7. Served(batch[c].index)'
    BY <1>3, <2>3
  <2> QED
    BY <1>1, <1>3, <2>4, <2>5, <2>6, <2>7 DEF ScheduleInv, Serving
<1>14. Arming'
  BY <1>1, <1>4, <1>5 DEF ScheduleInv, Arming, Then
<1> QED
  BY <1>8, <1>9, <1>10, <1>11, <1>12, <1>13, <1>14 DEF ScheduleInv

\* The batch ends at a client whose time has not come.
LEMMA ScheduleClientKeepsInv ==
  ASSUME ScheduleInv, NEW c \in Handlers, ScheduleClient(c), ~ fatal,
         UNCHANGED <<mainLoopVars, cycleRti>>
  PROVE  ScheduleInv'
<1> USE Constants
<1> DEFINE k == batch[c].index
           mark == thresholds[k] + 1
<1>1. /\ pc[c] = "batch" /\ k <= NumClients /\ ~ (batch[c].until <= thresholds[k])
      /\ timer' = [timer EXCEPT !.pwma = mark]
      /\ pc' = [pc EXCEPT ![c] = "clear"]
      /\ UNCHANGED <<pending, enabled, index, batch, fired, thresholds, offsetBase,
                     rtiIndex, previous, rstValue, failed, loopAway>>
  BY DEF ScheduleClient, Proceeds, At, Goto, KeepsTime, Reached, mainLoopVars, loopAway
<1>2. /\ batch \in [Contexts -> Batches] /\ c \in Contexts /\ timer \in Times
      /\ thresholds \in [Clients -> Nat]
      /\ pc \in [Contexts -> MainLabels \cup IsrLabels]
  BY DEF ScheduleInv, ScheduleTypes, Labels
<1>3. k \in 1 .. NumClients /\ batch[c].until \in Nat
  BY <1>1, <1>2 DEF Batches
<1>4. mark \in Nat /\ thresholds[k] \in Nat
  BY <1>2, <1>3
<1>5. Then(c) # "top"
  <2>1. CASE c = MainIsr
    BY <1>1, <1>3, <1>4, <2>1 DEF ScheduleInv, InTime
  <2>2. CASE c = ProxyIsr
    BY <1>1, <2>2 DEF ScheduleInv, Labels
  <2> QED
    BY <2>1, <2>2 DEF Handlers
<1>6. /\ timer' \in Times /\ timer'.on = timer.on /\ timer'.cnt = timer.cnt
      /\ timer'.rst = timer.rst /\ timer'.pwma = mark
  BY <1>1, <1>2, <1>4 DEF Times
<1> HIDE DEF mark
<1>7. /\ pc' \in [Contexts -> MainLabels \cup IsrLabels]
      /\ pc'[c] = "clear" /\ \A d \in Contexts \ {c} : pc'[d] = pc[d]
  BY <1>1, <1>2 DEF IsrLabels, BatchLabels
<1>8. pc'[Main] = pc[Main] /\ ~ Settled /\ ~ Settled'
  BY <1>1, <1>7 DEF Settled
<1>9. /\ Due' = Due /\ RtiEnds' = RtiEnds /\ Ending' = Ending
      /\ MainActive' = MainActive
  BY <1>1, <1>7 DEF Due, RtiEnds, Ending, MainActive, Then
<1>10. \A d \in Handlers : d # c => pc[d] \notin BatchLabels
  BY <1>1, OneBatch DEF BatchLabels
<1>11. ScheduleTypes'
  BY <1>1, <1>6 DEF ScheduleInv, ScheduleTypes, loopAway
<1>12. Labels'
  BY <1>1, <1>5, <1>7, <1>8
  DEF ScheduleInv, Labels, Then, loopAway, BatchLabels, IsrLabels
<1>13. Masked' /\ Cycles'
  BY <1>1, <1>7, <1>8, <1>9, LoopKept DEF Ending
<1>14. Clock' /\ Bases'
  BY <1>1, <1>6, <1>7, <1>8, <1>9, HandlerAlone
  DEF ScheduleInv, Clock, Bases, loopAway, Ending
<1>15. InTime'
  BY <1>1, <1>5, <1>6, <1>7, <1>9 DEF ScheduleInv, InTime, Then, loopAway
<1>16. Serving'
  BY <1>1, <1>3, <1>4, <1>6, <1>7, <1>10
  DEF ScheduleInv, Serving, Served, BatchLabels, mark
<1>17. Arming'
  <2>1. \A d \in Handlers :
          pc'[d] \in BatchLabels /\ Then(d)' = "idle" => "proxy" \in enabled'
    BY <1>1, <1>7 DEF ScheduleInv, Arming, Then, BatchLabels
  <2>2. /\ pc'[MainIsr] # "enable"
        /\ pc'[MainIsr] \notin {"idle", "disable"} /\ Then(MainIsr)' # "idle" =>
             pc[MainIsr] \notin {"idle", "disable"} /\ Then(MainIsr) # "idle"
    BY <1>1, <1>7 DEF ScheduleInv, Labels, Then, BatchLabels
  <2> QED
    BY <1>1, <1>8, <2>1, <2>2 DEF ScheduleInv, Arming
<1> QED
  BY <1>11, <1>12, <1>13, <1>14, <1>15, <1>16, <1>17 DEF ScheduleInv

\* The way out of a batch: the index is stored and the handler goes on.
LEMMA BatchEnds ==
  ASSUME ScheduleInv, NEW c \in Handlers, pc[c] \in {"batch", "clear"}, EndBatch(c),
         UNCHANGED fired
  PROVE  /\ index' = batch[c].index /\ index' \in 1 .. NumClients + 1
         /\ Served(index)'
         /\ batch' \in [Contexts -> Batches]
         /\ \A d \in Contexts : batch'[d].then = batch[d].then
         /\ pc' \in [Contexts -> MainLabels \cup IsrLabels]
         /\ pc'[c] = Then(c) /\ \A d \in Contexts \ {c} : pc'[d] = pc[d]
         /\ Then(c) \in {"idle", "top", "enable"} /\ pc'[Main] = pc[Main]
         /\ \A d \in Handlers : pc'[d] \notin BatchLabels
<1> USE Constants
<1>1. /\ batch \in [Contexts -> Batches] /\ c \in Contexts /\ batch[c] \in Batches
      /\ pc \in [Contexts -> MainLabels \cup IsrLabels]
  BY DEF ScheduleInv, ScheduleTypes, Labels
<1> DEFINE r == [NoBatch EXCEPT !.then = batch[c].then]
<1>2. /\ index' = batch[c].index /\ batch' = [batch EXCEPT ![c] = r]
      /\ pc' = [pc EXCEPT ![c] = batch[c].then]
  BY DEF EndBatch, Goto
<1>3. 1 \in 1 .. NumClients + 1
  OBVIOUS
<1>4. r \in Batches /\ r.then = batch[c].then
  BY <1>1, <1>3 DEF Batches, NoBatch
<1> HIDE DEF r
<1>5. /\ batch' \in [Contexts -> Batches] /\ batch'[c] = r
      /\ \A d \in Contexts \ {c} : batch'[d] = batch[d]
  BY <1>1, <1>2, <1>4, BatchSet
<1>6. \A d \in Contexts : batch'[d].then = batch[d].then
  BY <1>4, <1>5
<1>7. batch[c].index \in 1 .. NumClients + 1 /\ Then(c) \in {"idle", "top", "enable"}
  BY <1>1 DEF Batches, Then
<1>8. /\ pc'[c] = Then(c) /\ \A d \in Contexts \ {c} : pc'[d] = pc[d]
      /\ pc' \in [Contexts -> MainLabels \cup IsrLabels] /\ pc'[Main] = pc[Main]
  BY <1>1, <1>2, <1>7 DEF Then, IsrLabels, MainLabels
<1>9. \A d \in Handlers : d # c => pc[d] \notin BatchLabels
  BY OneBatch DEF BatchLabels
<1>10. \A d \in Handlers : pc'[d] \notin BatchLabels
  BY <1>7, <1>8, <1>9 DEF BatchLabels
<1>11. Served(index)'
  BY <1>2 DEF ScheduleInv, Serving, Served
<1> QED
  BY <1>2, <1>5, <1>6, <1>7, <1>8, <1>10, <1>11

\* The proxy's pending bit is cleared, with its mark set for the next client.
LEMMA ClearKeepsInv ==
  ASSUME ScheduleInv, NEW c \in Handlers, ClearProxy(c), ~ fatal,
         UNCHANGED <<mainLoopVars, cycleRti>>
  PROVE  ScheduleInv'
<1> USE Constants
<1>1. /\ pc[c] = "clear" /\ EndBatch(c)
      /\ pending' = pending \ {"proxy"}
      /\ UNCHANGED <<timer, enabled, fired, thresholds, offsetBase, rtiIndex, previous,
                     rstValue, failed, loopAway>>
  BY DEF ClearProxy, Proceeds, At, KeepsTime, mainLoopVars, loopAway
<1>2. /\ index' = batch[c].index /\ index' \in 1 .. NumClients + 1 /\ Served(index)'
      /\ batch' \in [Contexts -> Batches]
      /\ \A d \in Contexts : batch'[d].then = batch[d].then
      /\ pc' \in [Contexts -> MainLabels \cup IsrLabels]
      /\ pc'[c] = Then(c) /\ \A d \in Contexts \ {c} : pc'[d] = pc[d]
      /\ pc'[Main] = pc[Main]
      /\ \A d \in Handlers : pc'[d] \notin BatchLabels
  BY <1>1, BatchEnds
<1>3. /\ index' <= NumClients /\ timer'.pwma = thresholds'[index'] + 1
      /\ Then(c) \in {"idle", "enable"} /\ (c = ProxyIsr => Then(c) = "idle")
  <2>1. Then(c) \in {"idle", "top", "enable"}
    BY <1>1, BatchEnds
  <2> QED
    BY <1>1, <1>2, <2>1 DEF ScheduleInv, Serving, Labels
<1>4. /\ (Due' <=> Due) /\ (RtiEnds' <=> RtiEnds) /\ (Ending' <=> Ending)
      /\ MainActive' => MainActive
  BY <1>1, <1>2, <1>3 DEF Due, RtiEnds, Ending, MainActive, Then
<1>5. ~ Settled
  BY <1>1, HandlerAlone
<1>6. ScheduleTypes'
  BY <1>1, <1>2 DEF ScheduleInv, ScheduleTypes, loopAway
<1>7. Labels'
  <2>1. /\ pc' \in [Contexts -> MainLabels \cup IsrLabels]
        /\ pc[Main] \in MainLabels /\ pc'[Main] \in MainLabels
        /\ \A d \in Contexts : d > ProxyIsr => pc'[d] = "idle"
    BY <1>1, <1>2, <1>3 DEF ScheduleInv, Labels
  <2>2. /\ \A d \in Contexts : Then(d)' = Then(d)
        /\ proxyIsr' = proxyIsr
    BY <1>1, <1>2 DEF Then, loopAway
  <2>3. CASE c = ProxyIsr
    <3>1. /\ pc'[ProxyIsr] = "idle" /\ pc'[MainIsr] = pc[MainIsr]
          /\ pc[MainIsr] \notin {"read", "clear"}
      BY <1>2, <1>3, <2>3 DEF BatchLabels
    <3> QED
      BY <1>1, <2>1, <2>2, <2>3, <3>1 DEF ScheduleInv, Labels, BatchLabels
  <2>4. CASE c # ProxyIsr
    <3>1. /\ c = MainIsr /\ pc[ProxyIsr] = "idle" /\ pc'[ProxyIsr] = "idle"
          /\ pc'[MainIsr] = Then(MainIsr)
      BY <1>1, <1>2, <2>4 DEF ScheduleInv, Labels
    <3> QED
      BY <1>3, <2>1, <2>2, <3>1 DEF Labels, BatchLabels, IsrLabels
  <2> QED
    BY <2>3, <2>4
<1>12. /\ pc'[MainIsr] \in {"disable", "advance"} <=>
            pc[MainIsr] \in {"disable", "advance"}
       /\ pc'[MainIsr] # "top"
  BY <1>1, <1>2, <1>3 DEF ScheduleInv, Labels
<1>8. Masked' /\ Cycles'
  BY <1>1, <1>2, <1>4, <1>12, LoopKept
<1>9. Clock' /\ Bases'
  <2>1. Clock'
    BY <1>1, <1>2, <1>4, HandlerAlone DEF ScheduleInv, Clock, loopAway
  <2>2. Bases'
    BY <1>1, <1>2, <1>4, <1>12, HandlerAlone DEF ScheduleInv, Bases, loopAway
  <2> QED
    BY <2>1, <2>2
<1>10. InTime' /\ Serving'
  <2>1. index <= NumClients
    BY <1>1, <1>2, <1>3 DEF ScheduleInv, Serving, ScheduleTypes
  <2>2. \A d \in Handlers : pc'[d] # "batch" /\ pc'[d] # "clear"
    BY <1>2 DEF BatchLabels
  <2>3. pc'[MainIsr] # "batch"
    BY <2>2
  <2>4. InTime'
    BY <1>1, <1>4, <2>1, <2>2, <2>3 DEF ScheduleInv, InTime, loopAway
  <2>5. Serving'
    BY <1>2, <1>12, <2>2 DEF Serving
  <2> QED
    BY <2>4, <2>5
<1>11. Arming'
  BY <1>1, <1>2, <1>3, <1>5 DEF ScheduleInv, Arming, Then, BatchLabels, Labels, Settled
<1> QED
  BY <1>6, <1>7, <1>8, <1>9, <1>10, <1>11 DEF ScheduleInv

\* No client is left: the proxy's interrupt is off.
LEMMA NoMoreKeepsInv ==
  ASSUME ScheduleInv, NEW c \in Handlers, NoMoreClients(c), ~ fatal,
         UNCHANGED <<mainLoopVars, cycleRti>>
  PROVE  ScheduleInv'
<1> USE Constants
<1>1. /\ pc[c] = "batch" /\ EndBatch(c) /\ batch[c].index > NumClients
      /\ enabled' = enabled \ {"proxy"}
      /\ UNCHANGED <<timer, pending, fired, thresholds, offsetBase, rtiIndex, previous,
                     rstValue, failed, loopAway>>
  BY DEF NoMoreClients, Proceeds, At, KeepsTime, mainLoopVars, loopAway
<1>2. /\ index' = batch[c].index /\ index' \in 1 .. NumClients + 1 /\ Served(index)'
      /\ batch' \in [Contexts -> Batches]
      /\ \A d \in Contexts : batch'[d].then = batch[d].then
      /\ pc' \in [Contexts -> MainLabels \cup IsrLabels]
      /\ pc'[c] = Then(c) /\ \A d \in Contexts \ {c} : pc'[d] = pc[d]
      /\ Then(c) \in {"idle", "top", "enable"} /\ pc'[Main] = pc[Main]
      /\ \A d \in Handlers : pc'[d] \notin BatchLabels
  BY <1>1, BatchEnds
<1>3. index' = NumClients + 1 /\ (c = ProxyIsr => Then(c) = "idle")
  BY <1>1, <1>2 DEF ScheduleInv, Labels
<1>4. /\ (Due' <=> Due) /\ (RtiEnds' <=> RtiEnds) /\ (Ending' <=> Ending)
      /\ MainActive' => MainActive
  BY <1>1, <1>2, <1>3 DEF Due, RtiEnds, Ending, MainActive, Then
<1>5. ScheduleTypes'
  BY <1>1, <1>2 DEF ScheduleInv, ScheduleTypes, loopAway
<1>6. Labels'
  BY <1>1, <1>2, <1>3 DEF ScheduleInv, Labels, Then, loopAway, BatchLabels, IsrLabels
<1>11. pc'[MainIsr] \in {"disable", "advance"} <=>
         pc[MainIsr] \in {"disable", "advance"}
  BY <1>1, <1>2 DEF ScheduleInv, Labels
<1>7. Masked' /\ Cycles'
  BY <1>1, <1>2, <1>4, <1>11, LoopKept
<1>8. Clock' /\ Bases'
  <2>1. Clock'
    BY <1>1, <1>2, <1>4, HandlerAlone DEF ScheduleInv, Clock, loopAway
  <2>2. Bases'
    BY <1>1, <1>2, <1>4, <1>11, HandlerAlone DEF ScheduleInv, Bases, loopAway
  <2> QED
    BY <2>1, <2>2
<1>9. InTime' /\ Serving'
  <2>1. ~ (index' <= NumClients)
    BY <1>3
  <2>2. \A d \in Handlers : pc'[d] # "batch" /\ pc'[d] # "clear"
    BY <1>2 DEF BatchLabels
  <2>3. pc'[MainIsr] # "batch"
    BY <2>2
  <2>4. InTime'
    BY <2>1, <2>2, <2>3 DEF InTime
  <2>5. Serving'
    BY <1>2, <1>3, <2>2 DEF Serving
  <2> QED
    BY <2>4, <2>5
<1>10. Arming'
  BY <1>1, <1>2, <1>3 DEF ScheduleInv, Arming, Then, BatchLabels, Labels, Settled
<1> QED
  BY <1>5, <1>6, <1>7, <1>8, <1>9, <1>10 DEF ScheduleInv

\* A batch begins with the count as it is now.
LEMMA ReadKeepsInv ==
  ASSUME ScheduleInv, NEW c \in Handlers, ReadCnt(c), ~ fatal,
         UNCHANGED <<mainLoopVars, cycleRti>>
  PROVE  ScheduleInv'
<1> USE Constants
<1>1. /\ pc[c] = "read" /\ pc' = [pc EXCEPT ![c] = "batch"]
      /\ UNCHANGED <<timer, pending, enabled, index, fired, thresholds, offsetBase,
                     rtiIndex, previous, rstValue, failed, loopAway>>
  BY DEF ReadCnt, Proceeds, At, Goto, KeepsTime, mainLoopVars, loopAway
<1>2. /\ batch \in [Contexts -> Batches] /\ c \in Contexts /\ batch[c] \in Batches
      /\ pc \in [Contexts -> MainLabels \cup IsrLabels] /\ timer.cnt \in Nat
      /\ index \in 1 .. NumClients + 1
  BY DEF ScheduleInv, ScheduleTypes, Labels, Times
<1> DEFINE r == [until |-> timer.cnt, index |-> index, then |-> batch[c].then]
<1>3. batch' = [batch EXCEPT ![c] = r]
  <2> DEFINE b == [batch EXCEPT ![c] = [batch[c] EXCEPT !.until = timer.cnt]]
  <2>1. b[c] = [until |-> timer.cnt, index |-> batch[c].index, then |-> batch[c].then]
    BY <1>2 DEF Batches
  <2>2. [b[c] EXCEPT !.index = index] = r
    BY <2>1
  <2>3. batch' = [b EXCEPT ![c] = [b[c] EXCEPT !.index = index]]
    BY <1>2 DEF ReadCnt
  <2>4. batch' = [b EXCEPT ![c] = r]
    BY <2>2, <2>3
  <2> QED
    BY <1>2, <2>4
<1>4. r \in Batches
  BY <1>2 DEF Batches
<1>5. r.until = timer.cnt /\ r.index = index /\ r.then = batch[c].then
  OBVIOUS
<1> HIDE DEF r
<1>6. /\ batch' \in [Contexts -> Batches] /\ batch'[c] = r
      /\ \A d \in Contexts \ {c} : batch'[d] = batch[d]
      /\ \A d \in Contexts : batch'[d].then = batch[d].then
  BY <1>2, <1>3, <1>4, <1>5, BatchSet
<1>7. /\ pc' \in [Contexts -> MainLabels \cup IsrLabels] /\ pc'[Main] = pc[Main]
      /\ pc'[c] = "batch" /\ \A d \in Contexts \ {c} : pc'[d] = pc[d]
  BY <1>1, <1>2 DEF IsrLabels, BatchLabels
<1>8. \A d \in Handlers : d # c => pc[d] \notin BatchLabels
  BY <1>1, OneBatch DEF BatchLabels
<1>9. Then(c) # "top" /\ ~ Settled' /\ ~ Settled
  BY <1>1, <1>7 DEF ScheduleInv, Labels, Settled
<1>10. /\ Due' = Due /\ RtiEnds' = RtiEnds /\ Ending' = Ending
       /\ MainActive' = MainActive
  BY <1>1, <1>6, <1>7 DEF Due, RtiEnds, Ending, MainActive, Then
<1>11. ScheduleTypes'
  BY <1>1, <1>6 DEF ScheduleInv, ScheduleTypes, loopAway
<1>12. Labels'
  BY <1>1, <1>6, <1>7, <1>9
  DEF ScheduleInv, Labels, Then, loopAway, BatchLabels, IsrLabels
<1>13. Masked' /\ Cycles'
  BY <1>1, <1>7, <1>9, <1>10, LoopKept DEF Ending
<1>14. Clock' /\ Bases'
  BY <1>1, <1>7, <1>9, <1>10, HandlerAlone
  DEF ScheduleInv, Clock, Bases, loopAway, Ending
<1>15. InTime'
  BY <1>1, <1>2, <1>5, <1>6, <1>7, <1>9, <1>10 DEF ScheduleInv, InTime, Then, loopAway
<1>16. Served(index)
  BY <1>1, <1>8 DEF ScheduleInv, Serving, BatchLabels
<1>17. Serving'
  BY <1>1, <1>2, <1>5, <1>6, <1>7, <1>8, <1>16
  DEF ScheduleInv, Serving, Served, BatchLabels
<1>18. Arming'
  BY <1>1, <1>6, <1>7, <1>9 DEF ScheduleInv, Arming, Then, BatchLabels, Labels
<1> QED
  BY <1>11, <1>12, <1>13, <1>14, <1>15, <1>17, <1>18 DEF ScheduleInv

-----------------------------------------------------------------------------
(***************************************************************************)
(* Interrupts.                                                             *)
(***************************************************************************)
\* What the entry of a handler changes.
LEMMA Enters ==
  ASSUME ScheduleInv, NEW c \in Handlers, NEW first \in {"read", "disable"},
         NEW then \in {"idle", "top"},
         pc' = [pc EXCEPT ![c] = first], batch' = [batch EXCEPT ![c].then = then]
  PROVE  /\ batch' \in [Contexts -> Batches] /\ batch'[c].then = then
         /\ \A d \in Contexts \ {c} : batch'[d] = batch[d]
         /\ pc' \in [Contexts -> MainLabels \cup IsrLabels] /\ pc'[Main] = pc[Main]
         /\ pc'[c] = first /\ \A d \in Contexts \ {c} : pc'[d] = pc[d]
<1> USE Constants
<1>1. /\ batch \in [Contexts -> Batches] /\ c \in Contexts /\ batch[c] \in Batches
      /\ pc \in [Contexts -> MainLabels \cup IsrLabels]
  BY DEF ScheduleInv, ScheduleTypes, Labels
<1> DEFINE r == [batch[c] EXCEPT !.then = then]
<1>2. batch' = [batch EXCEPT ![c] = r]
  OBVIOUS
<1>3. r \in Batches /\ r.then = then
  BY <1>1 DEF Batches
<1> HIDE DEF r
<1>4. /\ batch' \in [Contexts -> Batches] /\ batch'[c] = r
      /\ \A d \in Contexts \ {c} : batch'[d] = batch[d]
  BY <1>1, <1>2, <1>3, BatchSet
<1>5. first \in MainLabels \cup IsrLabels
  BY DEF IsrLabels, BatchLabels
<1>6. /\ pc' \in [Contexts -> MainLabels \cup IsrLabels] /\ pc'[Main] = pc[Main]
      /\ pc'[c] = first /\ \A d \in Contexts \ {c} : pc'[d] = pc[d]
  BY <1>1, <1>5
<1> QED
  BY <1>3, <1>4, <1>6

\* The proxy timer interrupts, or its interrupt has been pending.
LEMMA ProxyKeepsInv ==
  ASSUME ScheduleInv, ProxyTimerIsr, ~ fatal, UNCHANGED <<mainLoopVars, cycleRti>>
  PROVE  ScheduleInv'
<1> USE Constants
<1> DEFINE c == proxyIsr
<1>1. /\ c \in Handlers /\ "proxy" \in pending /\ "proxy" \in enabled
      /\ pc[c] = "idle" /\ primask = 0 /\ Executes(c)
      /\ pending' = pending \ {"proxy"} /\ pc' = [pc EXCEPT ![c] = "read"]
      /\ UNCHANGED <<timer, enabled, index, fired, thresholds, offsetBase, rtiIndex,
                     previous, rstValue, failed, loopAway>>
  BY DEF ProxyTimerIsr, EnterIsr, ContextOf, MayStart, At, Goto, KeepsTime, ScheduleInv,
         ScheduleTypes, mainLoopVars, loopAway, Handlers
<1>2. batch' = [batch EXCEPT ![c].then = "idle"]
  BY DEF ProxyTimerIsr, EnterIsr, ContextOf
<1>3. /\ batch' \in [Contexts -> Batches] /\ batch'[c].then = "idle"
      /\ \A d \in Contexts \ {c} : batch'[d] = batch[d]
      /\ pc' \in [Contexts -> MainLabels \cup IsrLabels] /\ pc'[Main] = pc[Main]
      /\ pc'[c] = "read" /\ \A d \in Contexts \ {c} : pc'[d] = pc[d]
  BY <1>1, <1>2, Enters
<1>4. pc[ProxyIsr] = "idle" /\ (c = MainIsr => pc[MainIsr] = "idle")
  BY <1>1 DEF Executes
<1>5. pc[MainIsr] \in {"idle", "disable"}
  BY <1>1, <1>4 DEF ScheduleInv, Labels, Arming, IsrLabels
<1>6. index <= NumClients /\ loaded.now # 0 /\ timer.on
  BY <1>1 DEF ScheduleInv, Arming, Clock, ScheduleTypes, Times
<1>7. /\ pc[Main] \notin {"readCnt", "check", "readAgain", "restore", "idle"}
      /\ ~ Settled'
  BY <1>1, <1>3, <1>6 DEF ScheduleInv, Masked, Clock, Settled
<1>8. /\ (MainActive' <=> MainActive) /\ (Ending' <=> Ending)
      /\ pc'[MainIsr] \in {"disable", "advance"} <=>
           pc[MainIsr] \in {"disable", "advance"}
  BY <1>1, <1>3, <1>4 DEF MainActive, Ending, Then
<1>9. (Due' <=> Due) /\ (RtiEnds' <=> RtiEnds)
  <2>1. "main" \in pending' <=> "main" \in pending
    BY <1>1
  <2>2. batch'[MainIsr].then = "top" /\ MainActive' <=>
          batch[MainIsr].then = "top" /\ MainActive
    BY <1>1, <1>3, <1>4 DEF MainActive
  <2> QED
    BY <1>8, <2>1, <2>2 DEF Due, RtiEnds
<1>10. \A d \in Handlers : /\ pc[d] # "batch" /\ pc[d] # "clear"
                           /\ pc'[d] # "batch" /\ pc'[d] # "clear"
  BY <1>1, <1>3, <1>4, <1>5
<1>11. ScheduleTypes'
  BY <1>1, <1>3 DEF ScheduleInv, ScheduleTypes, loopAway
<1>12. Labels'
  BY <1>1, <1>3, <1>4, <1>5
  DEF ScheduleInv, Labels, Then, loopAway, BatchLabels, IsrLabels
<1>13. Masked' /\ Cycles'
  BY <1>1, <1>3, <1>6, <1>7, <1>8, <1>9
  DEF ScheduleInv, Masked, Cycles, loopAway, TimeLabels
<1>14. Clock' /\ Bases'
  <2>1. Clock'
    BY <1>1, <1>3, <1>6, <1>7, <1>8 DEF ScheduleInv, Clock, loopAway
  <2>2. Bases'
    BY <1>1, <1>3, <1>7, <1>8, <1>9 DEF ScheduleInv, Bases, loopAway
  <2> QED
    BY <2>1, <2>2
<1>15. InTime' /\ Serving'
  <2>1. pc'[MainIsr] # "batch" /\ (pc'[MainIsr] = "top" => pc[MainIsr] = "top")
    BY <1>1, <1>3, <1>10
  <2>2. InTime'
    BY <1>1, <1>9, <1>10, <2>1 DEF ScheduleInv, InTime, loopAway
  <2>3. Serving'
    BY <1>1, <1>10, <2>1 DEF ScheduleInv, Serving, Served
  <2> QED
    BY <2>2, <2>3
<1>16. Arming'
  <2>1. /\ pc'[MainIsr] # "enable"
        /\ ~ (pc'[MainIsr] \notin {"idle", "disable"} /\ Then(MainIsr)' # "idle")
    BY <1>1, <1>3, <1>5 DEF Then
  <2> QED
    BY <1>1, <1>6, <1>7, <2>1 DEF ScheduleInv, Arming
<1> QED
  BY <1>11, <1>12, <1>13, <1>14, <1>15, <1>16 DEF ScheduleInv

\* The main timer has begun an RTI.
LEMMA MainTimerKeepsInv ==
  ASSUME ScheduleInv, MainTimerIsr, ~ fatal, UNCHANGED <<mainLoopVars, cycleRti>>
  PROVE  ScheduleInv'
<1> USE Constants
<1>1. /\ MainIsr \in Handlers /\ "main" \in pending /\ timer.cnt # 0
      /\ pc[MainIsr] = "idle" /\ primask = 0 /\ Executes(MainIsr)
      /\ pending' = pending \ {"main"} /\ pc' = [pc EXCEPT ![MainIsr] = "disable"]
      /\ UNCHANGED <<timer, enabled, index, fired, thresholds, offsetBase, rtiIndex,
                     previous, rstValue, failed, loopAway>>
  BY DEF MainTimerIsr, EnterIsr, ContextOf, MayStart, At, Goto, KeepsTime, ScheduleInv,
         ScheduleTypes, mainLoopVars, loopAway, Handlers
<1>2. batch' = [batch EXCEPT ![MainIsr].then = "top"]
  BY DEF MainTimerIsr, EnterIsr, ContextOf
<1>3. /\ batch' \in [Contexts -> Batches] /\ batch'[MainIsr].then = "top"
      /\ \A d \in Contexts \ {MainIsr} : batch'[d] = batch[d]
      /\ pc' \in [Contexts -> MainLabels \cup IsrLabels] /\ pc'[Main] = pc[Main]
      /\ pc'[MainIsr] = "disable" /\ \A d \in Contexts \ {MainIsr} : pc'[d] = pc[d]
  BY <1>1, <1>2, Enters
<1>4. pc[ProxyIsr] = "idle" /\ pc'[ProxyIsr] = "idle"
  BY <1>1, <1>3 DEF Executes
<1>6. loaded.now # 0 /\ timer.on
  BY <1>1 DEF ScheduleInv, Clock, ScheduleTypes, Times
<1>7. /\ pc[Main] \notin {"readCnt", "check", "readAgain", "restore", "idle"}
      /\ ~ Settled'
  BY <1>1, <1>3, <1>6 DEF ScheduleInv, Masked, Clock, Settled
<1>8. Due /\ Due' /\ RtiEnds /\ RtiEnds' /\ ~ Ending
  BY <1>1, <1>3 DEF Due, RtiEnds, MainActive, Ending
<1>9. /\ "main" \notin pending' /\ ("proxy" \in pending' <=> "proxy" \in pending)
      /\ pending' \subseteq {"main", "proxy"}
  BY <1>1 DEF ScheduleInv, ScheduleTypes
<1>10. \A d \in Handlers : /\ pc[d] # "batch" /\ pc[d] # "clear"
                           /\ pc'[d] # "batch" /\ pc'[d] # "clear"
  BY <1>1, <1>3, <1>4
<1>11. ScheduleTypes'
  BY <1>1, <1>3, <1>9 DEF ScheduleInv, ScheduleTypes, loopAway
<1>12. Labels'
  BY <1>1, <1>3, <1>4
  DEF ScheduleInv, Labels, Then, loopAway, BatchLabels, IsrLabels
<1>13. Masked' /\ Cycles'
  BY <1>1, <1>3, <1>6, <1>7, <1>8
  DEF ScheduleInv, Masked, Cycles, loopAway, TimeLabels
<1>14. Clock' /\ Bases'
  <2>1. Clock'
    BY <1>1, <1>3, <1>6, <1>7, <1>9 DEF ScheduleInv, Clock, loopAway
  <2>2. Bases'
    BY <1>1, <1>3, <1>7, <1>8 DEF ScheduleInv, Bases, loopAway
  <2> QED
    BY <2>1, <2>2
<1>15. InTime' /\ Serving'
  <2>2. InTime'
    BY <1>1, <1>3, <1>8, <1>10 DEF InTime
  <2>3. Serving'
    BY <1>1, <1>3, <1>10 DEF ScheduleInv, Serving, Served
  <2> QED
    BY <2>2, <2>3
<1>16. Arming'
  BY <1>1, <1>3, <1>4, <1>7 DEF ScheduleInv, Arming, BatchLabels
<1> QED
  BY <1>11, <1>12, <1>13, <1>14, <1>15, <1>16 DEF ScheduleInv

-----------------------------------------------------------------------------
(***************************************************************************)
(* The main timer's handler. It goes on only while the proxy timer's is at *)
(* rest.                                                                   *)
(***************************************************************************)
\* What its moving on means to the others.
LEMMA HandlerMoves ==
  ASSUME ScheduleInv, NEW from \in IsrLabels \ {"idle"}, At(MainIsr, from),
         NEW l \in IsrLabels, pc' = [pc EXCEPT ![MainIsr] = l]
  PROVE  /\ pc[MainIsr] = from /\ MainIsr \in Handlers /\ MainIsr \in Contexts
         /\ pc' \in [Contexts -> MainLabels \cup IsrLabels] /\ pc'[Main] = pc[Main]
         /\ pc'[MainIsr] = l /\ \A d \in Contexts \ {MainIsr} : pc'[d] = pc[d]
         /\ pc[ProxyIsr] = "idle" /\ pc'[ProxyIsr] = "idle"
         /\ \A c \in Contexts : c > ProxyIsr => pc'[c] = "idle"
         /\ ~ Settled /\ (l # "idle" => ~ Settled') /\ (l = "idle" => Settled')
         /\ timer.on /\ loaded.now # 0 /\ primask = 0 /\ timer.rst \in Rsts
         /\ pc[Main] \notin {"readCnt", "check", "readAgain", "restore", "idle"}
         /\ \A d \in Handlers : d # MainIsr => pc[d] = "idle" /\ pc'[d] = "idle"
<1> USE Constants
<1>1. /\ pc[MainIsr] = from /\ Executes(MainIsr) /\ MainIsr \in Handlers
      /\ MainIsr \in Contexts /\ pc[MainIsr] # "idle"
  BY DEF At
<1>2. pc \in [Contexts -> MainLabels \cup IsrLabels] /\ pc[ProxyIsr] = "idle"
  BY <1>1 DEF ScheduleInv, Labels, Executes
<1>3. /\ pc' \in [Contexts -> MainLabels \cup IsrLabels] /\ pc'[Main] = pc[Main]
      /\ pc'[MainIsr] = l /\ \A d \in Contexts \ {MainIsr} : pc'[d] = pc[d]
  BY <1>1, <1>2
<1>4. \A c \in Contexts : c > MainIsr => pc[c] = "idle" /\ pc'[c] = "idle"
  BY <1>1, <1>3 DEF Executes
<1>5. (l # "idle" => ~ Settled') /\ (l = "idle" => Settled')
  BY <1>3, <1>4 DEF Settled
<1>6. /\ ~ Settled /\ timer.on /\ loaded.now # 0 /\ primask = 0 /\ timer.rst \in Rsts
      /\ pc[Main] \notin {"readCnt", "check", "readAgain", "restore", "idle"}
  BY <1>1, HandlerAlone
<1>7. pc'[ProxyIsr] = "idle" /\ \A c \in Contexts : c > ProxyIsr => pc'[c] = "idle"
  BY <1>2, <1>3, <1>4
<1>8. \A d \in Handlers : d # MainIsr => pc[d] = "idle" /\ pc'[d] = "idle"
  BY <1>2, <1>7
<1> QED
  BY <1>1, <1>2, <1>3, <1>5, <1>6, <1>7, <1>8

\* The proxy's interrupt is switched off first.
LEMMA DisableKeepsInv ==
  ASSUME ScheduleInv, DisableProxy, ~ fatal, UNCHANGED <<mainLoopVars, cycleRti>>
  PROVE  ScheduleInv'
<1> USE Constants
<1>1. /\ At(MainIsr, "disable") /\ pc' = [pc EXCEPT ![MainIsr] = "advance"]
      /\ enabled' = enabled \ {"proxy"}
      /\ UNCHANGED <<timer, pending, index, batch, fired, thresholds, offsetBase,
                     rtiIndex, previous, rstValue, failed, loopAway>>
  BY DEF DisableProxy, Proceeds, Goto, KeepsTime, mainLoopVars, loopAway
<1>2. "disable" \in IsrLabels \ {"idle"} /\ "advance" \in IsrLabels
  BY DEF IsrLabels
<1>3. /\ pc[MainIsr] = "disable" /\ MainIsr \in Handlers /\ MainIsr \in Contexts
      /\ pc' \in [Contexts -> MainLabels \cup IsrLabels] /\ pc'[Main] = pc[Main]
      /\ pc'[MainIsr] = "advance" /\ \A d \in Contexts \ {MainIsr} : pc'[d] = pc[d]
      /\ pc[ProxyIsr] = "idle" /\ pc'[ProxyIsr] = "idle"
      /\ \A c \in Contexts : c > ProxyIsr => pc'[c] = "idle"
      /\ ~ Settled /\ ~ Settled'
      /\ timer.on /\ loaded.now # 0 /\ primask = 0 /\ timer.rst \in Rsts
      /\ pc[Main] \notin {"readCnt", "check", "readAgain", "restore", "idle"}
      /\ \A d \in Handlers : d # MainIsr => pc[d] = "idle" /\ pc'[d] = "idle"
  BY <1>1, <1>2, HandlerMoves
<1>4. Then(MainIsr) = "top" /\ Then(MainIsr)' = "top"
  BY <1>1, <1>3 DEF ScheduleInv, Labels, Then
<1>5. /\ Due /\ Due' /\ RtiEnds /\ RtiEnds' /\ Ending /\ Ending'
      /\ MainActive /\ MainActive'
  BY <1>1, <1>3, <1>4 DEF Due, RtiEnds, Ending, MainActive, Then
<1>6. \A d \in Handlers : /\ pc[d] \notin BatchLabels /\ pc'[d] \notin BatchLabels
                          /\ pc[d] # "batch" /\ pc[d] # "clear"
                          /\ pc'[d] # "batch" /\ pc'[d] # "clear"
  BY <1>3 DEF BatchLabels
<1>7. ScheduleTypes'
  BY <1>1 DEF ScheduleInv, ScheduleTypes, loopAway
<1>8. Labels'
  BY <1>1, <1>3, <1>4 DEF ScheduleInv, Labels, Then, BatchLabels, IsrLabels
<1>9. Masked' /\ Cycles'
  BY <1>1, <1>3, <1>5, LoopKept
<1>10. Clock'
  BY <1>1, <1>3, <1>5 DEF ScheduleInv, Clock, loopAway
<1>11. Bases'
  BY <1>1, <1>3, <1>5 DEF ScheduleInv, Bases, loopAway
<1>12. InTime'
  BY <1>3, <1>5, <1>6 DEF InTime
<1>13. Serving'
  BY <1>1, <1>3, <1>6 DEF ScheduleInv, Serving, Served
<1>14. Arming'
  BY <1>1, <1>3, <1>6 DEF ScheduleInv, Arming
<1> QED
  BY <1>7, <1>8, <1>9, <1>10, <1>11, <1>12, <1>13, <1>14 DEF ScheduleInv

\* The RTI is advanced: the base is what the timer has reloaded, and the clients that
\* are left are served to the end.
LEMMA AdvanceKeepsInv ==
  ASSUME ScheduleInv, AdvanceRti, ~ fatal, UNCHANGED <<mainLoopVars, cycleRti>>
  PROVE  ScheduleInv'
<1> USE Constants
<1>1. /\ At(MainIsr, "advance") /\ pc' = [pc EXCEPT ![MainIsr] = "batch"]
      /\ rstValue' = timer.rst /\ offsetBase' = timer.rst
      /\ previous' = (offsetBase + 1) \div CyclesPerMicro
      /\ rtiIndex' = (rtiIndex + 1) % RtiIndices
      /\ UNCHANGED <<timer, pending, enabled, index, fired, thresholds, failed,
                     loopAway>>
  BY DEF AdvanceRti, Proceeds, Goto, mainLoopVars, loopAway
<1>2. "advance" \in IsrLabels \ {"idle"} /\ "batch" \in IsrLabels
  BY DEF IsrLabels, BatchLabels
<1>3. /\ pc[MainIsr] = "advance" /\ MainIsr \in Handlers /\ MainIsr \in Contexts
      /\ pc' \in [Contexts -> MainLabels \cup IsrLabels] /\ pc'[Main] = pc[Main]
      /\ pc'[MainIsr] = "batch" /\ \A d \in Contexts \ {MainIsr} : pc'[d] = pc[d]
      /\ pc[ProxyIsr] = "idle" /\ pc'[ProxyIsr] = "idle"
      /\ \A c \in Contexts : c > ProxyIsr => pc'[c] = "idle"
      /\ ~ Settled /\ ~ Settled'
      /\ timer.on /\ loaded.now # 0 /\ primask = 0 /\ timer.rst \in Rsts
      /\ pc[Main] \notin {"readCnt", "check", "readAgain", "restore", "idle"}
      /\ \A d \in Handlers : d # MainIsr => pc[d] = "idle" /\ pc'[d] = "idle"
  BY <1>1, <1>2, HandlerMoves
<1>4. /\ batch \in [Contexts -> Batches] /\ batch[MainIsr] \in Batches
      /\ index \in 1 .. NumClients + 1 /\ Then(MainIsr) = "top"
      /\ offsetBase \in Nat /\ rtiIndex \in Nat /\ timer.rst \in Nat
  BY <1>3 DEF ScheduleInv, ScheduleTypes, Labels, Times
<1> DEFINE r == [until |-> 0, index |-> index, then |-> batch[MainIsr].then]
<1>5. batch' = [batch EXCEPT ![MainIsr] = r]
  <2> DEFINE b == [batch EXCEPT ![MainIsr] = [batch[MainIsr] EXCEPT !.until = 0]]
  <2>1. b[MainIsr] = [until |-> 0, index |-> batch[MainIsr].index,
                      then |-> batch[MainIsr].then]
    BY <1>3, <1>4 DEF Batches
  <2>2. [b[MainIsr] EXCEPT !.index = index] = r
    BY <2>1
  <2>3. batch' = [b EXCEPT ![MainIsr] = [b[MainIsr] EXCEPT !.index = index]]
    BY <1>3, <1>4 DEF AdvanceRti
  <2>4. batch' = [b EXCEPT ![MainIsr] = r]
    BY <2>2, <2>3
  <2> QED
    BY <1>3, <1>4, <2>4
<1>6. r \in Batches
  BY <1>4 DEF Batches
<1>7. r.until = 0 /\ r.index = index /\ r.then = "top"
  BY <1>4 DEF Then
<1> HIDE DEF r
<1>8. /\ batch' \in [Contexts -> Batches] /\ batch'[MainIsr] = r
      /\ \A d \in Contexts \ {MainIsr} : batch'[d] = batch[d]
  BY <1>3, <1>4, <1>5, <1>6, BatchSet
<1>9. Then(MainIsr)' = "top"
  BY <1>7, <1>8 DEF Then
<1>10. /\ Due /\ RtiEnds /\ RtiEnds' /\ Ending /\ Ending' /\ MainActive /\ MainActive'
  BY <1>1, <1>3, <1>4, <1>9 DEF Due, RtiEnds, Ending, MainActive, Then
<1>11. timer.cnt # 0 /\ "main" \notin pending /\ ~ Due'
  BY <1>1, <1>3, <1>10 DEF ScheduleInv, Clock, Due
<1>12. offsetBase = loaded.before /\ timer.rst = loaded.now
  BY <1>10, <1>11 DEF ScheduleInv, Bases
<1>13. previous' \in Nat /\ rtiIndex' \in Nat
  <2>1. offsetBase + 1 \in Nat /\ CyclesPerMicro \in Nat /\ CyclesPerMicro > 0
    BY <1>4
  <2>2. rtiIndex + 1 \in Nat /\ RtiIndices \in Nat /\ RtiIndices > 0
    BY <1>4
  <2>3. (offsetBase + 1) \div CyclesPerMicro \in Nat
    BY <2>1
  <2>4. (rtiIndex + 1) % RtiIndices \in Nat
    BY <2>2
  <2> QED
    BY <1>1, <2>3, <2>4
<1>14. ScheduleTypes'
  BY <1>1, <1>4, <1>8, <1>13 DEF ScheduleInv, ScheduleTypes, loopAway
<1>15. Labels'
  BY <1>1, <1>3, <1>8, <1>9
  DEF ScheduleInv, Labels, Then, BatchLabels, IsrLabels, loopAway
<1>16. Masked' /\ Cycles'
  BY <1>1, <1>3, <1>10
  DEF ScheduleInv, Masked, Cycles, loopAway, TimeLabels
<1>17. Clock'
  BY <1>1, <1>3, <1>10 DEF ScheduleInv, Clock, loopAway
<1>18. Bases'
  BY <1>1, <1>3, <1>11, <1>12 DEF Bases, loopAway
<1>19. InTime'
  <2>1. \A c \in Handlers : ~ (pc'[c] = "batch" /\ ~ RtiEnds')
    BY <1>10
  <2> QED
    BY <1>3, <1>7, <1>8, <1>10, <2>1 DEF InTime
<1>20. Serving'
  <2>1. Served(index)
    BY <1>3 DEF ScheduleInv, Serving
  <2>2. Served(index)' /\ batch'[MainIsr].index = index'
    BY <1>1, <1>7, <1>8, <2>1 DEF Served
  <2>3. index' \in Nat /\ index' <= index'
    BY <1>1, <1>4
  <2> QED
    BY <1>3, <2>2, <2>3 DEF Serving, Served
<1>21. Arming'
  BY <1>1, <1>3, <1>4, <1>9 DEF ScheduleInv, Arming, BatchLabels
<1> QED
  BY <1>14, <1>15, <1>16, <1>17, <1>18, <1>19, <1>20, <1>21 DEF ScheduleInv

\* At the top of the RTI every client has been served, and the counting starts over.
LEMMA TopKeepsInv ==
  ASSUME ScheduleInv, TopOfRti, ~ fatal, UNCHANGED <<mainLoopVars, cycleRti>>
  PROVE  ScheduleInv'
<1> USE Constants
<1>1. /\ At(MainIsr, "top") /\ pc' = [pc EXCEPT ![MainIsr] = "start"]
      /\ failed' = IF index = NumClients + 1 THEN "none" ELSE "index"
      /\ index' = 1 /\ fired' = [i \in Clients |-> 0]
      /\ UNCHANGED <<timer, pending, enabled, batch, thresholds, offsetBase,
                     rtiIndex, previous, rstValue, loopAway>>
  BY DEF TopOfRti, Proceeds, Goto, mainLoopVars, loopAway
<1>2. "top" \in IsrLabels \ {"idle"} /\ "start" \in IsrLabels
  BY DEF IsrLabels
<1>3. /\ pc[MainIsr] = "top" /\ MainIsr \in Handlers /\ MainIsr \in Contexts
      /\ pc' \in [Contexts -> MainLabels \cup IsrLabels] /\ pc'[Main] = pc[Main]
      /\ pc'[MainIsr] = "start" /\ \A d \in Contexts \ {MainIsr} : pc'[d] = pc[d]
      /\ pc[ProxyIsr] = "idle" /\ pc'[ProxyIsr] = "idle"
      /\ \A c \in Contexts : c > ProxyIsr => pc'[c] = "idle"
      /\ ~ Settled /\ ~ Settled'
      /\ timer.on /\ loaded.now # 0 /\ primask = 0 /\ timer.rst \in Rsts
      /\ pc[Main] \notin {"readCnt", "check", "readAgain", "restore", "idle"}
      /\ \A d \in Handlers : d # MainIsr => pc[d] = "idle" /\ pc'[d] = "idle"
  BY <1>1, <1>2, HandlerMoves
<1>4. Then(MainIsr) = "top" /\ Then(MainIsr)' = "top" /\ "proxy" \notin enabled
  BY <1>1, <1>3 DEF ScheduleInv, Labels, Arming, Then
<1>5. /\ RtiEnds /\ RtiEnds' /\ Ending /\ Ending' /\ MainActive /\ MainActive'
      /\ (Due' <=> Due)
  BY <1>1, <1>3, <1>4 DEF Due, RtiEnds, Ending, MainActive, Then
<1>6. \A d \in Handlers : /\ pc[d] \notin BatchLabels /\ pc'[d] \notin BatchLabels
                          /\ pc[d] # "batch" /\ pc[d] # "clear"
                          /\ pc'[d] # "batch" /\ pc'[d] # "clear"
  BY <1>3 DEF BatchLabels
<1>7. failed' = "none" /\ index' \in 1 .. NumClients + 1
  BY <1>1, <1>3 DEF ScheduleInv, Serving
<1>8. fired' \in [Clients -> {0, 1}] /\ \A i \in Clients : fired'[i] = 0 /\ ~ (i < 1)
  BY <1>1
<1>9. ScheduleTypes'
  BY <1>1, <1>7, <1>8 DEF ScheduleInv, ScheduleTypes, loopAway
<1>10. Labels'
  BY <1>1, <1>3, <1>4 DEF ScheduleInv, Labels, Then, BatchLabels, IsrLabels, loopAway
<1>11. Masked' /\ Cycles'
  BY <1>1, <1>3, <1>5, LoopKept
<1>12. Clock'
  BY <1>1, <1>3, <1>5 DEF ScheduleInv, Clock, loopAway
<1>13. Bases'
  BY <1>1, <1>3, <1>5 DEF ScheduleInv, Bases, loopAway
<1>14. InTime'
  BY <1>3, <1>5, <1>6 DEF InTime
<1>15. Serving'
  BY <1>1, <1>3, <1>6, <1>8 DEF Serving, Served
<1>16. Arming'
  BY <1>1, <1>3, <1>4, <1>6 DEF Arming
<1> QED
  BY <1>9, <1>10, <1>11, <1>12, <1>13, <1>14, <1>15, <1>16 DEF ScheduleInv

\* The thresholds are those of the RTI that has begun, and the loop is told of it.
LEMMA StartKeepsInv ==
  ASSUME ScheduleInv, ComputeThresholds, StartRti, UNCHANGED cycleRti
  PROVE  ScheduleInv'
<1> USE Constants
<1>1. /\ At(MainIsr, "start") /\ pc' = [pc EXCEPT ![MainIsr] = "read"]
      /\ thresholds' = [i \in Clients |-> rstValue - TriggerMicros[i] * CyclesPerMicro]
      /\ rstValue' = 0
      /\ readyToRun' = readyToRun + 1
      /\ UNCHANGED <<primask, saved, timer, pending, enabled, proxyIsr, index,
                     offsetBase, rtiIndex, previous, cntValue, failed, loaded, fired,
                     fatal, cycleRti>>
  BY DEF ComputeThresholds, Proceeds, Goto, StartRti
<1>2. "start" \in IsrLabels \ {"idle"} /\ "read" \in IsrLabels
  BY DEF IsrLabels, BatchLabels
<1>3. /\ pc[MainIsr] = "start" /\ MainIsr \in Handlers /\ MainIsr \in Contexts
      /\ pc' \in [Contexts -> MainLabels \cup IsrLabels] /\ pc'[Main] = pc[Main]
      /\ pc'[MainIsr] = "read" /\ \A d \in Contexts \ {MainIsr} : pc'[d] = pc[d]
      /\ pc[ProxyIsr] = "idle" /\ pc'[ProxyIsr] = "idle"
      /\ \A c \in Contexts : c > ProxyIsr => pc'[c] = "idle"
      /\ ~ Settled /\ ~ Settled'
      /\ timer.on /\ loaded.now # 0 /\ primask = 0 /\ timer.rst \in Rsts
      /\ pc[Main] \notin {"readCnt", "check", "readAgain", "restore", "idle"}
      /\ \A d \in Handlers : d # MainIsr => pc[d] = "idle" /\ pc'[d] = "idle"
  BY <1>1, <1>2, HandlerMoves
<1>4. /\ batch \in [Contexts -> Batches] /\ batch[MainIsr] \in Batches
      /\ Then(MainIsr) = "top" /\ "proxy" \notin enabled /\ readyToRun \in Nat
  BY <1>1, <1>3 DEF ScheduleInv, ScheduleTypes, Labels, Arming, Then
<1> DEFINE r == [batch[MainIsr] EXCEPT !.then = "enable"]
<1>5. batch' = [batch EXCEPT ![MainIsr] = r]
  BY DEF ComputeThresholds
<1>6. r \in Batches /\ r.then = "enable"
  BY <1>4 DEF Batches
<1> HIDE DEF r
<1>7. /\ batch' \in [Contexts -> Batches] /\ batch'[MainIsr] = r
      /\ \A d \in Contexts \ {MainIsr} : batch'[d] = batch[d]
  BY <1>3, <1>4, <1>5, <1>6, BatchSet
<1>8. Then(MainIsr)' = "enable"
  BY <1>6, <1>7 DEF Then
<1>9. RtiEnds /\ Ending /\ ~ Ending' /\ MainActive /\ MainActive' /\ (Due' <=> Due)
  BY <1>1, <1>3, <1>4, <1>8 DEF Due, RtiEnds, Ending, MainActive, Then
<1>10. "main" \notin pending /\ timer.cnt # 0 /\ ~ RtiEnds'
  <2>1. "main" \notin pending /\ timer.cnt # 0
    BY <1>9 DEF ScheduleInv, Clock
  <2> QED
    BY <1>1, <1>8, <2>1 DEF RtiEnds, Then
<1>11. rstValue = loaded.now /\ rstValue \in Rsts
  BY <1>3, <1>9 DEF ScheduleInv, Bases
<1>12. /\ thresholds' \in [Clients -> Nat]
       /\ \A i \in Clients :
            thresholds'[i] = loaded'.now - TriggerMicros[i] * CyclesPerMicro
  <2>1. thresholds' \in [Clients -> Nat]
    BY <1>1, <1>11, ThresholdsFit
  <2>2. loaded' = loaded
    BY <1>1
  <2> QED
    BY <1>1, <1>11, <2>1, <2>2
<1>13. ScheduleTypes'
  BY <1>1, <1>4, <1>7, <1>12 DEF ScheduleInv, ScheduleTypes
<1>14. Labels'
  BY <1>1, <1>3, <1>8, <1>7 DEF ScheduleInv, Labels, Then, BatchLabels, IsrLabels
<1>15. Masked'
  BY <1>1, <1>3 DEF ScheduleInv, Masked, TimeLabels
<1>16. Cycles'
  BY <1>1, <1>4, <1>10 DEF Cycles
<1>17. Clock'
  BY <1>1, <1>3, <1>9 DEF ScheduleInv, Clock
<1>18. Bases'
  BY <1>1, <1>3, <1>9 DEF ScheduleInv, Bases
<1>19. \A d \in Handlers : /\ pc[d] # "batch" /\ pc[d] # "clear"
                           /\ pc'[d] # "batch" /\ pc'[d] # "clear"
  BY <1>3
<1>20. InTime'
  BY <1>3, <1>12, <1>19 DEF InTime
<1>21. Serving'
  BY <1>1, <1>3, <1>19 DEF ScheduleInv, Serving, Served
<1>22. Arming'
  BY <1>1, <1>3, <1>4, <1>8 DEF Arming, BatchLabels
<1> QED
  BY <1>13, <1>14, <1>15, <1>16, <1>17, <1>18, <1>20, <1>21, <1>22 DEF ScheduleInv

\* The proxy's interrupt is switched on if a client is left.
LEMMA EnableKeepsInv ==
  ASSUME ScheduleInv, EnableProxy, ~ fatal, UNCHANGED <<mainLoopVars, cycleRti>>
  PROVE  ScheduleInv'
<1> USE Constants
<1>1. /\ At(MainIsr, "enable") /\ pc' = [pc EXCEPT ![MainIsr] = "idle"]
      /\ enabled' = IF index <= NumClients THEN enabled \cup {"proxy"} ELSE enabled
      /\ batch' = [batch EXCEPT ![MainIsr] = NoBatch]
      /\ UNCHANGED <<timer, pending, index, fired, thresholds, offsetBase,
                     rtiIndex, previous, rstValue, failed, loopAway>>
  BY DEF EnableProxy, Proceeds, Goto, KeepsTime, mainLoopVars, loopAway
<1>2. "enable" \in IsrLabels \ {"idle"} /\ "idle" \in IsrLabels
  BY DEF IsrLabels
<1>3. /\ pc[MainIsr] = "enable" /\ MainIsr \in Handlers /\ MainIsr \in Contexts
      /\ pc' \in [Contexts -> MainLabels \cup IsrLabels] /\ pc'[Main] = pc[Main]
      /\ pc'[MainIsr] = "idle" /\ \A d \in Contexts \ {MainIsr} : pc'[d] = pc[d]
      /\ pc[ProxyIsr] = "idle" /\ pc'[ProxyIsr] = "idle"
      /\ \A c \in Contexts : c > ProxyIsr => pc'[c] = "idle"
      /\ ~ Settled /\ Settled'
      /\ timer.on /\ loaded.now # 0 /\ primask = 0 /\ timer.rst \in Rsts
      /\ pc[Main] \notin {"readCnt", "check", "readAgain", "restore", "idle"}
      /\ \A d \in Handlers : d # MainIsr => pc[d] = "idle" /\ pc'[d] = "idle"
  BY <1>1, <1>2, HandlerMoves
<1>4. NoBatch \in Batches /\ NoBatch.then = "idle"
  <2>1. 1 \in 1 .. NumClients + 1
    OBVIOUS
  <2> QED
    BY <2>1 DEF NoBatch, Batches
<1>5. /\ batch' \in [Contexts -> Batches] /\ batch'[MainIsr] = NoBatch
      /\ \A d \in Contexts \ {MainIsr} : batch'[d] = batch[d]
  BY <1>1, <1>3, <1>4, BatchSet DEF ScheduleInv, ScheduleTypes
<1>6. Then(MainIsr) = "enable" /\ Then(MainIsr)' = "idle"
  BY <1>3, <1>4, <1>5 DEF ScheduleInv, Labels, Then
<1>7. /\ MainActive /\ ~ MainActive' /\ ~ Ending /\ ~ Ending'
      /\ (Due' <=> Due) /\ (RtiEnds' <=> RtiEnds)
  BY <1>1, <1>3, <1>6 DEF Due, RtiEnds, Ending, MainActive, Then
<1>8. \A d \in Handlers : /\ pc[d] \notin BatchLabels /\ pc'[d] \notin BatchLabels
                          /\ pc[d] # "batch" /\ pc[d] # "clear"
                          /\ pc'[d] # "batch" /\ pc'[d] # "clear"
  BY <1>3 DEF BatchLabels
<1>9. /\ enabled' \subseteq {"main", "proxy"}
      /\ "main" \in enabled' <=> "main" \in enabled
  BY <1>1 DEF ScheduleInv, ScheduleTypes
<1>10. ScheduleTypes'
  BY <1>1, <1>5, <1>9 DEF ScheduleInv, ScheduleTypes, loopAway
<1>11. Labels'
  BY <1>1, <1>3, <1>5, <1>6
  DEF ScheduleInv, Labels, Then, BatchLabels, IsrLabels, loopAway
<1>12. Masked' /\ Cycles'
  BY <1>1, <1>3, <1>7, LoopKept
<1>13. Clock'
  BY <1>1, <1>3, <1>7, <1>9 DEF ScheduleInv, Clock, loopAway
<1>14. Bases'
  BY <1>1, <1>3, <1>7 DEF ScheduleInv, Bases, loopAway
<1>15. InTime'
  BY <1>1, <1>3, <1>7, <1>8 DEF ScheduleInv, InTime, loopAway
<1>16. Serving'
  BY <1>1, <1>3, <1>8 DEF ScheduleInv, Serving, Served
<1>17. Arming'
  BY <1>1, <1>3, <1>6, <1>8 DEF ScheduleInv, Arming
<1> QED
  BY <1>10, <1>11, <1>12, <1>13, <1>14, <1>15, <1>16, <1>17 DEF ScheduleInv

-----------------------------------------------------------------------------
(***************************************************************************)
(* Time.                                                                   *)
(***************************************************************************)
\* The main timer counts, interrupts at 0 and reloads.
LEMMA ElapseKeepsInv ==
  ASSUME ScheduleInv, Elapse
  PROVE  ScheduleInv'
<1> USE Constants
<1> DEFINE n == IF timer.cnt = 0 THEN timer.rst ELSE timer.cnt - 1
<1>1. /\ timer.on /\ timer' = [timer EXCEPT !.cnt = n]
      /\ timer.cnt = 1 =>
           "main" \notin pending /\ ~ MainActive /\ readyToRun < MaxMissed
      /\ pending' = pending \cup (IF n = 0 THEN {"main"} ELSE {})
                            \cup (IF n < timer.pwma THEN {"proxy"} ELSE {})
      /\ UNCHANGED <<pc, primask, saved, enabled, proxyIsr, index, thresholds,
                     offsetBase, rtiIndex, previous, batch, rstValue, cntValue, failed,
                     fired, readyToRun, fatal, cycleRti>>
  BY DEF Elapse, Tick, mainLoopVars, cpuVars
<1>2. loaded' = IF timer.cnt = 0 THEN [now |-> timer.rst, before |-> loaded.now]
                ELSE loaded
  BY DEF Elapse, Tick
<1>3. /\ timer \in Times /\ timer.cnt \in Nat /\ timer.rst \in Nat /\ timer.rst >= 1
      /\ loaded \in [now : Nat, before : Nat] /\ loaded.now \in Nat
      /\ pending \subseteq {"main", "proxy"}
  BY <1>1, RstPositive DEF ScheduleInv, ScheduleTypes, Clock, Times
<1>4. n \in Nat
  BY <1>3
<1>5. /\ timer' \in Times /\ timer'.on = timer.on /\ timer'.cnt = n
      /\ timer'.rst = timer.rst /\ timer'.pwma = timer.pwma
  BY <1>1, <1>3, <1>4 DEF Times
<1>6. /\ pending' \subseteq {"main", "proxy"}
      /\ "main" \in pending' <=> "main" \in pending \/ n = 0
  BY <1>1, <1>3
<1>7. /\ timer.cnt = 0 => n = timer.rst /\ n # 0
      /\ timer.cnt = 1 => n = 0
      /\ timer.cnt # 0 => n = timer.cnt - 1 /\ n < timer.cnt
      /\ timer.cnt # 0 /\ timer.cnt # 1 => n # 0
  BY <1>3
<1> HIDE DEF n
<1>8. timer.cnt = 0 => "main" \in pending /\ ~ MainActive
  BY <1>1 DEF ScheduleInv, Clock
<1>9. /\ Ending => MainActive
      /\ pc[MainIsr] \in {"disable", "advance"} => MainActive
  BY DEF ScheduleInv, Labels, Ending, MainActive, Then
<1>10. /\ (MainActive' <=> MainActive) /\ (Ending' <=> Ending) /\ (Settled' <=> Settled)
       /\ \A c \in Handlers : Then(c)' = Then(c)
  BY <1>1 DEF MainActive, Ending, Settled, Then
<1>11. /\ (RtiEnds' <=> RtiEnds \/ timer.cnt = 1)
       /\ (Due' <=> Due \/ timer.cnt = 1)
       /\ timer.cnt = 1 => ~ Due
       /\ timer.cnt = 0 => Due /\ RtiEnds
  <2>1. "main" \in pending' <=> "main" \in pending \/ timer.cnt = 1
    BY <1>6, <1>7, <1>8
  <2> QED
    BY <1>1, <1>8, <1>9, <1>10, <2>1 DEF RtiEnds, Due
<1>12. /\ loaded' \in [now : Nat, before : Nat]
       /\ timer.cnt = 0 => loaded'.now = timer.rst /\ loaded'.before = loaded.now
       /\ timer.cnt # 0 => loaded' = loaded
  BY <1>2, <1>3
<1>13. ScheduleTypes'
  BY <1>1, <1>5, <1>6, <1>12 DEF ScheduleInv, ScheduleTypes
<1>14. Labels'
  BY <1>1 DEF ScheduleInv, Labels, Then
<1>15. Masked'
  BY <1>1, <1>10 DEF ScheduleInv, Masked
<1>16. Clock'
  <2>1. CASE timer.cnt = 0
    BY <1>1, <1>3, <1>5, <1>7, <1>8, <1>10, <1>12, <2>1 DEF ScheduleInv, Clock
  <2>2. CASE timer.cnt # 0
    BY <1>1, <1>3, <1>4, <1>5, <1>6, <1>7, <1>10, <1>12, <2>2
    DEF ScheduleInv, Clock
  <2> QED
    BY <2>1, <2>2
<1>17. Bases'
  <2>1. CASE timer.cnt = 0
    BY <1>1, <1>5, <1>6, <1>7, <1>8, <1>9, <1>10, <1>11, <1>12, <2>1
    DEF ScheduleInv, Bases
  <2>2. CASE timer.cnt # 0
    BY <1>1, <1>3, <1>5, <1>6, <1>7, <1>10, <1>11, <1>12, <2>2
    DEF ScheduleInv, Bases
  <2> QED
    BY <2>1, <2>2
<1>18. InTime'
  <2>1. CASE timer.cnt = 0
    BY <1>1, <1>8, <1>9, <1>10, <1>11, <2>1
    DEF InTime, Ending, MainActive, ScheduleInv, Labels
  <2>2. CASE timer.cnt # 0
    <3>1. \A c \in Handlers : batch[c].until \in Nat
      BY DEF ScheduleInv, ScheduleTypes, Batches
    <3>2. \A c \in Handlers : timer.cnt <= batch[c].until => n <= batch[c].until
      BY <1>3, <1>4, <1>7, <2>2, <3>1
    <3> QED
      BY <1>1, <1>5, <1>10, <1>11, <1>12, <2>2, <3>2 DEF ScheduleInv, InTime
  <2> QED
    BY <2>1, <2>2
<1>19. Serving'
  BY <1>1, <1>5 DEF ScheduleInv, Serving, Served
<1>20. Arming'
  BY <1>1, <1>5, <1>10 DEF ScheduleInv, Arming
<1>21. Cycles'
  BY <1>1, <1>10, <1>11 DEF ScheduleInv, Cycles
<1> QED
  BY <1>13, <1>14, <1>15, <1>16, <1>17, <1>18, <1>19, <1>20, <1>21 DEF ScheduleInv

-----------------------------------------------------------------------------
(***************************************************************************)
(* The specification.                                                      *)
(***************************************************************************)
\* The metronome is off and no RTI has begun.
LEMMA ScheduleStarts == ASSUME ScheduleInit PROVE ScheduleInv
<1> USE Constants
<1>1. /\ pc = [c \in Contexts |-> "idle"] /\ primask = 0
      /\ saved = [c \in Contexts |-> 0]
      /\ timer = [on |-> FALSE, cnt |-> 0, rst |-> 0, pwma |-> 0]
      /\ pending = {} /\ enabled = {} /\ proxyIsr \in Handlers
      /\ index = NumClients + 1 /\ thresholds = [i \in Clients |-> 0]
      /\ offsetBase = 0 /\ rtiIndex = 0 /\ previous = 0
      /\ batch = [c \in Contexts |-> NoBatch] /\ rstValue = 0 /\ cntValue = 0
      /\ failed = "none" /\ loaded = [now |-> 0, before |-> 0]
      /\ fired = [i \in Clients |-> 1] /\ readyToRun = 0
  BY DEF ScheduleInit, CpuInit, MetronomeInit, MainLoopInit, Handlers
<1>2. NoBatch \in Batches
  <2>1. 1 \in 1 .. NumClients + 1
    OBVIOUS
  <2> QED
    BY <2>1 DEF NoBatch, Batches
<1>3. (0 + 1) \div CyclesPerMicro = 0
  OBVIOUS
<1>4. \A c \in Contexts : pc[c] = "idle"
  BY <1>1
<1>5. ~ Due /\ ~ RtiEnds /\ ~ Ending /\ ~ MainActive /\ Settled
  BY <1>1, <1>4 DEF Due, RtiEnds, Ending, MainActive, Settled
<1>6. NumClients + 1 \in 1 .. NumClients + 1
  OBVIOUS
<1>7. ScheduleTypes
  BY <1>1, <1>2, <1>6 DEF ScheduleTypes, Times
<1>8. Labels
  <2>1. pc \in [Contexts -> MainLabels \cup IsrLabels]
    BY <1>1 DEF MainLabels
  <2> QED
    BY <1>4, <2>1 DEF Labels, MainLabels, IsrLabels, BatchLabels
<1>9. Masked /\ Clock /\ Bases /\ Cycles
  BY <1>1, <1>3, <1>4, <1>5 DEF Masked, Clock, Bases, Cycles, TimeLabels
<1>10. InTime /\ Serving /\ Arming
  BY <1>1, <1>4, <1>5 DEF InTime, Serving, Served, Arming, BatchLabels
<1> QED
  BY <1>7, <1>8, <1>9, <1>10 DEF ScheduleInv

\* Every step keeps the invariant.
LEMMA ScheduleSteps ==
  ASSUME ScheduleInv, [ScheduleNext]_scheduleVars
  PROVE  ScheduleInv'
<1>1. CASE Boot
  BY <1>1, BootKeepsInv
<1>2. CASE Loop
  BY <1>2, LoopKeepsInv
<1>3. CASE Call
  <2>1. ~ fatal /\ UNCHANGED <<mainLoopVars, cycleRti>>
    BY <1>3 DEF Call
  <2>2. CASE UpdateDuration
    BY <1>3, <2>1, <2>2, UpdateKeepsInv
  <2>3. CASE TimeStep
    BY <1>3, <2>1, <2>3, TimeKeepsInv
  <2> QED
    BY <1>3, <2>2, <2>3 DEF Call
<1>4. CASE Handle
  <2>1. ~ fatal /\ UNCHANGED cycleRti
    BY <1>4 DEF Handle
  <2>2. CASE IsrStep /\ UNCHANGED mainLoopVars
    <3>1. UNCHANGED <<mainLoopVars, cycleRti>>
      BY <2>1, <2>2
    <3>2. CASE \E c \in {MainIsr, MainIsr + 1} : BatchStep(c)
      <4>1. PICK c \in Handlers : BatchStep(c)
        BY <3>2 DEF Handlers, ProxyIsr
      <4> QED
        BY <2>1, <3>1, <4>1, TriggerKeepsInv, ScheduleClientKeepsInv, ClearKeepsInv,
           NoMoreKeepsInv, ReadKeepsInv DEF BatchStep
    <3> QED
      BY <2>1, <2>2, <3>1, <3>2, ProxyKeepsInv, MainTimerKeepsInv, DisableKeepsInv,
         AdvanceKeepsInv, TopKeepsInv, EnableKeepsInv DEF IsrStep
  <2>3. CASE ComputeThresholds /\ StartRti
    BY <2>1, <2>3, StartKeepsInv
  <2> QED
    BY <1>4, <2>2, <2>3 DEF Handle
<1>5. CASE Elapse
  BY <1>5, ElapseKeepsInv
<1>6. CASE UNCHANGED scheduleVars
  <2>1. UNCHANGED <<pc, primask, saved, timer, pending, enabled, proxyIsr, index,
                    thresholds, offsetBase, rtiIndex, previous, batch, rstValue,
                    cntValue, failed, loaded, fired, readyToRun, fatal, cycleRti>>
    BY <1>6 DEF scheduleVars, cpuVars, metronomeVars, mainLoopVars
  <2>2. /\ (MainActive' <=> MainActive) /\ (Ending' <=> Ending)
        /\ (Settled' <=> Settled) /\ (Due' <=> Due) /\ (RtiEnds' <=> RtiEnds)
    BY <2>1 DEF MainActive, Ending, Settled, Due, RtiEnds, Then
  <2>3. ScheduleTypes' /\ Labels' /\ Masked' /\ Clock'
    BY <2>1, <2>2 DEF ScheduleInv, ScheduleTypes, Labels, Masked, Clock, Then
  <2>4. Bases' /\ InTime' /\ Serving' /\ Arming' /\ Cycles'
    BY <2>1, <2>2
    DEF ScheduleInv, Bases, InTime, Serving, Served, Arming, Cycles, Then
  <2> QED
    BY <2>3, <2>4 DEF ScheduleInv
<1> QED
  BY <1>1, <1>2, <1>3, <1>4, <1>5, <1>6 DEF ScheduleNext

\* The invariant of the schedule.
THEOREM ScheduleInvariance == ScheduleSpec => []ScheduleInv
<1>1. ScheduleInit => ScheduleInv
  BY ScheduleStarts
<1>2. ScheduleInv /\ [ScheduleNext]_scheduleVars => ScheduleInv'
  BY ScheduleSteps
<1> QED
  BY <1>1, <1>2, PTL DEF ScheduleSpec

-----------------------------------------------------------------------------
(***************************************************************************)
(* Properties.                                                             *)
(***************************************************************************)
\* At any moment there is a number of clients, the first ones, that were called.
LEMMA SomeServed ==
  ASSUME ScheduleInv
  PROVE  \E k \in Nat : Served(k) /\ (pc[MainIsr] = "top" => k = NumClients + 1)
<1> USE Constants
<1>1. /\ index \in Nat /\ \A c \in Handlers : batch[c].index \in Nat
      /\ NumClients + 1 \in Nat
  BY DEF ScheduleInv, ScheduleTypes, Batches
<1>2. CASE \E c \in Handlers : pc[c] \in {"batch", "clear"}
  <2>1. PICK c \in Handlers : pc[c] \in {"batch", "clear"}
    BY <1>2
  <2>2. Served(batch[c].index)
    BY <2>1 DEF ScheduleInv, Serving
  <2>3. pc[MainIsr] # "top"
    BY <2>1 DEF ScheduleInv, Labels
  <2> QED
    BY <1>1, <2>2, <2>3
<1>3. CASE \A c \in Handlers : pc[c] \notin {"batch", "clear"}
  BY <1>1, <1>3 DEF ScheduleInv, Serving
<1> QED
  BY <1>2, <1>3

\* In every RTI each client is called once, in the order of their times, before the
\* next begins, however late the handlers come and whatever the proxy interrupts.
THEOREM EachClientOncePerRti == ScheduleSpec => []ClientsOncePerRti
<1>1. ScheduleInv => ClientsOncePerRti
  <2> SUFFICES ASSUME ScheduleInv PROVE ClientsOncePerRti
    OBVIOUS
  <2> USE Constants
  <2>1. PICK k \in Nat : Served(k) /\ (pc[MainIsr] = "top" => k = NumClients + 1)
    BY SomeServed
  <2>2. \A i, j \in Clients : i <= j => fired[i] >= fired[j] /\ fired[i] <= 1
    BY <2>1 DEF Served
  <2>3. pc[MainIsr] = "top" => \A i \in Clients : fired[i] = 1
    BY <2>1 DEF Served
  <2> QED
    BY <2>2, <2>3 DEF ClientsOncePerRti
<1> QED
  BY <1>1, ScheduleInvariance, PTL

\* When the handlers are done the proxy timer is set for the next client, or its
\* interrupt is off for want of one.
THEOREM ProxyIsArmed == ScheduleSpec => []ProxyArmed
<1>1. ScheduleInv => ProxyArmed
  <2> SUFFICES ASSUME ScheduleInv, Settled PROVE ProxyArmed
    BY DEF ProxyArmed
  <2> USE Constants
  <2>1. /\ index \in 1 .. NumClients + 1 /\ enabled \subseteq {"main", "proxy"}
    BY DEF ScheduleInv, ScheduleTypes
  <2>2. \A c \in Handlers : pc[c] \notin {"batch", "clear"}
    BY DEF Settled
  <2>3. \A i \in Clients : fired[i] = 1 <=> i < index
    BY <2>1, <2>2 DEF ScheduleInv, Serving, Served
  <2>4. CASE index > NumClients
    BY <2>1, <2>4 DEF ScheduleInv, Arming, ProxyArmed
  <2>5. CASE ~ (index > NumClients)
    BY <2>1, <2>3, <2>5 DEF ScheduleInv, Arming, ProxyArmed
  <2> QED
    BY <2>4, <2>5
<1> QED
  BY <1>1, ScheduleInvariance, PTL

\* The duration that the handler reads back is the one the timer has reloaded, though
\* update_duration may have written another: the question at Metronome.cpp:171.
THEOREM DurationsAlwaysAgree == ScheduleSpec => []DurationsAgree
<1>1. ScheduleInv => DurationsAgree
  BY DEF ScheduleInv, Bases, DurationsAgree, Due
<1> QED
  BY <1>1, ScheduleInvariance, PTL

\* The assertions that all clients are done when an RTI begins, and that the first
\* count read is within the RTI, never fail (Metronome.cpp:151 and :188).
THEOREM BatchesAlwaysComplete == ScheduleSpec => []BatchesComplete
<1>1. ScheduleInv => BatchesComplete
  BY DEF ScheduleInv, ScheduleTypes, BatchesComplete
<1> QED
  BY <1>1, ScheduleInvariance, PTL

\* Only TriggerClient calls a client.
LEMMA CalledByBatch ==
  ASSUME ScheduleInv, ScheduleNext, NEW i \in Clients, fired'[i] > fired[i]
  PROVE  \E c \in Handlers : TriggerClient(c) /\ batch[c].index = i
<1>1. fired \in [Clients -> {0, 1}] /\ fired[i] \in {0, 1}
  BY DEF ScheduleInv, ScheduleTypes
<1>2. fired' # fired
  BY <1>1
<1>3. ~ TopOfRti
  <2> SUFFICES ASSUME TopOfRti PROVE FALSE
    OBVIOUS
  <2>1. fired'[i] = 0
    BY DEF TopOfRti
  <2> QED
    BY <1>1, <2>1
<1>4. ~ Boot /\ ~ Loop /\ ~ Elapse
  BY <1>2 DEF Boot, StartMetronome, Loop, metronomeVars, Elapse, Tick
<1>5. ~ Call
  BY <1>2 DEF Call, UpdateDuration, TimeStep, GetRtiTime, LockTime, ReadFirstCnt,
              CheckFirstCnt, ReadRtiTime, ReadsTime
<1>6. ~ ProxyTimerIsr /\ ~ MainTimerIsr /\ ~ DisableProxy /\ ~ AdvanceRti
      /\ ~ EnableProxy /\ ~ ComputeThresholds
  BY <1>2 DEF ProxyTimerIsr, MainTimerIsr, EnterIsr, DisableProxy, AdvanceRti,
              EnableProxy, ComputeThresholds
<1>7. PICK c \in Handlers : BatchStep(c)
  BY <1>3, <1>4, <1>5, <1>6 DEF ScheduleNext, Handle, IsrStep, Handlers, ProxyIsr
<1>8. TriggerClient(c)
  BY <1>2, <1>7 DEF BatchStep, ScheduleClient, ClearProxy, NoMoreClients, ReadCnt
<1>9. fired' = [fired EXCEPT ![batch[c].index] = @ + 1]
  BY <1>8 DEF TriggerClient
<1>10. batch[c].index = i
  BY <1>1, <1>9
<1> QED
  BY <1>8, <1>10

\* No client is called before its time in the RTI, whatever update_duration has
\* written since it began.
THEOREM NoClientBeforeItsTime == ScheduleSpec => NotBeforeItsTime
<1>1. ASSUME ScheduleInv, [ScheduleNext]_scheduleVars, NEW i \in Clients,
             fired'[i] > fired[i]
      PROVE  RtiEnds \/ loaded.now - timer.cnt >= TriggerMicros[i] * CyclesPerMicro
  <2> USE Constants
  <2>1. fired' # fired
    <3>1. fired[i] \in {0, 1}
      BY <1>1 DEF ScheduleInv, ScheduleTypes
    <3> QED
      BY <1>1, <3>1
  <2>2. ScheduleNext
    BY <1>1, <2>1 DEF scheduleVars, metronomeVars
  <2>3. PICK c \in Handlers : TriggerClient(c) /\ batch[c].index = i
    BY <1>1, <2>2, CalledByBatch
  <2>4. pc[c] = "batch" /\ batch[c].until <= thresholds[i]
    BY <2>3 DEF TriggerClient, Proceeds, At, Reached
  <2>5. CASE ~ RtiEnds
    <3> DEFINE q == TriggerMicros[i] * CyclesPerMicro
    <3>1. /\ timer.cnt \in Nat /\ batch[c].until \in Nat /\ thresholds[i] \in Nat
          /\ loaded.now \in Nat /\ index \in Nat
      BY <1>1 DEF ScheduleInv, ScheduleTypes, Times, Batches
    <3>2. index <= NumClients
      <4>1. index <= i
        BY <1>1, <2>3, <2>4 DEF ScheduleInv, Serving
      <4> QED
        BY <3>1, <4>1
    <3>3. thresholds[i] = loaded.now - q /\ timer.cnt <= batch[c].until
      BY <1>1, <2>4, <2>5, <3>2 DEF ScheduleInv, InTime
    <3>4. q \in Nat
      BY DEF Clients
    <3> HIDE DEF q
    <3>5. loaded.now - timer.cnt >= q
      BY <2>4, <3>1, <3>3, <3>4
    <3> QED
      BY <3>5 DEF q
  <2> QED
    BY <2>5
<1>2. ScheduleInv /\ [ScheduleNext]_scheduleVars =>
        [\A i \in Clients : fired'[i] > fired[i] =>
           RtiEnds \/ loaded.now - timer.cnt >= TriggerMicros[i] * CyclesPerMicro
          ]_<<cpuVars, metronomeVars>>
  BY <1>1
<1> QED
  BY <1>2, ScheduleInvariance, PTL DEF ScheduleSpec, NotBeforeItsTime

\* A cycle that passes the check at its end has run within the RTI it was begun for.
THEOREM CyclesWithinTheirRti == ScheduleSpec => CycleWithinRti
<1>1. ASSUME ScheduleInv, EnsureRtiNotElapsed, ~ fatal'
      PROVE  rtiIndex = cycleRti
  <2>1. Executes(Main) /\ pc[Main] = "cycle" /\ ~ fatal /\ readyToRun = 0
    BY <1>1 DEF EnsureRtiNotElapsed, Runs, At
  <2>2. ~ Ending
    BY <1>1, <2>1, MainAlone
  <2> QED
    BY <1>1, <2>1, <2>2 DEF ScheduleInv, Cycles
<1>2. ScheduleInv /\ [ScheduleNext]_scheduleVars =>
        [EnsureRtiNotElapsed /\ ~ fatal' => rtiIndex = cycleRti]_scheduleVars
  BY <1>1
<1> QED
  BY <1>2, ScheduleInvariance, PTL DEF ScheduleSpec, CycleWithinRti

-----------------------------------------------------------------------------
(***************************************************************************)
(* Refinement: the loop as the MainLoop has it, with an RTI that may begin *)
(* between any two of its steps.                                           *)
(***************************************************************************)
LoopPc == [c \in Contexts |->
             IF c # Main THEN "idle" ELSE IF InCall THEN "cycle" ELSE pc[Main]]
LoopPrimask == IF InCall THEN 0 ELSE primask
LoopSaved == [c \in Contexts |-> 0]

\* Nothing masks the interrupts of the MainLoop.
LEMMA LoopUnmasked == ASSUME ScheduleInv PROVE LoopPrimask = 0
BY DEF ScheduleInv, ScheduleTypes, Masked, LoopPrimask, InCall

\* Nor after a step.
LEMMA LoopUnmaskedNext == ASSUME ScheduleInv' PROVE LoopPrimask' = 0
BY DEF ScheduleInv, ScheduleTypes, Masked, LoopPrimask, InCall

\* What the MainLoop's program counter is of, before and after a step.
LEMMA LoopAt ==
  /\ LoopPc[Main] = IF InCall THEN "cycle" ELSE pc[Main]
  /\ \A c \in Contexts : c # Main => LoopPc[c] = "idle"
  /\ LoopPc'[Main] = IF InCall' THEN "cycle" ELSE pc'[Main]
  /\ \A c \in Contexts : c # Main => LoopPc'[c] = "idle"
BY Constants DEF LoopPc

\* The loop goes where the code goes.
LEMMA LoopGoes ==
  ASSUME ScheduleInv, NEW l \in MainLabels \ TimeLabels,
         pc' = [pc EXCEPT ![Main] = l]
  PROVE  LoopPc' = [LoopPc EXCEPT ![Main] = l]
<1>1. pc'[Main] = l /\ l \notin TimeLabels
  BY Constants DEF ScheduleInv, Labels
<1>2. ~ InCall'
  BY <1>1 DEF InCall, TimeLabels
<1>3. LoopPc' = [c \in Contexts |-> IF c # Main THEN "idle" ELSE l]
  BY <1>1, <1>2 DEF LoopPc
<1>4. [LoopPc EXCEPT ![Main] = l] = [c \in Contexts |-> IF c # Main THEN "idle" ELSE l]
  BY Constants DEF LoopPc
<1> QED
  BY <1>3, <1>4

\* A step that leaves the main context where it is, or goes on in a call, is none of
\* the MainLoop.
LEMMA LoopStays ==
  ASSUME ScheduleInv, ScheduleInv',
         \/ pc'[Main] = pc[Main]
         \/ /\ pc[Main] \in {"cycle"} \cup TimeLabels
            /\ pc'[Main] \in {"cycle"} \cup TimeLabels
  PROVE  UNCHANGED <<LoopPc, LoopPrimask, LoopSaved>>
<1>1. UNCHANGED LoopPrimask
  BY LoopUnmasked, LoopUnmaskedNext
<1>2. (IF InCall THEN "cycle" ELSE pc[Main]) = (IF InCall' THEN "cycle" ELSE pc'[Main])
  BY DEF InCall, TimeLabels
<1>3. UNCHANGED LoopPc
  BY <1>2 DEF LoopPc
<1>4. UNCHANGED LoopSaved
  BY DEF LoopSaved
<1> QED
  BY <1>1, <1>3, <1>4

\* A step of the handlers moves one of them.
LEMMA HandlersOnly ==
  ASSUME ScheduleInv, IsrStep
  PROVE  \E c \in Handlers, l \in MainLabels \cup IsrLabels :
           pc' = pc \/ pc' = [pc EXCEPT ![c] = l]
<1> USE DEF MainLabels, IsrLabels, BatchLabels
<1>1. CASE ProxyTimerIsr \/ MainTimerIsr
  BY <1>1 DEF ProxyTimerIsr, MainTimerIsr, EnterIsr, ContextOf, Goto, ScheduleInv,
              ScheduleTypes, Handlers
<1>2. CASE DisableProxy \/ AdvanceRti \/ TopOfRti \/ EnableProxy
  BY <1>2 DEF DisableProxy, AdvanceRti, TopOfRti, EnableProxy, Goto, Handlers
<1>3. CASE \E c \in {MainIsr, MainIsr + 1} : BatchStep(c)
  <2>1. PICK c \in Handlers : BatchStep(c)
    BY <1>3 DEF Handlers, ProxyIsr
  <2>2. batch[c].then \in MainLabels \cup IsrLabels
    BY Constants DEF ScheduleInv, ScheduleTypes, Batches
  <2> QED
    BY <2>1, <2>2
    DEF BatchStep, TriggerClient, ScheduleClient, ClearProxy, NoMoreClients, ReadCnt,
        EndBatch, Goto
<1> QED
  BY <1>1, <1>2, <1>3 DEF IsrStep

\* Every step of the schedule is a step of the MainLoop or none.
LEMMA ScheduleStep ==
  ASSUME ScheduleInv, ScheduleInv', [ScheduleNext]_scheduleVars
  PROVE  \/ AloneLoop!MainLoopNext
         \/ UNCHANGED <<LoopPc, LoopPrimask, LoopSaved, mainLoopVars>>
<1> USE Constants
<1>1. LoopPrimask = 0 /\ LoopPrimask' = 0 /\ LoopSaved' = LoopSaved
  BY LoopUnmasked, LoopUnmaskedNext DEF LoopSaved
<1>2. \A c \in Contexts : c > Main => LoopPc[c] = "idle"
  BY LoopAt
<1>3. CASE Boot
  <2>1. /\ ~ fatal /\ pc[Main] = "idle" /\ pc' = [pc EXCEPT ![Main] = "count"]
        /\ spare' = 0 /\ UNCHANGED <<readyToRun, perf, snapshot, owed, fatal>>
    BY <1>3 DEF Boot, ResetVector, Runs, At, Goto
  <2>2. LoopPc' = [LoopPc EXCEPT ![Main] = "count"]
    BY <2>1, LoopGoes DEF MainLabels, TimeLabels
  <2>3. LoopPc[Main] = "idle"
    BY <2>1, LoopAt DEF InCall
  <2>4. AloneLoop!ResetVector
    BY <1>1, <1>2, <2>1, <2>2, <2>3
    DEF AloneLoop!ResetVector, AloneLoop!Runs, AloneLoop!At, AloneLoop!Executes,
        AloneLoop!Contexts, AloneLoop!Main, AloneLoop!Goto, Contexts, Main,
        LoopPc, LoopPrimask, LoopSaved
  <2> QED
    BY <2>4 DEF AloneLoop!MainLoopNext
<1>4. CASE Loop /\ CountSpare
  <2>1. /\ ~ fatal /\ pc[Main] = "count" /\ pc' = [pc EXCEPT ![Main] = "test"]
        /\ perf' = [perf EXCEPT !.counter = spare] /\ spare' = spare + 1
        /\ UNCHANGED <<readyToRun, snapshot, owed, fatal>>
    BY <1>4 DEF CountSpare, Runs, At, Goto
  <2>2. LoopPc' = [LoopPc EXCEPT ![Main] = "test"]
    BY <2>1, LoopGoes DEF MainLabels, TimeLabels
  <2>3. LoopPc[Main] = "count"
    BY <2>1, LoopAt DEF InCall
  <2>4. AloneLoop!CountSpare
    BY <1>1, <1>2, <2>1, <2>2, <2>3
    DEF AloneLoop!CountSpare, AloneLoop!Runs, AloneLoop!At, AloneLoop!Executes,
        AloneLoop!Contexts, AloneLoop!Main, AloneLoop!Goto, Contexts, Main,
        LoopPc, LoopPrimask, LoopSaved
  <2> QED
    BY <2>4 DEF AloneLoop!MainLoopNext, AloneLoop!MainLoopStep, AloneLoop!LoopStep
<1>5. CASE Loop /\ TestReady
  <2>1. PICK l \in {"count", "exchange"} :
          /\ ~ fatal /\ pc[Main] = "test" /\ pc' = [pc EXCEPT ![Main] = l]
          /\ \/ l = "count" /\ readyToRun = 0 /\ spare <= MaxSpare
             \/ l = "exchange" /\ readyToRun # 0
          /\ UNCHANGED mainLoopVars
    BY <1>5 DEF TestReady, Runs, At, Goto
  <2>2. LoopPc' = [LoopPc EXCEPT ![Main] = l]
    BY <2>1, LoopGoes DEF MainLabels, TimeLabels
  <2>3. LoopPc[Main] = "test"
    BY <2>1, LoopAt DEF InCall
  <2>4. AloneLoop!TestReady
    BY <1>1, <1>2, <2>1, <2>2, <2>3
    DEF AloneLoop!TestReady, AloneLoop!Runs, AloneLoop!At, AloneLoop!Executes,
        AloneLoop!Contexts, AloneLoop!Main, AloneLoop!Goto, AloneLoop!mainLoopVars,
        mainLoopVars, Contexts, Main, LoopPc, LoopPrimask, LoopSaved
  <2> QED
    BY <2>4 DEF AloneLoop!MainLoopNext, AloneLoop!MainLoopStep, AloneLoop!LoopStep
<1>6. CASE Loop /\ TakeRti
  <2>1. /\ ~ fatal /\ pc[Main] = "exchange" /\ pc' = [pc EXCEPT ![Main] = "cycle"]
        /\ readyToRun' = 0 /\ fatal' = (readyToRun # 1)
        /\ owed' = owed - 1 /\ spare' = 0
        /\ UNCHANGED <<perf, snapshot>>
    BY <1>6 DEF TakeRti, Runs, At, Goto
  <2>2. LoopPc' = [LoopPc EXCEPT ![Main] = "cycle"]
    BY <2>1, LoopGoes DEF MainLabels, TimeLabels
  <2>3. LoopPc[Main] = "exchange"
    BY <2>1, LoopAt DEF InCall
  <2>4. AloneLoop!TakeRti
    BY <1>1, <1>2, <2>1, <2>2, <2>3
    DEF AloneLoop!TakeRti, AloneLoop!Runs, AloneLoop!At, AloneLoop!Executes,
        AloneLoop!Contexts, AloneLoop!Main, AloneLoop!Goto, Contexts, Main,
        LoopPc, LoopPrimask, LoopSaved
  <2> QED
    BY <2>4 DEF AloneLoop!MainLoopNext, AloneLoop!MainLoopStep, AloneLoop!LoopStep
<1>7. CASE Loop /\ EnsureRtiNotElapsed
  <2>1. /\ ~ fatal /\ pc[Main] = "cycle" /\ pc' = [pc EXCEPT ![Main] = "count"]
        /\ fatal' = (readyToRun # 0)
        /\ UNCHANGED <<readyToRun, perf, spare, snapshot, owed>>
    BY <1>7 DEF EnsureRtiNotElapsed, Runs, At, Goto
  <2>2. LoopPc' = [LoopPc EXCEPT ![Main] = "count"]
    BY <2>1, LoopGoes DEF MainLabels, TimeLabels
  <2>3. LoopPc[Main] = "cycle"
    BY <2>1, LoopAt DEF InCall
  <2>4. AloneLoop!EnsureRtiNotElapsed
    BY <1>1, <1>2, <2>1, <2>2, <2>3
    DEF AloneLoop!EnsureRtiNotElapsed, AloneLoop!Runs, AloneLoop!At, AloneLoop!Executes,
        AloneLoop!Contexts, AloneLoop!Main, AloneLoop!Goto, Contexts, Main,
        LoopPc, LoopPrimask, LoopSaved
  <2> QED
    BY <2>4 DEF AloneLoop!MainLoopNext, AloneLoop!MainLoopStep, AloneLoop!LoopStep
<1>8. CASE Loop /\ (GetFirstCounts \/ GetOtherCounts)
  <2>1. pc[Main] \in {"getFirst", "getRest"}
    BY <1>8 DEF GetFirstCounts, GetOtherCounts, Runs, At
  <2> QED
    BY <2>1 DEF ScheduleInv, Labels, MainLabels, TimeLabels
<1>9. CASE Call
  <2>1. \/ pc'[Main] = pc[Main]
        \/ /\ pc[Main] \in {"cycle"} \cup TimeLabels
           /\ pc'[Main] \in {"cycle"} \cup TimeLabels
    <3>1. CASE UpdateDuration
      BY <3>1 DEF UpdateDuration, cpuVars
    <3>2. CASE TimeStep
      <4>1. PICK l \in {"cycle"} \cup TimeLabels : pc' = [pc EXCEPT ![Main] = l]
        BY <3>2
        DEF TimeStep, GetRtiTime, LockTime, ReadFirstCnt, CheckFirstCnt, ReadRtiTime,
            SavePrimask, MaskInterrupts, RestoreInterrupts, Goto, TimeLabels
      <4>2. pc[Main] \in {"cycle"} \cup TimeLabels
        BY <3>2
        DEF TimeStep, GetRtiTime, LockTime, ReadFirstCnt, CheckFirstCnt, ReadRtiTime,
            SavePrimask, MaskInterrupts, RestoreInterrupts, Proceeds, At, TimeLabels
      <4>3. pc'[Main] = l
        BY <4>1 DEF ScheduleInv, Labels
      <4> QED
        BY <4>2, <4>3
    <3> QED
      BY <1>9, <3>1, <3>2 DEF Call
  <2> QED
    BY <1>9, <2>1, LoopStays DEF Call
<1>10. CASE Handle /\ IsrStep /\ UNCHANGED mainLoopVars
  <2>1. PICK c \in Handlers, l \in MainLabels \cup IsrLabels :
          pc' = pc \/ pc' = [pc EXCEPT ![c] = l]
    BY <1>10, HandlersOnly
  <2>2. pc'[Main] = pc[Main]
    BY <2>1 DEF ScheduleInv, Labels
  <2> QED
    BY <1>10, <2>2, LoopStays
<1>11. CASE Handle /\ ComputeThresholds /\ StartRti
  <2>1. pc' = [pc EXCEPT ![MainIsr] = "read"] /\ pc[MainIsr] = "start"
    BY <1>11 DEF ComputeThresholds, Proceeds, At, Goto
  <2>2. pc'[Main] = pc[Main]
    BY <2>1 DEF ScheduleInv, Labels
  <2>3. UNCHANGED <<LoopPc, LoopPrimask, LoopSaved>>
    BY <2>2, LoopStays
  <2>4. Then(MainIsr) = "top" /\ pc[Main] # "idle"
    BY <2>1, HandlerAlone DEF ScheduleInv, Labels
  <2>5. RtiEnds
    BY <2>1, <2>4 DEF RtiEnds, MainActive, Then
  <2>6. readyToRun < MaxMissed
    BY <2>5 DEF ScheduleInv, Cycles
  <2>7. LoopPc[Main] # "idle"
    BY <2>4, LoopAt DEF InCall
  <2>8. AloneLoop!StartRti
    BY <1>11
    DEF StartRti, AloneLoop!StartRti, Recorded, AloneLoop!Recorded, Cleared,
        AloneLoop!Cleared, Unset, AloneLoop!Unset, NextRti, AloneLoop!NextRti
  <2>9. AloneLoop!RtiInterrupt
    BY <1>1, <2>3, <2>6, <2>7, <2>8
    DEF AloneLoop!RtiInterrupt, AloneLoop!cpuVars, AloneLoop!Main, Main, LoopPc,
        LoopPrimask, LoopSaved
  <2> QED
    BY <2>9 DEF AloneLoop!MainLoopNext
<1>12. CASE Elapse
  <2>1. pc'[Main] = pc[Main] /\ UNCHANGED mainLoopVars
    BY <1>12 DEF Elapse, Tick, cpuVars
  <2> QED
    BY <2>1, LoopStays
<1>13. CASE UNCHANGED scheduleVars
  <2>1. pc'[Main] = pc[Main] /\ UNCHANGED mainLoopVars
    BY <1>13 DEF scheduleVars, cpuVars
  <2> QED
    BY <2>1, LoopStays
<1> QED
  BY <1>3, <1>4, <1>5, <1>6, <1>7, <1>8, <1>9, <1>10, <1>11, <1>12, <1>13
  DEF ScheduleNext, Loop, LoopStep, Handle

\* Whatever the Metronome does and however long its handlers take, what MainLoop
\* assumes of its interrupts covers it: every behaviour is one of MainLoop.
THEOREM SchedulesTheMainLoop == ScheduleSpec => ImplementsMainLoop
<1>1. ScheduleInit => AloneLoop!AloneInit
  <2> SUFFICES ASSUME ScheduleInit PROVE AloneLoop!AloneInit
    OBVIOUS
  <2>1. /\ pc = [c \in Contexts |-> "idle"] /\ primask = 0 /\ MainLoopInit
    BY DEF ScheduleInit, CpuInit
  <2>2. ~ InCall
    BY <2>1, Constants DEF InCall
  <2>3. LoopPc = [c \in Contexts |-> "idle"] /\ LoopPrimask = 0
    BY <2>1, <2>2, Constants DEF LoopPc, LoopPrimask
  <2>4. AloneLoop!CpuInit
    BY <2>3
    DEF AloneLoop!CpuInit, AloneLoop!Contexts, Contexts, LoopPc, LoopPrimask
  <2>5. AloneLoop!MainLoopInit
    BY <2>1
    DEF MainLoopInit, AloneLoop!MainLoopInit, ResetValues, AloneLoop!ResetValues,
        Unset, AloneLoop!Unset
  <2> QED
    BY <2>4, <2>5 DEF AloneLoop!AloneInit
<1>2. ScheduleInv /\ ScheduleInv' /\ [ScheduleNext]_scheduleVars =>
        [AloneLoop!MainLoopNext]_<<AloneLoop!cpuVars, AloneLoop!mainLoopVars>>
  BY ScheduleStep
  DEF AloneLoop!cpuVars, AloneLoop!mainLoopVars, mainLoopVars, LoopPc, LoopPrimask,
      LoopSaved
<1> QED
  BY <1>1, <1>2, ScheduleInvariance, PTL
  DEF ScheduleSpec, ImplementsMainLoop, AloneLoop!MainLoopSpec
================================================================================
