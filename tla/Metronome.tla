------------------------------- MODULE Metronome -------------------------------
(***************************************************************************)
(* Va416x0/Svc/Metronome: clients are called at given times of every RTI.  *)
(* The main timer counts down and reloads; its interrupt begins an RTI.    *)
(* The proxy timer interrupts whenever the main timer's count is below a   *)
(* mark, PWMA, which is moved from client to client.                       *)
(*                                                                         *)
(* The timers run on while the software computes: Tick comes between any   *)
(* two steps. The main timer's handler is context 1; the proxy timer's is  *)
(* the same or the next one, so that it may preempt the former.            *)
(***************************************************************************)
EXTENDS Cpu, Sequences

CONSTANTS
  TriggerMicros,   \* m_clients: the times of the clients, sorted by :65
  Durations,       \* what update_duration is called with, in microseconds
  CyclesPerMicro,  \* m_cycles_per_microsecond
  RtiIndices       \* the width of m_rtiIndex (2^32)

Clients == DOMAIN TriggerMicros
NumClients == Len(TriggerMicros)

\* The constructor's assertions, and the unit in which time is given.
ASSUME MetronomeAssumption ==
  /\ Irqs >= 2 /\ CyclesPerMicro \in Nat \ {0, 1} /\ RtiIndices \in Nat \ {0}
  /\ Durations \subseteq Nat \ {0} /\ Durations # {}
  /\ TriggerMicros \in Seq(Nat)
  /\ \A i \in Clients, d \in Durations : TriggerMicros[i] < d
  /\ \A i, j \in Clients : i < j => TriggerMicros[i] <= TriggerMicros[j]

VARIABLES
  \* Hardware.
  timer,        \* the main timer: enabled, CNT, RST and PWMA
  pending,      \* interrupts that are pending,
  enabled,      \* and those that are enabled, of "main" and "proxy"
  proxyIsr,     \* the context of the proxy timer's handler
  \* The component.
  index,        \* m_execution_index, from 1
  thresholds,   \* m_clients[].trigger_time_threshold
  offsetBase,   \* m_rtiOffsetBase
  rtiIndex,     \* m_rtiIndex
  previous,     \* m_previousRtiDurationUs
  batch,        \* locals of process_isrs_until, in each handler's context
  rstValue,     \* rst_value of main_timer_isr
  cntValue,     \* cntValue of getRtiTime
  failed,       \* the assertion that has failed
  \* Ghosts.
  loaded,       \* what the main timer last reloaded, and before that
  fired         \* how often each client was called in the RTI

metronomeVars ==
  <<timer, pending, enabled, proxyIsr, index, thresholds, offsetBase, rtiIndex,
    previous, batch, rstValue, cntValue, failed, loaded, fired>>

MainIsr == 1
ContextOf(irq) == IF irq = "main" THEN MainIsr ELSE proxyIsr

\* What a duration puts into RST: the timer counts RST + 1 cycles.
RstOf(micros) == micros * CyclesPerMicro - 1

NoBatch == [until |-> 0, index |-> 1, then |-> "idle"]

MetronomeInit ==
  /\ timer = [on |-> FALSE, cnt |-> 0, rst |-> 0, pwma |-> 0]
  /\ pending = {} /\ enabled = {}
  /\ proxyIsr \in {MainIsr, MainIsr + 1}
  /\ index = NumClients + 1
  /\ thresholds = [i \in Clients |-> 0]
  /\ offsetBase = 0 /\ rtiIndex = 0 /\ previous = 0
  /\ batch = [c \in Contexts |-> NoBatch]
  /\ rstValue = 0 /\ cntValue = 0
  /\ failed = "none"
  /\ loaded = [now |-> 0, before |-> 0]
  /\ fired = [i \in Clients |-> 1]

-----------------------------------------------------------------------------
(***************************************************************************)
(* The hardware.                                                           *)
(***************************************************************************)
\* A context gives way to an interrupt of higher priority at once.
Preempted(c) == primask = 0 /\ \E i \in pending \cap enabled : ContextOf(i) > c

Proceeds(c, label) == At(c, label) /\ ~ Preempted(c) /\ failed = "none"

\* The main timer's handler is at work: no bit of the next RTI can be lost.
MainActive == pc[MainIsr] # "idle" /\ batch[MainIsr].then # "idle"

(***************************************************************************)
(* One cycle of the main timer. It interrupts when it reaches 0 and        *)
(* reloads after that; as long as its count is below PWMA the proxy timer  *)
(* interrupts every cycle. The handlers of an RTI are done before it ends. *)
(***************************************************************************)
Tick ==
  LET cnt == IF timer.cnt = 0 THEN timer.rst ELSE timer.cnt - 1
  IN  /\ timer.on /\ failed = "none"
      /\ timer.cnt = 1 => "main" \notin pending /\ ~ MainActive
      /\ timer' = [timer EXCEPT !.cnt = cnt]
      /\ pending' = pending \cup (IF cnt = 0 THEN {"main"} ELSE {})
                             \cup (IF cnt < timer.pwma THEN {"proxy"} ELSE {})
      /\ loaded' = IF timer.cnt = 0 THEN [now |-> timer.rst, before |-> loaded.now]
                   ELSE loaded
      /\ UNCHANGED <<cpuVars, enabled, proxyIsr, index, thresholds, offsetBase,
                     rtiIndex, previous, batch, rstValue, cntValue, failed, fired>>

-----------------------------------------------------------------------------
(***************************************************************************)
(* Calls of the main loop.                                                 *)
(***************************************************************************)
StartMetronome(duration) ==
  /\ ~ timer.on
  /\ timer' = [on |-> TRUE, cnt |-> 1, rst |-> RstOf(duration), pwma |-> 0]
  /\ pending' = {} /\ enabled' = {"main"}
  /\ UNCHANGED <<proxyIsr, index, thresholds, offsetBase, rtiIndex, previous,
                 batch, rstValue, cntValue, failed, loaded, fired>>

UpdateDuration ==
  /\ Proceeds(Main, "cycle")
  /\ \E d \in Durations : timer' = [timer EXCEPT !.rst = RstOf(d)]
  /\ UNCHANGED <<cpuVars, pending, enabled, proxyIsr, index, thresholds, offsetBase,
                 rtiIndex, previous, batch, rstValue, cntValue, failed, loaded,
                 fired>>

\* All but cntValue and failed, which getRtiTime changes.
ReadsTime ==
  UNCHANGED <<timer, pending, enabled, proxyIsr, index, thresholds, offsetBase,
              rtiIndex, previous, batch, rstValue, loaded, fired>>

GetRtiTime ==
  /\ Proceeds(Main, "cycle")
  /\ Goto(Main, "save")
  /\ UNCHANGED <<primask, saved, cntValue, failed>> /\ ReadsTime

LockTime ==
  /\ ~ Preempted(Main) /\ failed = "none"
  /\ SavePrimask(Main) \/ MaskInterrupts(Main, "readCnt")
                       \/ RestoreInterrupts(Main, "cycle")
  /\ UNCHANGED <<cntValue, failed>> /\ ReadsTime

ReadFirstCnt ==
  /\ Proceeds(Main, "readCnt")
  /\ cntValue' = timer.cnt
  /\ Goto(Main, "check")
  /\ UNCHANGED <<primask, saved, failed>> /\ ReadsTime

CheckFirstCnt ==
  /\ Proceeds(Main, "check")
  /\ failed' = IF "main" \in pending THEN "pending"
               ELSE IF cntValue > offsetBase THEN "count" ELSE "none"
  /\ cntValue' = 0
  /\ Goto(Main, "readAgain")
  /\ UNCHANGED <<primask, saved>> /\ ReadsTime

\* The unsigned difference of a count above the base exceeds every duration.
ReadRtiTime ==
  /\ Proceeds(Main, "readAgain")
  /\ failed' = IF timer.cnt > offsetBase THEN "offset" ELSE "none"
  /\ Goto(Main, "restore")
  /\ UNCHANGED <<primask, saved, cntValue>> /\ ReadsTime

\* What it returns.
RtiTime == [rti |-> rtiIndex, offset |-> (offsetBase - timer.cnt) \div CyclesPerMicro]

TimeStep == GetRtiTime \/ LockTime \/ ReadFirstCnt \/ CheckFirstCnt \/ ReadRtiTime

-----------------------------------------------------------------------------
(***************************************************************************)
(* process_isrs_until, in the context of a handler. The proxy timer's      *)
(* interrupt is disabled while the main timer's handler is in here.        *)
(***************************************************************************)
\* All but these, which the loop over the clients changes.
KeepsTime ==
  UNCHANGED <<primask, saved, proxyIsr, thresholds, offsetBase, rtiIndex, previous,
              rstValue, cntValue, failed, loaded>>

EndBatch(c) ==
  /\ index' = batch[c].index
  /\ batch' = [batch EXCEPT ![c] = [NoBatch EXCEPT !.then = batch[c].then]]
  /\ Goto(c, batch[c].then)

\* Mutant of Reached: the mark of the timer, not the threshold.
ReachedMark(c) == batch[c].until <= thresholds[batch[c].index] + 1

Reached(c) == batch[c].until <= thresholds[batch[c].index]

TriggerClient(c) ==
  /\ Proceeds(c, "batch")
  /\ batch[c].index <= NumClients /\ Reached(c)
  /\ fired' = [fired EXCEPT ![batch[c].index] = @ + 1]
  /\ batch' = [batch EXCEPT ![c].index = @ + 1]
  /\ UNCHANGED <<pc, timer, pending, enabled, index>> /\ KeepsTime

ScheduleClient(c) ==
  /\ Proceeds(c, "batch")
  /\ batch[c].index <= NumClients /\ ~ Reached(c)
  /\ timer' = [timer EXCEPT !.pwma = thresholds[batch[c].index] + 1]
  /\ Goto(c, "clear")
  /\ UNCHANGED <<pending, enabled, index, batch, fired>> /\ KeepsTime

ClearProxy(c) ==
  /\ Proceeds(c, "clear")
  /\ pending' = pending \ {"proxy"}
  /\ EndBatch(c)
  /\ UNCHANGED <<timer, enabled, fired>> /\ KeepsTime

NoMoreClients(c) ==
  /\ Proceeds(c, "batch")
  /\ batch[c].index > NumClients
  /\ enabled' = enabled \ {"proxy"}
  /\ EndBatch(c)
  /\ UNCHANGED <<timer, pending, fired>> /\ KeepsTime

ReadCnt(c) ==
  /\ Proceeds(c, "read")
  /\ batch' = [batch EXCEPT ![c].until = timer.cnt, ![c].index = index]
  /\ Goto(c, "batch")
  /\ UNCHANGED <<timer, pending, enabled, index, fired>> /\ KeepsTime

BatchStep(c) ==
  TriggerClient(c) \/ ScheduleClient(c) \/ ClearProxy(c) \/ NoMoreClients(c)
    \/ ReadCnt(c)

(***************************************************************************)
(* The handlers. On entry the pending bit is cleared. Entry takes more     *)
(* cycles than the main timer needs to go on from 0 to its reload value.   *)
(***************************************************************************)
EnterIsr(irq, first, then) ==
  LET c == ContextOf(irq)
  IN  /\ irq \in pending \cap enabled /\ timer.cnt # 0 /\ failed = "none"
      /\ MayStart(c) /\ ~ Preempted(c)
      /\ pending' = pending \ {irq}
      /\ batch' = [batch EXCEPT ![c].then = then]
      /\ Goto(c, first)
      /\ UNCHANGED <<timer, enabled, index, fired>> /\ KeepsTime

ProxyTimerIsr == EnterIsr("proxy", "read", "idle")

MainTimerIsr == EnterIsr("main", "disable", "top")

\* Mutant of DisableProxy: the interrupt stays enabled.
LeaveProxy ==
  /\ Proceeds(MainIsr, "disable")
  /\ Goto(MainIsr, "advance")
  /\ UNCHANGED <<timer, pending, enabled, index, batch, fired>> /\ KeepsTime

DisableProxy ==
  /\ Proceeds(MainIsr, "disable")
  /\ enabled' = enabled \ {"proxy"}
  /\ Goto(MainIsr, "advance")
  /\ UNCHANGED <<timer, pending, index, batch, fired>> /\ KeepsTime

\* Mutant of AdvanceRti: the base is replaced before it is used.
AdvanceRtiFirst ==
  /\ Proceeds(MainIsr, "advance")
  /\ rstValue' = timer.rst
  /\ previous' = (timer.rst + 1) \div CyclesPerMicro
  /\ rtiIndex' = (rtiIndex + 1) % RtiIndices
  /\ offsetBase' = timer.rst
  /\ batch' = [batch EXCEPT ![MainIsr].until = 0, ![MainIsr].index = index]
  /\ Goto(MainIsr, "batch")
  /\ UNCHANGED <<primask, saved, timer, pending, enabled, proxyIsr, index, thresholds,
                 cntValue, failed, loaded, fired>>

\* Mutant of AdvanceRti: clients are served up to now, not to the end.
AdvanceRtiNow ==
  /\ Proceeds(MainIsr, "advance")
  /\ rstValue' = timer.rst
  /\ previous' = (offsetBase + 1) \div CyclesPerMicro
  /\ rtiIndex' = (rtiIndex + 1) % RtiIndices
  /\ offsetBase' = timer.rst
  /\ batch' = [batch EXCEPT ![MainIsr].until = timer.cnt, ![MainIsr].index = index]
  /\ Goto(MainIsr, "batch")
  /\ UNCHANGED <<primask, saved, timer, pending, enabled, proxyIsr, index, thresholds,
                 cntValue, failed, loaded, fired>>

AdvanceRti ==
  /\ Proceeds(MainIsr, "advance")
  /\ rstValue' = timer.rst
  /\ previous' = (offsetBase + 1) \div CyclesPerMicro
  /\ rtiIndex' = (rtiIndex + 1) % RtiIndices
  /\ offsetBase' = timer.rst
  /\ batch' = [batch EXCEPT ![MainIsr].until = 0, ![MainIsr].index = index]
  /\ Goto(MainIsr, "batch")
  /\ UNCHANGED <<primask, saved, timer, pending, enabled, proxyIsr, index, thresholds,
                 cntValue, failed, loaded, fired>>

\* Up to the call of start_rti.
TopOfRti ==
  /\ Proceeds(MainIsr, "top")
  /\ failed' = IF index = NumClients + 1 THEN "none" ELSE "index"
  /\ index' = 1
  /\ fired' = [i \in Clients |-> 0]
  /\ Goto(MainIsr, "start")
  /\ UNCHANGED <<primask, saved, timer, pending, enabled, proxyIsr, thresholds,
                 offsetBase, rtiIndex, previous, batch, rstValue, cntValue, loaded>>

\* The call of start_rti, and the thresholds.
ComputeThresholds ==
  /\ Proceeds(MainIsr, "start")
  /\ thresholds' = [i \in Clients |-> rstValue - TriggerMicros[i] * CyclesPerMicro]
  /\ rstValue' = 0
  /\ batch' = [batch EXCEPT ![MainIsr].then = "enable"]
  /\ Goto(MainIsr, "read")
  /\ UNCHANGED <<primask, saved, timer, pending, enabled, proxyIsr, index, offsetBase,
                 rtiIndex, previous, cntValue, failed, loaded, fired>>

\* Mutant of EnableProxy: not for the last client.
EnableProxyButLast ==
  /\ Proceeds(MainIsr, "enable")
  /\ enabled' = IF index < NumClients THEN enabled \cup {"proxy"} ELSE enabled
  /\ batch' = [batch EXCEPT ![MainIsr] = NoBatch]
  /\ Goto(MainIsr, "idle")
  /\ UNCHANGED <<timer, pending, index, fired>> /\ KeepsTime

EnableProxy ==
  /\ Proceeds(MainIsr, "enable")
  /\ enabled' = IF index <= NumClients THEN enabled \cup {"proxy"} ELSE enabled
  /\ batch' = [batch EXCEPT ![MainIsr] = NoBatch]
  /\ Goto(MainIsr, "idle")
  /\ UNCHANGED <<timer, pending, index, fired>> /\ KeepsTime

IsrStep ==
  \/ ProxyTimerIsr \/ MainTimerIsr
  \/ DisableProxy \/ AdvanceRti \/ TopOfRti \/ EnableProxy
  \/ \E c \in {MainIsr, MainIsr + 1} : BatchStep(c)

-----------------------------------------------------------------------------
(***************************************************************************)
(* Properties.                                                             *)
(***************************************************************************)
\* In every RTI each client is called once, in the order of their times, before
\* the next begins: late ones at its end (:182-189, :233-262).
ClientsOncePerRti ==
  /\ \A i, j \in Clients : i <= j => fired[i] >= fired[j] /\ fired[i] <= 1
  /\ pc[MainIsr] = "top" => \A i \in Clients : fired[i] = 1

\* The timer has begun another RTI, or the handler is ending this one.
RtiEnds == "main" \in pending \/ (MainActive /\ batch[MainIsr].then = "top")

\* No client is called before its time, whatever update_duration has written
\* since the RTI began (:172, :200-202, :234-236).
NotBeforeItsTime ==
  [][\A i \in Clients : fired'[i] > fired[i] =>
       RtiEnds \/ loaded.now - timer.cnt >= TriggerMicros[i] * CyclesPerMicro
    ]_<<cpuVars, metronomeVars>>

Settled == \A c \in Contexts \ {Main} : pc[c] = "idle"

\* When the handlers are done the timer is set for the next client, or the
\* interrupt is off for want of one (:202-212, :239-251, :264-268).
ProxyArmed ==
  Settled =>
    IF index > NumClients THEN "proxy" \notin enabled
    ELSE /\ "proxy" \in enabled
         /\ timer.pwma = thresholds[index] + 1
         /\ \A i \in Clients : fired[i] = 1 <=> i < index

\* The reset value that the handler reads is the one the timer has reloaded,
\* though update_duration may change it, and the previous duration is that of
\* the RTI before (the question at :171; :172-180).
DurationsAgree ==
  "main" \notin pending /\ pc[MainIsr] \notin {"disable", "advance"} =>
    /\ offsetBase = loaded.now
    /\ previous = (loaded.before + 1) \div CyclesPerMicro

\* All clients are done when an RTI begins, and the first count that getRtiTime
\* reads is within the RTI (the assertions at :151 and :188).
BatchesComplete == failed \notin {"index", "count"}
================================================================================
