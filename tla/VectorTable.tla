------------------------------ MODULE VectorTable ------------------------------
(***************************************************************************)
(* Va416x0/Svc/VectorTable: every exception passes through                 *)
(* handle_exception, which adds the time of the outermost handlers to the  *)
(* duty of the RTI; endRti takes the sum into the high water mark.         *)
(* Time is counted in ticks of SysTick, a counter that wraps.              *)
(***************************************************************************)
EXTENDS Cpu

CONSTANTS
  CvrSize,    \* values of the counter (2^24)
  MaxTicks    \* bound on the ticks of an RTI that are counted

ASSUME VectorTableAssumption == CvrSize \in Nat \ {0} /\ MaxTicks \in Nat

VARIABLES
  cvr,                \* SysTick's counter
  startTicks, delta,  \* the locals of each context's handle_exception
  duty,               \* m_rtiCurrentDutyUtilTicks
  loaded,             \* the sum as each context's += has read it
  hwm,                \* m_rtiHwmIrqDutyUtilTicks
  firstRti,           \* m_firstRtiCompleted
  rtiEnder,           \* the context that ends RTIs: the loop or a timer's handler
  spent,              \* ticks from start to end of each context's handler (ghost)
  due,                \* ticks of the outermost handlers added in this RTI (ghost)
  mostDue,            \* the most of them in any RTI that has ended (ghost)
  torn                \* an RTI has ended within an addition (ghost)

ghostVars == <<due, mostDue, torn>>
vectorVars == <<cvr, startTicks, delta, duty, loaded, hwm, firstRti, rtiEnder, spent,
                ghostVars>>

Handlers == Contexts \ {Main}
Zero == [c \in Contexts |-> 0]

VectorInit ==
  /\ cvr = 0 /\ startTicks = Zero /\ delta = Zero /\ duty = 0 /\ loaded = Zero
  /\ hwm = 0 /\ firstRti = FALSE /\ rtiEnder \in Contexts
  /\ spent = Zero /\ due = 0 /\ mostDue = 0 /\ torn = FALSE

Active(c) == pc[c] # "idle"

\* ICSR.RETTOBASE: no exception is preempted.
RetToBase(c) == \A d \in Handlers : d < c => ~ Active(d)

-----------------------------------------------------------------------------
(***************************************************************************)
(* handle_exception                                                        *)
(***************************************************************************)
\* The pending bit of the interrupt is cleared and the counter read.
EnterException(c) ==
  /\ MayStart(c)
  /\ startTicks' = [startTicks EXCEPT ![c] = cvr]
  /\ spent' = [spent EXCEPT ![c] = 0]
  /\ Goto(c, "handler")
  /\ UNCHANGED <<primask, saved, cvr, delta, duty, loaded, hwm, firstRti, rtiEnder,
                 ghostVars>>

\* The counter goes down; the difference is taken modulo its width.
LeaveHandler(c) ==
  /\ At(c, "handler")
  /\ delta' = [delta EXCEPT ![c] = (startTicks[c] - cvr) % CvrSize]
  /\ Goto(c, "outer")
  /\ UNCHANGED <<primask, saved, cvr, startTicks, duty, loaded, hwm, firstRti,
                 rtiEnder, spent, ghostVars>>

\* Mutant of TestOuter: nested handlers are added too.
TestNothingOuter(c) ==
  /\ At(c, "outer")
  /\ Goto(c, "load")
  /\ UNCHANGED <<primask, saved, vectorVars>>

TestOuter(c) ==
  /\ At(c, "outer")
  /\ Goto(c, IF RetToBase(c) THEN "load" ELSE "idle")
  /\ UNCHANGED <<primask, saved, vectorVars>>

\* += is a load and a store.
LoadDuty(c) ==
  /\ At(c, "load")
  /\ loaded' = [loaded EXCEPT ![c] = duty]
  /\ Goto(c, "store")
  /\ UNCHANGED <<primask, saved, cvr, startTicks, delta, duty, hwm, firstRti,
                 rtiEnder, spent, ghostVars>>

StoreDuty(c) ==
  /\ At(c, "store")
  /\ duty' = loaded[c] + delta[c]
  /\ loaded' = [loaded EXCEPT ![c] = 0]
  /\ due' = IF RetToBase(c) THEN due + spent[c] ELSE due
  /\ Goto(c, "idle")
  /\ UNCHANGED <<primask, saved, cvr, startTicks, delta, hwm, firstRti, rtiEnder, spent,
                 mostDue, torn>>

-----------------------------------------------------------------------------
(***************************************************************************)
(* EndRti_handler, called from the rate group or from the main timer's     *)
(* handler, which may preempt handlers at any point of handle_exception.   *)
(***************************************************************************)
MayEndRti(c) ==
  /\ c = rtiEnder
  /\ IF c = Main THEN At(c, "idle") ELSE At(c, "handler")

\* A new sum; one that a preempted handler has loaded is still to be stored.
ResetDuty(c) ==
  /\ duty' = 0 /\ due' = 0
  /\ torn' = (torn \/ \E d \in Handlers : d < c /\ pc[d] = "store")

\* Before the first RTI has ended the sum starts over, with interrupts enabled.
EndFirstRti(c) ==
  /\ MayEndRti(c) /\ ~ firstRti
  /\ ResetDuty(c)
  /\ Goto(c, IF c = Main THEN "endRti" ELSE "endRtiHandler")
  /\ UNCHANGED <<primask, saved, cvr, startTicks, delta, loaded, hwm, firstRti,
                 rtiEnder, spent, mostDue>>

Higher(x, y) == IF x > y THEN x ELSE y

\* endRti, with interrupts disabled: the mark, and a new sum.
EndRti(c) ==
  /\ \/ firstRti /\ MayEndRti(c) /\ UNCHANGED pc
     \/ At(c, "endRti") /\ Goto(c, "idle")
     \/ At(c, "endRtiHandler") /\ Goto(c, "handler")
  /\ hwm' = Higher(duty, hwm) /\ mostDue' = Higher(due, mostDue)
  /\ ResetDuty(c)
  /\ primask' = 0
  /\ firstRti' = TRUE
  /\ UNCHANGED <<saved, cvr, startTicks, delta, loaded, rtiEnder, spent>>

-----------------------------------------------------------------------------
\* Between its reads of the counter.
Measuring(c) == pc[c] \in {"handler", "endRtiHandler"}

\* A tick, unless a handler would last as long as the counter counts.
CvrTick ==
  /\ due < MaxTicks /\ duty < MaxTicks
  /\ \A c \in Handlers : Measuring(c) => spent[c] + 1 < CvrSize
  /\ cvr' = (cvr - 1) % CvrSize
  /\ spent' = [c \in Contexts |-> IF Measuring(c) THEN spent[c] + 1 ELSE spent[c]]
  /\ UNCHANGED <<cpuVars, startTicks, delta, duty, loaded, hwm, firstRti, rtiEnder,
                 ghostVars>>

VectorNext ==
  \/ \E c \in Handlers :
       \/ EnterException(c) \/ LeaveHandler(c) \/ TestOuter(c) \/ LoadDuty(c)
       \/ StoreDuty(c)
  \/ \E c \in Contexts : EndFirstRti(c) \/ EndRti(c)
  \/ CvrTick

VectorAloneInit == CpuInit /\ VectorInit

VectorSpec == VectorAloneInit /\ [][VectorNext]_<<cpuVars, vectorVars>>

-----------------------------------------------------------------------------
\* The sum is never less than the time of the outermost handlers that was added in
\* this RTI, and the mark never less than the most of any RTI, however handlers nest
\* and whatever ends the RTI; and they are no more as long as no RTI has ended
\* between the load and the store of an addition (VectorTable.cpp:56-65, :81-131).
DutyCounted ==
  /\ duty >= due /\ hwm >= mostDue
  /\ ~ torn => duty = due /\ hwm = mostDue

\* The mark is the most time of outermost handlers in any RTI (VectorTable.fpp:39,
\* :48), kept by disabling interrupts at the end of an RTI (VectorTable.cpp:122-123).
\* The code violates it when an RTI ends in a handler that preempts an addition: the
\* sum that was reset comes back.
MarkExact == hwm = mostDue
================================================================================
