---------------------------------- MODULE Cpu ----------------------------------
(***************************************************************************)
(* Va416x0/Mmio/Cpu and Va416x0/Mmio/Lock: one core, its interrupt mask    *)
(* and the critical section built on it. Modules of components that lock   *)
(* extend this one and add their own labels to the program counters.       *)
(*                                                                         *)
(* Context 0 is the main loop, contexts 1..Irqs are interrupt handlers of  *)
(* rising priority. A handler starts when interrupts are enabled and no    *)
(* handler of its priority or above is active; it then runs to completion  *)
(* over whatever it preempted.                                             *)
(***************************************************************************)
EXTENDS Integers

CONSTANT Irqs    \* number of interrupt priorities in use

ASSUME IrqsAssumption == Irqs \in Nat

VARIABLES
  pc,        \* where each context is
  primask,   \* 1 when interrupts are masked
  saved      \* the mask each context's lock found (CriticalSectionLock::m_primask)

cpuVars == <<pc, primask, saved>>

Contexts == 0 .. Irqs
Main == 0

CpuInit ==
  /\ pc = [c \in Contexts |-> "idle"]
  /\ primask = 0
  /\ saved = [c \in Contexts |-> 0]

Executes(c) == \A d \in Contexts : d > c => pc[d] = "idle"

At(c, label) == Executes(c) /\ pc[c] = label

MayStart(c) == At(c, "idle") /\ (c = Main \/ primask = 0)

AllIdle == \A c \in Contexts : pc[c] = "idle"

Goto(c, label) == pc' = [pc EXCEPT ![c] = label]

(***************************************************************************)
(* save_disable_interrupts is two instructions, and an interrupt may come  *)
(* between them: mrs %0, primask ...                                       *)
(***************************************************************************)
SavePrimask(c) ==
  /\ At(c, "save")
  /\ saved' = [saved EXCEPT ![c] = primask]
  /\ Goto(c, "mask")
  /\ UNCHANGED primask

\* Mutant of MaskInterrupts: the cpsid is missing.
LeaveUnmasked(c, next) ==
  /\ At(c, "mask")
  /\ Goto(c, next)
  /\ UNCHANGED <<primask, saved>>

\* ... and cpsid i.
MaskInterrupts(c, next) ==
  /\ At(c, "mask")
  /\ primask' = 1
  /\ Goto(c, next)
  /\ UNCHANGED saved

\* Mutant of RestoreInterrupts: cpsie i, whatever the mask was before.
EnableInterrupts(c, next) ==
  /\ At(c, "restore")
  /\ primask' = 0
  /\ Goto(c, next)
  /\ UNCHANGED saved

\* restore_interrupts
RestoreInterrupts(c, next) ==
  /\ At(c, "restore")
  /\ primask' = saved[c]
  /\ Goto(c, next)
  /\ UNCHANGED saved
================================================================================
