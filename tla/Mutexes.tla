-------------------------------- MODULE Mutexes --------------------------------
(***************************************************************************)
(* Va416x0/Os/MaskingMutex and Va416x0/Os/AtomicMutex, the two             *)
(* implementations of Os::Mutex. A masking mutex holds its critical        *)
(* section by disabling interrupts; masking mutexes nest and share their   *)
(* statics. An atomic mutex is a flag: contention is a defect. Os::Mutex,  *)
(* outside the repository, asserts that every call succeeds.               *)
(***************************************************************************)
EXTENDS Cpu, FiniteSets

CONSTANTS
  MaskingMutexes, AtomicMutexes,   \* the mutexes of each kind
  NoMutex,                         \* none of them
  MaxTime                          \* bound on the clock, in microseconds

ASSUME MutexAssumption ==
  /\ IsFiniteSet(MaskingMutexes)
  /\ MaskingMutexes \cap AtomicMutexes = {}
  /\ NoMutex \notin MaskingMutexes \cup AtomicMutexes
  /\ MaxTime \in Nat

VARIABLES
  taken,        \* the mutexes whose m_mutexTaken (m_mutex_taken) is set
  depth,        \* s_nestingDepth
  lastPrimask,  \* s_lastPrimask
  lastTake,     \* s_lastTakeTime
  highWater,    \* s_highWaterMarkUs
  limit,        \* s_durationLimitUs
  frame,        \* the call of each context: its mutex, local primask, time
  held,         \* the mutexes each context has taken and not released
  since,        \* when interrupts were masked by the outermost take (ghost)
  now,          \* the clock
  mutexStopped  \* an assertion has ended the software

mutexVars == <<taken, depth, lastPrimask, lastTake, highWater, limit, frame,
               held, since, now, mutexStopped>>

Mutexes == MaskingMutexes \cup AtomicMutexes

\* The locals of a call: the mask take found, the time release works with, and
\* how long the section was (ghost).
NoMutexCall(m) == [mutex |-> m, primask |-> 0, time |-> 0, span |-> 0]

MutexInit ==
  /\ taken = {}
  /\ depth = 0 /\ lastPrimask = 0 /\ lastTake = 0 /\ highWater = 0
  /\ limit = 0
  /\ frame = [c \in Contexts |-> NoMutexCall(NoMutex)]
  /\ held = [c \in Contexts |-> {}]
  /\ since = 0 /\ now = 0
  /\ mutexStopped = FALSE

\* A context between two calls: a handler about to begin, or one in a section.
CanCall(c) ==
  /\ ~ mutexStopped
  /\ MayStart(c) \/ At(c, "body")

\* A context inside a call.
In(c, label) == At(c, label) /\ ~ mutexStopped

Set(c, field, value) == frame' = [frame EXCEPT ![c][field] = value]

\* A handler that holds nothing returns; the main loop goes on.
LeaveCall(c, holding) == Goto(c, IF holding = {} THEN "idle" ELSE "body")

-----------------------------------------------------------------------------
(***************************************************************************)
(* MaskingMutex::take: the mask is read and interrupts are disabled        *)
(* (MaskInterrupts), and nothing comes between the steps that follow.      *)
(***************************************************************************)
Take(c, m) ==
  /\ CanCall(c)
  /\ frame' = [frame EXCEPT ![c] = [NoMutexCall(m) EXCEPT !.primask = primask]]
  /\ Goto(c, "mask")
  /\ UNCHANGED <<primask, saved, taken, depth, lastPrimask, lastTake, highWater,
                 limit, held, since, now, mutexStopped>>

Mask(c) ==
  /\ ~ mutexStopped
  /\ MaskInterrupts(c, "taking")
  /\ UNCHANGED mutexVars

\* Taken already: ERROR_BUSY.
TakeBusy(c) ==
  /\ In(c, "taking") /\ frame[c].mutex \in taken
  /\ primask' = frame[c].primask
  /\ mutexStopped' = TRUE
  /\ UNCHANGED <<pc, saved, taken, depth, lastPrimask, lastTake, highWater,
                 limit, frame, held, since, now>>

Granted(c, m) ==
  /\ taken' = taken \cup {m}
  /\ held' = [held EXCEPT ![c] = @ \cup {m}]
  /\ depth' = depth + 1
  /\ Goto(c, "body")
  /\ UNCHANGED mutexStopped

\* The call fails: ERROR_OTHER with the flag set and interrupts masked.
TakeFails(m) ==
  /\ taken' = taken \cup {m}
  /\ mutexStopped' = TRUE
  /\ UNCHANGED <<pc, held, depth>>

\* Mutant of TakeOuter: the mask is that of the section, not the one found.
TakeOuterMasked(c) ==
  /\ In(c, "taking") /\ frame[c].mutex \notin taken /\ depth = 0
  /\ lastPrimask' = primask
  /\ lastTake' = now /\ since' = now
  /\ Granted(c, frame[c].mutex)
  /\ UNCHANGED <<primask, saved, highWater, limit, frame, now>>

\* The outermost section remembers the mask it found and the time, unless the
\* clock cannot be read.
TakeOuter(c) ==
  /\ In(c, "taking") /\ frame[c].mutex \notin taken /\ depth = 0
  /\ lastPrimask' = frame[c].primask
  /\ \/ lastTake' = now /\ since' = now /\ Granted(c, frame[c].mutex)
     \/ TakeFails(frame[c].mutex) /\ UNCHANGED <<lastTake, since>>
  /\ UNCHANGED <<primask, saved, highWater, limit, frame, now>>

\* An inner section must find interrupts masked.
TakeInner(c) ==
  /\ In(c, "taking") /\ frame[c].mutex \notin taken /\ depth # 0
  /\ IF frame[c].primask = 1 THEN Granted(c, frame[c].mutex)
                             ELSE TakeFails(frame[c].mutex)
  /\ UNCHANGED <<primask, saved, lastPrimask, lastTake, highWater, limit, frame,
                 since, now>>

(***************************************************************************)
(* MaskingMutex::release                                                   *)
(***************************************************************************)
\* Not taken, or taken and nothing nested: ERROR_OTHER.
ReleaseFails(c, m) ==
  /\ CanCall(c)
  /\ m \notin taken \/ depth = 0
  /\ taken' = taken \ {m}
  /\ mutexStopped' = TRUE
  /\ UNCHANGED <<pc, primask, saved, depth, lastPrimask, lastTake, highWater,
                 limit, frame, held, since, now>>

Released(c, m) ==
  /\ CanCall(c) /\ m \in held[c]
  /\ taken' = taken \ {m}
  /\ held' = [held EXCEPT ![c] = @ \ {m}]

ReleaseInner(c, m) ==
  /\ Released(c, m) /\ depth > 1
  /\ depth' = depth - 1
  /\ LeaveCall(c, held'[c])
  /\ UNCHANGED <<primask, saved, lastPrimask, lastTake, highWater, limit, frame,
                 since, now, mutexStopped>>

\* Interrupts are restored on all paths; the clock may not be readable.
ReleaseOuter(c, m) ==
  /\ Released(c, m) /\ depth = 1
  /\ depth' = 0
  /\ primask' = lastPrimask
  /\ frame' = [frame EXCEPT ![c] =
                  [NoMutexCall(m) EXCEPT !.time = now, !.span = now - since]]
  /\ \/ Goto(c, "measure") /\ UNCHANGED mutexStopped
     \/ mutexStopped' = TRUE /\ UNCHANGED pc
  /\ UNCHANGED <<saved, lastPrimask, lastTake, highWater, limit, since, now>>

\* getDiffUsec returns the distance of the two times, whatever their order.
Distance(s, t) == IF s > t THEN s - t ELSE t - s

\* From here on handlers take mutexes again.
Measure(c) ==
  /\ In(c, "measure")
  /\ Set(c, "time", Distance(frame[c].time, lastTake))
  /\ Goto(c, "compare")
  /\ UNCHANGED <<primask, saved, taken, depth, lastPrimask, lastTake, highWater,
                 limit, held, since, now, mutexStopped>>

CompareMark(c) ==
  /\ In(c, "compare")
  /\ Goto(c, IF frame[c].time > highWater THEN "mark" ELSE "limit")
  /\ UNCHANGED <<primask, saved, mutexVars>>

StoreMark(c) ==
  /\ In(c, "mark")
  /\ highWater' = frame[c].time
  /\ Goto(c, "limit")
  /\ UNCHANGED <<primask, saved, taken, depth, lastPrimask, lastTake, limit,
                 frame, held, since, now, mutexStopped>>

\* Too long: ERROR_DEADLOCK.
CheckLimit(c) ==
  /\ In(c, "limit")
  /\ mutexStopped' = (limit # 0 /\ frame[c].time > limit)
  /\ LeaveCall(c, held[c])
  /\ UNCHANGED <<primask, saved, taken, depth, lastPrimask, lastTake, highWater,
                 limit, frame, held, since, now>>

\* During initialisation, which nothing interrupts.
ConfigureLimit(l) ==
  /\ ~ mutexStopped /\ AllIdle
  /\ IF limit = 0 /\ l >= highWater
     THEN limit' = l /\ UNCHANGED mutexStopped
     ELSE mutexStopped' = TRUE /\ UNCHANGED limit
  /\ UNCHANGED <<cpuVars, taken, depth, lastPrimask, lastTake, highWater, frame,
                 held, since, now>>

-----------------------------------------------------------------------------
(***************************************************************************)
(* AtomicMutex: an exchange is one step.                                   *)
(***************************************************************************)
TakeAtomic(c, m) ==
  /\ CanCall(c)
  /\ taken' = taken \cup {m}
  /\ IF m \in taken
     THEN mutexStopped' = TRUE /\ UNCHANGED <<pc, held>>
     ELSE /\ held' = [held EXCEPT ![c] = @ \cup {m}]
          /\ Goto(c, "body")
          /\ UNCHANGED mutexStopped
  /\ UNCHANGED <<primask, saved, depth, lastPrimask, lastTake, highWater, limit,
                 frame, since, now>>

\* Releasing a mutex that is not taken is an error.
ReleaseAtomic(c, m) ==
  /\ CanCall(c)
  /\ taken' = taken \ {m}
  /\ IF m \in held[c]
     THEN /\ held' = [held EXCEPT ![c] = @ \ {m}]
          /\ LeaveCall(c, held'[c])
          /\ UNCHANGED mutexStopped
     ELSE m \notin taken /\ mutexStopped' = TRUE /\ UNCHANGED <<pc, held>>
  /\ UNCHANGED <<primask, saved, depth, lastPrimask, lastTake, highWater, limit,
                 frame, since, now>>

\* Time passes.
PassTime ==
  /\ now < MaxTime /\ ~ mutexStopped
  /\ now' = now + 1
  /\ UNCHANGED <<cpuVars, taken, depth, lastPrimask, lastTake, highWater, limit,
                 frame, held, since, mutexStopped>>

MutexNext ==
  \/ \E c \in Contexts :
       \/ \E m \in MaskingMutexes :
            Take(c, m) \/ ReleaseFails(c, m) \/ ReleaseInner(c, m) \/ ReleaseOuter(c, m)
       \/ Mask(c) \/ TakeBusy(c) \/ TakeOuter(c) \/ TakeInner(c)
       \/ Measure(c) \/ CompareMark(c) \/ StoreMark(c) \/ CheckLimit(c)
       \/ \E m \in AtomicMutexes : TakeAtomic(c, m) \/ ReleaseAtomic(c, m)
  \/ \E l \in 0 .. MaxTime : ConfigureLimit(l)
  \/ PassTime

MutexAloneInit == CpuInit /\ MutexInit

MutexSpec == MutexAloneInit /\ [][MutexNext]_<<cpuVars, mutexVars>>

-----------------------------------------------------------------------------
(***************************************************************************)
(* Properties.                                                             *)
(***************************************************************************)
HeldBy(c) == held[c] \cap MaskingMutexes

\* A mutex that is taken has one holder.
OneHolder ==
  /\ taken = UNION {held[c] : c \in Contexts}
  /\ \A c, d \in Contexts : c # d => held[c] \cap held[d] = {}

\* Masking mutexes nest within one context, and interrupts are disabled from
\* the outermost take to its release, and enabled before and after.
SectionsNest ==
  /\ depth = Cardinality(taken \cap MaskingMutexes)
  /\ \A c \in Contexts : HeldBy(c) # {} => HeldBy(c) = taken \cap MaskingMutexes
  /\ \A c \in Contexts :
       At(c, "body") \/ (c = Main /\ AllIdle) =>
         (primask = 1 <=> HeldBy(c) # {})

\* While no call has failed, each mutex has one holder and sections nest,
\* whatever interrupts come between the two instructions of a take, in a
\* section of an atomic mutex, or while a release still measures its hold
\* (MaskingMutex.cpp:39-65, :68-103; AtomicMutex.cpp:17-36).
MutualExclusion == ~ mutexStopped => OneHolder /\ SectionsNest

\* What the header says of the limit (MaskingMutex.hpp:41-42) and the code does
\* not do: a section that was longer than the limit is noticed. A handler that
\* takes a mutex before the time is measured moves s_lastTakeTime.
LongHoldsNoticed ==
  \A c \in Contexts :
    In(c, "limit") /\ limit # 0 /\ frame[c].span > limit => frame[c].time > limit
================================================================================
