----------------------------- MODULE IsrSafeQueue ------------------------------
(***************************************************************************)
(* Va416x0/Os/IsrSafeQueue: the message queue of the baremetal OSAL. The   *)
(* messages lie in Depth slots; a ring of slot numbers says which are      *)
(* free, and a heap orders those in use by priority. The main loop and     *)
(* interrupt handlers send and receive.                                    *)
(*                                                                         *)
(* A message is known by its size, and its content by the same number: a   *)
(* message received with the size of one and the content of another shows. *)
(***************************************************************************)
EXTENDS Cpu, FiniteSets

CONSTANTS
  Depth,        \* m_depth
  MaxSize,      \* m_maxSize
  Sizes,        \* sizes of the messages that are sent
  Priorities,   \* priorities they are sent with
  Capacity,     \* size of the receivers' buffers
  OuterLocks    \* whether callers are in a critical section of their own

ASSUME QueueAssumption ==
  /\ Depth \in Nat \ {0}
  /\ MaxSize \in Nat /\ Capacity \in Nat /\ MaxSize <= Capacity
  /\ Sizes \subseteq Nat
  /\ Priorities \subseteq Nat
  /\ OuterLocks \subseteq BOOLEAN

VARIABLES
  created,      \* the allocations of create exist
  indices,      \* m_indices: the ring
  start, stop,  \* m_startIndex, m_stopIndex
  heap,         \* m_heap: the slots in use, with the priority of each
  data, sizes,  \* m_data, m_sizes: the slots
  highMark,     \* m_highMark
  loc,          \* the local variables of each call
  asserted      \* a FW_ASSERT has failed

handle == <<indices, start, stop, heap, data, sizes, highMark>>
queueVars == <<cpuVars, created, handle, loc, asserted>>

Slots == 0 .. Depth - 1
Entry == [index : Slots, priority : Priorities]

\* What the slot of a message sent with this size holds; 0 is a fresh slot.
Content == 0 .. MaxSize

NoCall == [op |-> "none", outer |-> FALSE, size |-> 0, priority |-> 0,
           index |-> 0, got |-> 0, status |-> "none"]

QueueInit ==
  /\ CpuInit
  /\ created = FALSE
  /\ indices = [i \in Slots |-> i]
  /\ start = 0 /\ stop = 0
  /\ heap = {}
  /\ data = [i \in Slots |-> 0]
  /\ sizes = [i \in Slots |-> 0]
  /\ highMark = 0
  /\ loc = [c \in Contexts |-> NoCall]
  /\ asserted = FALSE

\* FW_ASSERT: when the condition does not hold the software stops for good.
Assert(condition) == asserted' = ~ condition

\* (i + 1) % m_depth
Successor(i) == IF i + 1 = Depth THEN 0 ELSE i + 1

\* MaxHeap, from how the queue uses it.
IsFull == Cardinality(heap) = Depth

IsTop(entry) ==
  entry \in heap /\ \A other \in heap : other.priority <= entry.priority

-----------------------------------------------------------------------------
(***************************************************************************)
(* create and teardown, by the main loop while no call is under way.       *)
(***************************************************************************)
Create ==
  /\ AllIdle /\ ~ asserted /\ ~ created
  /\ created' = TRUE
  /\ indices' = [i \in Slots |-> i]
  /\ start' = 0 /\ stop' = 0
  /\ heap' = {}
  /\ sizes' = [i \in Slots |-> 0]
  /\ data' = [i \in Slots |-> 0]
  /\ highMark' = 0
  /\ UNCHANGED <<cpuVars, loc, asserted>>

\* The handle keeps its other fields until the queue is created again.
Teardown ==
  /\ AllIdle /\ ~ asserted /\ created
  /\ created' = FALSE
  /\ heap' = {}
  /\ UNCHANGED <<cpuVars, indices, start, stop, data, sizes, highMark, loc,
                 asserted>>

(***************************************************************************)
(* The calls, down to the lock. A caller with a critical section of its    *)
(* own has masked interrupts before it calls.                              *)
(***************************************************************************)
Send(c, size, priority, outer) ==
  /\ MayStart(c) /\ ~ asserted /\ created
  /\ primask' = IF outer THEN 1 ELSE primask
  /\ LET call == [NoCall EXCEPT !.op = "send", !.outer = outer, !.size = size,
                                !.priority = priority]
     IN  \/ /\ size > MaxSize
            /\ loc' = [loc EXCEPT ![c] = [call EXCEPT !.status = "mismatch"]]
            /\ Goto(c, "return")
         \/ /\ size <= MaxSize
            /\ loc' = [loc EXCEPT ![c] = call]
            /\ Goto(c, "save")
  /\ UNCHANGED <<saved, created, handle, asserted>>

Receive(c, outer) ==
  /\ MayStart(c) /\ ~ asserted /\ created
  /\ primask' = IF outer THEN 1 ELSE primask
  /\ loc' = [loc EXCEPT ![c] = [NoCall EXCEPT !.op = "receive",
                                              !.outer = outer]]
  /\ Goto(c, "save")
  /\ UNCHANGED <<saved, created, handle, asserted>>

Lock(c) ==
  /\ ~ asserted
  /\ SavePrimask(c) \/ MaskInterrupts(c, "check")
  /\ UNCHANGED <<created, handle, loc, asserted>>

\* Mutant of CheckHeap: a full queue is not refused.
SkipCheck(c) ==
  /\ At(c, "check") /\ ~ asserted
  /\ Goto(c, IF loc[c].op = "send" THEN "find" ELSE "pop")
  /\ UNCHANGED <<primask, saved, created, handle, loc, asserted>>

\* isFull or isEmpty: the call is refused, blocking or not.
CheckHeap(c) ==
  LET refused == IF loc[c].op = "send" THEN IsFull ELSE heap = {}
  IN  /\ At(c, "check") /\ ~ asserted
      /\ loc' = [loc EXCEPT ![c].status = IF refused THEN "refused" ELSE @]
      /\ Goto(c, IF refused THEN "restore"
                 ELSE IF loc[c].op = "send" THEN "find" ELSE "pop")
      /\ UNCHANGED <<primask, saved, created, handle, asserted>>

-----------------------------------------------------------------------------
\* find_index
FindIndex(c) ==
  /\ At(c, "find") /\ ~ asserted
  /\ loc' = [loc EXCEPT ![c].index = indices[start]]
  /\ start' = Successor(start)
  /\ Goto(c, "push")
  /\ UNCHANGED <<primask, saved, created, indices, stop, heap, data, sizes,
                 highMark, asserted>>

Push(c) ==
  /\ At(c, "push") /\ ~ asserted
  /\ Assert(~ IsFull)
  /\ heap' = IF IsFull THEN heap
             ELSE heap \cup {[index |-> loc[c].index,
                              priority |-> loc[c].priority]}
  /\ Goto(c, "store")
  /\ UNCHANGED <<primask, saved, created, indices, start, stop, data, sizes,
                 highMark, loc>>

\* store_data, with its assertions
StoreData(c) ==
  LET call == loc[c]
  IN  /\ At(c, "store") /\ ~ asserted
      /\ Assert(call.size <= MaxSize /\ call.index < Depth)
      /\ data' = [data EXCEPT ![call.index] = call.size]
      /\ sizes' = [sizes EXCEPT ![call.index] = call.size]
      /\ Goto(c, "mark")
      /\ UNCHANGED <<primask, saved, created, indices, start, stop, heap,
                     highMark, loc>>

\* Mutant of MarkHigh: one message behind.
MarkLow(c) ==
  LET available == Cardinality(heap) - 1
  IN  /\ At(c, "mark") /\ ~ asserted
      /\ highMark' = IF available > highMark THEN available ELSE highMark
      /\ Goto(c, "restore")
      /\ UNCHANGED <<primask, saved, created, indices, start, stop, heap, data,
                     sizes, loc, asserted>>

MarkHigh(c) ==
  LET available == Cardinality(heap)
  IN  /\ At(c, "mark") /\ ~ asserted
      /\ highMark' = IF available > highMark THEN available ELSE highMark
      /\ Goto(c, "restore")
      /\ UNCHANGED <<primask, saved, created, indices, start, stop, heap, data,
                     sizes, loc, asserted>>

-----------------------------------------------------------------------------
Pop(c) ==
  /\ At(c, "pop") /\ ~ asserted
  /\ \/ /\ heap = {}
        /\ Assert(FALSE)
        /\ UNCHANGED <<heap, loc, pc>>
     \/ \E entry \in heap :
          /\ IsTop(entry)
          /\ heap' = heap \ {entry}
          /\ loc' = [loc EXCEPT ![c].index = entry.index,
                                ![c].priority = entry.priority]
          /\ Goto(c, "load")
          /\ UNCHANGED asserted
  /\ UNCHANGED <<primask, saved, created, indices, start, stop, data, sizes,
                 highMark>>

\* The message's size, the check against the receiver's buffer, load_data.
LoadData(c) ==
  LET index == loc[c].index
  IN  /\ At(c, "load") /\ ~ asserted
      /\ Assert(sizes[index] <= Capacity /\ sizes[index] <= MaxSize)
      /\ loc' = [loc EXCEPT ![c].size = sizes[index], ![c].got = data[index]]
      /\ Goto(c, "give")
      /\ UNCHANGED <<primask, saved, created, handle>>

\* Mutant of ReturnIndex: the slot goes to the front of the ring.
ReturnIndexInFront(c) ==
  /\ At(c, "give") /\ ~ asserted
  /\ indices' = [indices EXCEPT ![start] = loc[c].index]
  /\ stop' = Successor(stop)
  /\ Goto(c, "restore")
  /\ UNCHANGED <<primask, saved, created, start, heap, data, sizes, highMark,
                 loc, asserted>>

\* return_index
ReturnIndex(c) ==
  /\ At(c, "give") /\ ~ asserted
  /\ indices' = [indices EXCEPT ![stop] = loc[c].index]
  /\ stop' = Successor(stop)
  /\ Goto(c, "restore")
  /\ UNCHANGED <<primask, saved, created, start, heap, data, sizes, highMark,
                 loc, asserted>>

\* The end of the lock's scope. Of the call's variables only its results are
\* used from here on.
Unlock(c) ==
  /\ ~ asserted
  /\ RestoreInterrupts(c, "return")
  /\ LET call == loc[c]
     IN  loc' = [loc EXCEPT ![c] =
                   IF call.op = "send"
                     THEN [NoCall EXCEPT !.op = "send", !.outer = call.outer,
                                         !.status = call.status]
                     ELSE [call EXCEPT !.index = 0]]
  /\ UNCHANGED <<created, handle, asserted>>

\* Back to the caller, which ends its own critical section.
Return(c) ==
  /\ At(c, "return") /\ ~ asserted
  /\ primask' = IF loc[c].outer THEN 0 ELSE primask
  /\ saved' = [saved EXCEPT ![c] = 0]
  /\ loc' = [loc EXCEPT ![c] = NoCall]
  /\ Goto(c, "idle")
  /\ UNCHANGED <<created, handle, asserted>>

-----------------------------------------------------------------------------
QueueCall(c) ==
  \E outer \in OuterLocks :
    \/ \E size \in Sizes, priority \in Priorities :
         Send(c, size, priority, outer)
    \/ Receive(c, outer)

QueueStep(c) ==
  \/ Lock(c) \/ CheckHeap(c)
  \/ FindIndex(c) \/ Push(c) \/ StoreData(c) \/ MarkHigh(c)
  \/ Pop(c) \/ LoadData(c) \/ ReturnIndex(c)
  \/ Unlock(c) \/ Return(c)

QueueNext ==
  \/ Create \/ Teardown
  \/ \E c \in Contexts : QueueCall(c) \/ QueueStep(c)

QueueSpec == QueueInit /\ [][QueueNext]_queueVars

-----------------------------------------------------------------------------
(***************************************************************************)
(* Properties.                                                             *)
(***************************************************************************)

\* The labels between cpsid and the restoring msr.
SectionLabels == {"check", "find", "push", "store", "mark",
                  "pop", "load", "give", "restore"}

QueueLabels == SectionLabels \cup {"idle", "save", "mask", "return"}

InSection(c) == pc[c] \in SectionLabels

Calls == [op : {"none", "send", "receive"}, outer : BOOLEAN,
          size : Nat, priority : Nat, index : Slots, got : Content,
          status : {"none", "mismatch", "refused"}]

\* Every variable stays in the range its type and its writers give it.
QueueTypeOK ==
  /\ pc \in [Contexts -> QueueLabels]
  /\ primask \in {0, 1} /\ saved \in [Contexts -> {0, 1}]
  /\ created \in BOOLEAN /\ asserted \in BOOLEAN
  /\ indices \in [Slots -> Slots]
  /\ start \in Slots /\ stop \in Slots
  /\ heap \subseteq Entry
  /\ data \in [Slots -> Content] /\ sizes \in [Slots -> Content]
  /\ highMark \in 0 .. Depth
  /\ loc \in [Contexts -> Calls]

\* No FW_ASSERT of the queue fails: in particular a push always finds room, a
\* pop an entry, and a message fits the receiver's buffer (:167, :189, :191).
QueueNoAssertion == ~ asserted

\* A context whose interrupts are masked by the queue's lock or by the caller.
Masks(c) == InSection(c) \/ (loc[c].outer /\ pc[c] # "idle")

\* The lock nests: interrupts stay masked from the outermost lock to its end,
\* no handler is active above a critical section, and each lock gives back the
\* mask it found (Cpu.cpp:47-68, Lock.hpp:28-30).
SectionsMasked ==
  /\ primask = 1 <=> \E c \in Contexts : Masks(c)
  /\ \A c, d \in Contexts : c < d /\ Masks(c) => pc[d] = "idle"
  /\ \A c \in Contexts :
       InSection(c) => saved[c] = IF loc[c].outer THEN 1 ELSE 0

\* A slot that a call has taken from the ring or the heap and not yet put into
\* the other.
Carries(c) == pc[c] \in {"push", "load", "give"}

Used == Cardinality(heap) + (IF \E c \in Contexts : Carries(c) THEN 1 ELSE 0)

\* Position i of the ring is among the Depth - Used from start on.
Free(i) == (IF i >= start THEN i - start ELSE i - start + Depth) < Depth - Used

\* Each slot is in one place: free in the ring, in the heap, or carried by a
\* call. A slot in two places is a message overwritten, one in none is lost to
\* the queue for good (find_index, return_index, :37-46).
SlotsExclusive ==
  created =>
    /\ \A i, j \in Slots :
         Free(i) /\ Free(j) /\ i # j => indices[i] # indices[j]
    /\ \A i \in Slots, entry \in heap : Free(i) => indices[i] # entry.index
    /\ \A e, f \in heap : e.index = f.index => e = f
    /\ \A c \in Contexts : Carries(c) =>
         /\ \A i \in Slots : Free(i) => indices[i] # loc[c].index
         /\ \A entry \in heap : entry.index # loc[c].index

\* Whoever can look (interrupts are enabled) finds no more messages than the
\* high water mark: getMessagesAvailable takes no lock (:198, :170).
HighMarkCovers == primask = 0 => Cardinality(heap) <= highMark

-----------------------------------------------------------------------------
(***************************************************************************)
(* The queue implements PriorityQueue. A message is in the queue from the  *)
(* moment its slot is filled until it has been copied out.                 *)
(***************************************************************************)
Message == [size : {n \in Sizes : n <= MaxSize}, priority : Priorities]

\* The message a slot holds, none of Message when size and content differ.
Stored(index, priority) ==
  [size |-> IF sizes[index] = data[index] THEN sizes[index] ELSE MaxSize + 1,
   priority |-> priority]

Queued ==
  (heap \ {[index |-> loc[c].index, priority |-> loc[c].priority] :
             c \in {d \in Contexts : pc[d] = "store"}})
  \cup {[index |-> loc[c].index, priority |-> loc[c].priority] :
          c \in {d \in Contexts : pc[d] = "load"}}

Held == [m \in Message |->
  Cardinality({e \in Queued : Stored(e.index, e.priority) = m})]

AnswerOf(c) ==
  IF loc[c].status = "mismatch" THEN "none"
  ELSE IF loc[c].status = "refused"
    THEN IF loc[c].op = "send" THEN "full" ELSE "empty"
  ELSE IF pc[c] \in {"mark", "restore", "return", "give"}
    THEN IF loc[c].op = "send" THEN "sent" ELSE "received"
  ELSE "none"

TakenBy(c) ==
  IF AnswerOf(c) # "received" THEN {}
  ELSE {[size |-> IF loc[c].got = loc[c].size THEN loc[c].got ELSE MaxSize + 1,
         priority |-> loc[c].priority]}

Queue == INSTANCE PriorityQueue WITH
           Clients <- Contexts, Messages <- Message, Capacity <- Depth,
           held <- Held, count <- Cardinality(Queued),
           answer <- [c \in Contexts |-> AnswerOf(c)],
           taken <- [c \in Contexts |-> TakenBy(c)]

\* Every call takes effect at one moment between its start and its return, as
\* a step of the priority queue: no message is lost, doubled, torn or taken
\* out of priority order by an interrupt (send, receive, :149-196).
ImplementsPriorityQueue == Queue!Spec
================================================================================
