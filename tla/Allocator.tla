------------------------------- MODULE Allocator -------------------------------
(***************************************************************************)
(* Va416x0/Svc/StrictMallocAllocator: memory of the heap, counted per      *)
(* identifier by what malloc really takes, until allocation is disabled.   *)
(***************************************************************************)
EXTENDS Integers, FiniteSetsExt

CONSTANTS
  NumIds,       \* m_numIds
  HeapBlocks,   \* size of the heap, in blocks
  MaxRequest    \* the largest request, in blocks

ASSUME AllocatorAssumption ==
  NumIds \in Nat \ {0} /\ HeapBlocks \in Nat /\ MaxRequest \in Nat \ {0}

VARIABLES
  heapUsed,         \* mallinfo().uordblks
  allocations,      \* m_allocations
  internal,         \* m_internalAllocation
  preRegister,      \* m_preRegisterAllocation
  defaultId,        \* m_defaultId
  registered,       \* setup has been called
  allowAllocation,  \* m_allowAllocation
  elsewhere,        \* memory taken from malloc directly since setup (ghost)
  allocatorStopped  \* an assertion has failed

allocatorVars == <<heapUsed, allocations, internal, preRegister, defaultId,
                   registered, allowAllocation, elsewhere, allocatorStopped>>

Ids == 0 .. NumIds - 1
DefaultId == -1      \* MemoryIdScope::DEFAULT_ID
InvalidId == NumIds  \* an identifier out of range

AllocatorInit ==
  /\ heapUsed = 0 /\ allocations = [id \in Ids |-> 0]
  /\ internal = 0 /\ preRegister = 0 /\ defaultId = 0
  /\ registered = FALSE /\ allowAllocation = TRUE
  /\ elsewhere = 0 /\ allocatorStopped = FALSE

\* What malloc takes for a request: itself, and sometimes one block more.
Taken(n) == {n, n + 1}

\* The heap gives memory as long as it has some.
wrapMalloc(n, actual) ==
  /\ actual \in Taken(n) /\ heapUsed + actual <= HeapBlocks
  /\ heapUsed' = heapUsed + actual

\* setup: the table is allocated, and what has been before is counted apart.
AllocatorSetup(id) ==
  /\ ~ registered /\ ~ allocatorStopped
  /\ \E actual \in Taken(1) :
       /\ wrapMalloc(1, actual)
       /\ internal' = actual
  /\ preRegister' = heapUsed'
  /\ defaultId' = id
  /\ registered' = TRUE
  /\ UNCHANGED <<allocations, allowAllocation, elsewhere, allocatorStopped>>

\* Mutant of IdOf: an invalid identifier is not counted.
IdAsGiven(identifier) == IF identifier = DefaultId THEN defaultId ELSE identifier

\* The default, or an invalid identifier, stand for the default identifier.
IdOf(identifier) == IF identifier \in Ids THEN identifier ELSE defaultId

\* allocate, with an assertion once allocation has been disabled.
Allocate(identifier, n) ==
  /\ registered /\ ~ allocatorStopped
  /\ IF ~ allowAllocation
     THEN allocatorStopped' = TRUE /\ UNCHANGED <<heapUsed, allocations>>
     ELSE /\ \E actual \in Taken(n) :
               /\ wrapMalloc(n, actual)
               /\ allocations' = [id \in Ids |-> allocations[id]
                                    + (IF id = IdOf(identifier) THEN actual ELSE 0)]
          /\ UNCHANGED allocatorStopped
  /\ UNCHANGED <<internal, preRegister, defaultId, registered, allowAllocation,
                 elsewhere>>

\* No memory: size 0, and nothing is counted.
AllocateNothing(n) ==
  /\ registered /\ ~ allocatorStopped /\ allowAllocation
  /\ heapUsed + n > HeapBlocks
  /\ UNCHANGED allocatorVars

\* deallocate always asserts.
Deallocate ==
  /\ registered /\ ~ allocatorStopped
  /\ allocatorStopped' = TRUE
  /\ UNCHANGED <<heapUsed, allocations, internal, preRegister, defaultId, registered,
                 allowAllocation, elsewhere>>

SetDefaultId(id) ==
  /\ registered /\ ~ allocatorStopped
  /\ defaultId' = id
  /\ UNCHANGED <<heapUsed, allocations, internal, preRegister, registered,
                 allowAllocation, elsewhere, allocatorStopped>>

DisableAllocation ==
  /\ registered /\ ~ allocatorStopped
  /\ allowAllocation' = FALSE
  /\ UNCHANGED <<heapUsed, allocations, internal, preRegister, defaultId, registered,
                 elsewhere, allocatorStopped>>

\* The C library allocates for itself.
MallocElsewhere(n) ==
  /\ \E actual \in Taken(n) :
       /\ wrapMalloc(n, actual)
       /\ elsewhere' = IF registered THEN elsewhere + actual ELSE elsewhere
  /\ UNCHANGED <<allocations, internal, preRegister, defaultId, registered,
                 allowAllocation, allocatorStopped>>

AllocatorNext ==
  \/ \E id \in Ids : AllocatorSetup(id) \/ SetDefaultId(id)
  \/ \E id \in Ids \cup {DefaultId, InvalidId}, n \in 1 .. MaxRequest : Allocate(id, n)
  \/ \E n \in 1 .. MaxRequest : AllocateNothing(n) \/ MallocElsewhere(n)
  \/ Deallocate \/ DisableAllocation

AllocatorSpec == AllocatorInit /\ [][AllocatorNext]_allocatorVars

-----------------------------------------------------------------------------
\* The total of reportAllocation.
Total == preRegister + MapThenSumSet(LAMBDA id : allocations[id], Ids)

\* Everything taken through the allocator is in the total, whichever identifier
\* it was asked for under, and the report's remainder (uordblks - total) is what
\* the C library has taken (StrictMallocAllocator.cpp:51-60, :67-84, :88-120,
\* :146-180).
AllocationsAccounted ==
  registered => heapUsed - Total = elsewhere /\ internal <= preRegister
================================================================================
