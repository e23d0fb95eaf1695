----------------------------- MODULE Mutexes_proofs ----------------------------
(***************************************************************************)
(* Proofs about Mutexes: mutual exclusion and the nesting of masked        *)
(* sections, for any number of mutexes and of interrupt priorities.        *)
(***************************************************************************)
EXTENDS Mutexes, FiniteSetTheorems, TLAPS

mutexProofVars == <<cpuVars, mutexVars>>

MutexLabels == {"idle", "mask", "taking", "body", "measure", "compare", "mark", "limit"}

\* The masking mutexes that are taken.
TakenMasking == taken \cap MaskingMutexes

\* Where interrupts must be masked: with a masking mutex held, and in a take that
\* has masked them.
InSection(c) == HeldBy(c) # {} \/ pc[c] = "taking"

MutexTypes ==
  /\ pc \in [Contexts -> MutexLabels]
  /\ primask \in {0, 1}
  /\ taken \in SUBSET Mutexes
  /\ held \in [Contexts -> SUBSET Mutexes]
  /\ DOMAIN frame = Contexts
  /\ mutexStopped \in BOOLEAN

\* Interrupts are masked in the section of one context, which nothing preempts,
\* and nowhere else.
MaskedInSections ==
  /\ primask = 1 <=> \E c \in Contexts : InSection(c)
  /\ \A c, d \in Contexts : InSection(c) /\ d > c => pc[d] = "idle"
  /\ \A c \in Contexts : HeldBy(c) # {} => HeldBy(c) = TakenMasking

\* What the outermost section gives back is the mask of a context that holds
\* nothing, and a take has read the mask it goes by.
MasksRemembered ==
  /\ depth = Cardinality(TakenMasking)
  /\ TakenMasking # {} => lastPrimask = 0
  /\ \A c \in Contexts : pc[c] \in {"mask", "taking"} =>
       /\ frame[c].mutex \in MaskingMutexes
       /\ frame[c].primask \in {0, 1}
       /\ frame[c].primask = 1 <=> HeldBy(c) # {}

IdleHoldsNothing == \A c \in Contexts : pc[c] = "idle" => held[c] = {}

MutexInv ==
  /\ MutexTypes
  /\ ~ mutexStopped =>
       OneHolder /\ MaskedInSections /\ MasksRemembered /\ IdleHoldsNothing

-----------------------------------------------------------------------------
\* Counting the masking mutexes that are taken.
LEMMA CountTaken ==
  ASSUME NEW S \in SUBSET MaskingMutexes, NEW m \in MaskingMutexes
  PROVE  /\ Cardinality(S) \in Nat
         /\ Cardinality(S) = 0 <=> S = {}
         /\ m \notin S => Cardinality(S \cup {m}) = Cardinality(S) + 1
         /\ m \in S => Cardinality(S \ {m}) = Cardinality(S) - 1
         /\ Cardinality(S) = 1 /\ m \in S => S = {m}
<1>1. IsFiniteSet(S)
  BY MutexAssumption, FS_Subset
<1>2. /\ Cardinality(S) \in Nat
      /\ Cardinality(S) = 0 <=> S = {}
  BY <1>1, FS_CardinalityType, FS_EmptySet
<1>3. m \notin S => Cardinality(S \cup {m}) = Cardinality(S) + 1
  BY <1>1, FS_AddElement
<1>4. m \in S => Cardinality(S \ {m}) = Cardinality(S) - 1
  BY <1>1, FS_RemoveElement
<1>5. IsFiniteSet(S \ {m}) /\ (Cardinality(S \ {m}) = 0 <=> S \ {m} = {})
  BY <1>1, FS_Subset, FS_EmptySet
<1>6. Cardinality(S) = 1 /\ m \in S => S = {m}
  BY <1>4, <1>5
<1> QED
  BY <1>2, <1>3, <1>4, <1>6

\* The first state.
LEMMA MutexInitial == CpuInit /\ MutexInit => MutexInv
<1> SUFFICES ASSUME CpuInit, MutexInit PROVE MutexInv
  OBVIOUS
<1>1. MutexTypes
  BY DEF CpuInit, MutexInit, MutexTypes, MutexLabels, NoMutexCall
<1>2. OneHolder
  BY DEF MutexInit, OneHolder
<1>3. TakenMasking = {} /\ \A c \in Contexts : ~ InSection(c)
  BY DEF CpuInit, MutexInit, TakenMasking, InSection, HeldBy
<1>4. MaskedInSections
  BY <1>3 DEF CpuInit, MaskedInSections, InSection
<1>5. MasksRemembered
  BY <1>3, FS_EmptySet DEF CpuInit, MutexInit, MasksRemembered
<1>6. IdleHoldsNothing
  BY DEF MutexInit, IdleHoldsNothing
<1> QED
  BY <1>1, <1>2, <1>4, <1>5, <1>6 DEF MutexInv

\* In a state of the invariant in which no call has failed.
LEMMA Unfolded ==
  ASSUME MutexInv, ~ mutexStopped
  PROVE  /\ MutexTypes /\ OneHolder /\ MaskedInSections /\ MasksRemembered
         /\ IdleHoldsNothing
  BY DEF MutexInv

\* A context that runs and holds no masking mutex runs with no section below it
\* when it is not idle, or when interrupts are enabled.
LEMMA NoSectionElsewhere ==
  ASSUME MutexInv, ~ mutexStopped, NEW c \in Contexts, Executes(c),
         pc[c] # "idle" \/ c = Main \/ primask = 0,
         NEW d \in Contexts, d # c
  PROVE  ~ InSection(d)
<1>1. CASE d > c
  BY <1>1, Unfolded DEF Executes, InSection, HeldBy, IdleHoldsNothing
<1>2. CASE d < c
  <2>1. c # Main
    BY <1>2 DEF Contexts, Main
  <2>2. CASE primask = 0
    BY <2>2, Unfolded DEF MaskedInSections
  <2>3. CASE pc[c] # "idle"
    BY <1>2, <2>3, Unfolded DEF MaskedInSections, Contexts
  <2> QED
    BY <2>1, <2>2, <2>3
<1> QED
  BY <1>1, <1>2 DEF Contexts

\* A step of a context inside a release, or into a call, that touches no mutex.
LEMMA LabelMoves ==
  ASSUME MutexInv, ~ mutexStopped, NEW c \in Contexts, Executes(c),
         pc[c] \notin {"idle", "taking"},
         NEW l \in MutexLabels \ {"mask", "taking"}, Goto(c, l),
         l = "idle" => held[c] = {},
         UNCHANGED <<primask, taken, held, depth, lastPrimask>>,
         DOMAIN frame' = Contexts,
         \A d \in Contexts \ {c} : frame'[d] = frame[d],
         mutexStopped' \in BOOLEAN
  PROVE  MutexInv'
<1>1. MutexTypes'
  BY Unfolded DEF MutexTypes, MutexLabels, Goto
<1>2. OneHolder'
  BY Unfolded DEF OneHolder
<1>3. /\ pc'[c] = l /\ \A d \in Contexts \ {c} : pc'[d] = pc[d]
      /\ \A d \in Contexts : HeldBy(d)' = HeldBy(d)
      /\ TakenMasking' = TakenMasking
  BY Unfolded DEF MutexTypes, Goto, HeldBy, TakenMasking
<1>4. \A d \in Contexts : InSection(d)' <=> InSection(d)
  BY <1>3 DEF InSection
<1>5. \A d \in Contexts \ {c} : ~ InSection(d)
  BY NoSectionElsewhere
<1>6. (primask = 1 <=> \E d \in Contexts : InSection(d))'
  BY <1>4, Unfolded DEF MaskedInSections
<1>7. \A d, e \in Contexts : InSection(d)' /\ e > d => pc'[e] = "idle"
  <2> SUFFICES ASSUME NEW d \in Contexts, NEW e \in Contexts, InSection(d), e > d
               PROVE  pc'[e] = "idle"
    BY <1>4
  <2>1. d = c
    BY <1>5
  <2>2. pc[e] = "idle" /\ e # c
    BY <2>1 DEF Executes, Contexts
  <2> QED
    BY <1>3, <2>2
<1>8. \A d \in Contexts : HeldBy(d)' # {} => HeldBy(d)' = TakenMasking'
  BY <1>3, Unfolded DEF MaskedInSections
<1>9. MasksRemembered'
  BY <1>3, Unfolded DEF MasksRemembered
<1>10. IdleHoldsNothing'
  BY <1>3, Unfolded DEF IdleHoldsNothing
<1> QED
  BY <1>1, <1>2, <1>6, <1>7, <1>8, <1>9, <1>10 DEF MutexInv, MaskedInSections

-----------------------------------------------------------------------------
\* MaskingMutex::take.
LEMMA TakeStep ==
  ASSUME MutexInv, NEW c \in Contexts, NEW m \in MaskingMutexes, Take(c, m)
  PROVE  MutexInv'
<1>1. /\ ~ mutexStopped /\ Executes(c)
      /\ MayStart(c) \/ pc[c] = "body"
      /\ pc[c] = "idle" => c = Main \/ primask = 0
  BY DEF Take, CanCall, MayStart, At
<1>2. /\ pc'[c] = "mask" /\ \A d \in Contexts \ {c} : pc'[d] = pc[d]
      /\ frame'[c].mutex = m /\ frame'[c].primask = primask
      /\ \A d \in Contexts \ {c} : frame'[d] = frame[d]
      /\ \A d \in Contexts : HeldBy(d)' = HeldBy(d)
      /\ TakenMasking' = TakenMasking
      /\ UNCHANGED <<primask, taken, depth, lastPrimask, held, mutexStopped>>
  BY <1>1, Unfolded
     DEF MutexTypes, Take, Goto, HeldBy, TakenMasking, NoMutexCall
<1>3. pc[c] # "taking"
  BY <1>1 DEF MayStart, At
<1>4. \A d \in Contexts : InSection(d)' <=> InSection(d)
  BY <1>2, <1>3 DEF InSection
<1>5. \A d \in Contexts \ {c} : ~ InSection(d)
  BY <1>1, NoSectionElsewhere DEF MayStart, At
<1>6. MutexTypes'
  BY <1>1, <1>2, Unfolded DEF MutexTypes, Take, Goto, MutexLabels
<1>7. OneHolder'
  BY <1>1, <1>2, Unfolded DEF OneHolder
<1>8. MaskedInSections'
  <2>1. (primask = 1 <=> \E d \in Contexts : InSection(d))'
    BY <1>1, <1>2, <1>4, Unfolded DEF MaskedInSections
  <2>2. \A d, e \in Contexts : InSection(d)' /\ e > d => pc'[e] = "idle"
    BY <1>1, <1>2, <1>4, <1>5 DEF Executes, Contexts
  <2> QED
    BY <1>1, <1>2, <2>1, <2>2, Unfolded DEF MaskedInSections
<1>9. primask = 1 <=> HeldBy(c) # {}
  BY <1>1, <1>3, <1>5, Unfolded DEF MaskedInSections, InSection
<1>10. MasksRemembered'
  BY <1>1, <1>2, <1>9, Unfolded DEF MasksRemembered, MutexTypes
<1>11. IdleHoldsNothing'
  BY <1>1, <1>2, Unfolded DEF IdleHoldsNothing
<1> QED
  BY <1>6, <1>7, <1>8, <1>10, <1>11 DEF MutexInv

\* take masks interrupts: whatever ran below it holds no section.
LEMMA MaskStep ==
  ASSUME MutexInv, NEW c \in Contexts, Mask(c)
  PROVE  MutexInv'
<1>1. /\ ~ mutexStopped /\ Executes(c) /\ pc[c] = "mask"
  BY DEF Mask, MaskInterrupts, At
<1>2. /\ pc'[c] = "taking" /\ \A d \in Contexts \ {c} : pc'[d] = pc[d]
      /\ primask' = 1
      /\ \A d \in Contexts : HeldBy(d)' = HeldBy(d)
      /\ TakenMasking' = TakenMasking
      /\ UNCHANGED <<frame, taken, depth, lastPrimask, held, mutexStopped>>
  BY <1>1, Unfolded
     DEF MutexTypes, Mask, MaskInterrupts, Goto, HeldBy, TakenMasking, mutexVars
<1>3. InSection(c)' /\ \A d \in Contexts \ {c} : InSection(d)' <=> InSection(d)
  BY <1>2 DEF InSection
<1>4. \A d \in Contexts \ {c} : ~ InSection(d)
  BY <1>1, NoSectionElsewhere
<1>5. MutexTypes'
  BY <1>1, <1>2, Unfolded DEF MutexTypes, Mask, MaskInterrupts, Goto, MutexLabels
<1>6. OneHolder'
  BY <1>1, <1>2, Unfolded DEF OneHolder
<1>7. MaskedInSections'
  <2>1. \A d, e \in Contexts : InSection(d)' /\ e > d => pc'[e] = "idle"
    BY <1>1, <1>2, <1>3, <1>4 DEF Executes, Contexts
  <2> QED
    BY <1>1, <1>2, <1>3, <2>1, Unfolded DEF MaskedInSections
<1>8. MasksRemembered'
  BY <1>1, <1>2, Unfolded DEF MasksRemembered
<1>9. IdleHoldsNothing'
  BY <1>1, <1>2, Unfolded DEF IdleHoldsNothing
<1> QED
  BY <1>5, <1>6, <1>7, <1>8, <1>9 DEF MutexInv

\* What a take finds that has masked interrupts.
LEMMA TakingFinds ==
  ASSUME MutexInv, ~ mutexStopped, NEW c \in Contexts, At(c, "taking")
  PROVE  /\ primask = 1
         /\ \A d \in Contexts \ {c} : ~ InSection(d)
         /\ frame[c].mutex \in MaskingMutexes /\ frame[c].primask \in {0, 1}
         /\ frame[c].primask = 1 <=> HeldBy(c) # {}
         /\ HeldBy(c) # {} => HeldBy(c) = TakenMasking
         /\ depth = 0 => TakenMasking = {} /\ HeldBy(c) = {}
<1>1. primask = 1 /\ (HeldBy(c) # {} => HeldBy(c) = TakenMasking)
  BY Unfolded DEF At, MaskedInSections, InSection
<1>2. \A d \in Contexts \ {c} : ~ InSection(d)
  BY NoSectionElsewhere DEF At
<1>3. /\ frame[c].mutex \in MaskingMutexes /\ frame[c].primask \in {0, 1}
      /\ frame[c].primask = 1 <=> HeldBy(c) # {}
  BY Unfolded DEF At, MasksRemembered
<1>4. depth = 0 => TakenMasking = {}
  BY <1>3, CountTaken, Unfolded DEF MasksRemembered, TakenMasking
<1> QED
  BY <1>1, <1>2, <1>3, <1>4

\* The mutex is granted: the context is in the section of all that are taken.
LEMMA GrantedStep ==
  ASSUME MutexInv, ~ mutexStopped, NEW c \in Contexts, At(c, "taking"),
         NEW m, m = frame[c].mutex, m \notin taken, Granted(c, m),
         \/ depth = 0 /\ lastPrimask' = 0
         \/ HeldBy(c) # {} /\ UNCHANGED lastPrimask,
         UNCHANGED <<primask, frame>>
  PROVE  MutexInv'
<1>1. /\ m \in MaskingMutexes /\ primask = 1
      /\ \A d \in Contexts \ {c} : HeldBy(d) = {} /\ pc[d] # "taking"
      /\ HeldBy(c) = TakenMasking
      /\ lastPrimask' = 0
  BY TakingFinds, Unfolded DEF InSection, MasksRemembered
<1>2. /\ taken' = taken \cup {m}
      /\ held'[c] = held[c] \cup {m} /\ \A d \in Contexts \ {c} : held'[d] = held[d]
      /\ pc'[c] = "body" /\ \A d \in Contexts \ {c} : pc'[d] = pc[d]
      /\ depth' = depth + 1 /\ mutexStopped' = FALSE
  BY Unfolded DEF MutexTypes, Granted, Goto
<1>3. /\ HeldBy(c)' = HeldBy(c) \cup {m}
      /\ \A d \in Contexts \ {c} : HeldBy(d)' = {}
      /\ TakenMasking' = TakenMasking \cup {m}
  BY <1>1, <1>2 DEF HeldBy, TakenMasking
<1>4. InSection(c)' /\ \A d \in Contexts \ {c} : ~ InSection(d)'
  BY <1>1, <1>2, <1>3 DEF InSection
<1>5. MutexTypes'
  BY <1>1, <1>2, Unfolded DEF MutexTypes, Granted, Goto, MutexLabels, Mutexes
<1>6. OneHolder'
  <2>1. \A d \in Contexts : m \notin held[d]
    BY Unfolded DEF OneHolder
  <2>2. taken' = UNION {held'[d] : d \in Contexts}
    BY <1>2, Unfolded DEF OneHolder
  <2> QED
    BY <1>2, <2>1, <2>2, Unfolded DEF OneHolder
<1>7. MaskedInSections'
  <2>1. \A d, e \in Contexts : InSection(d)' /\ e > d => pc'[e] = "idle"
    BY <1>2, <1>4 DEF At, Executes, Contexts
  <2> QED
    BY <1>1, <1>3, <1>4, <2>1 DEF MaskedInSections
<1>8. Cardinality(TakenMasking \cup {m}) = Cardinality(TakenMasking) + 1
  BY <1>1, CountTaken DEF TakenMasking
<1>9. MasksRemembered'
  <2>1. (depth = Cardinality(TakenMasking))'
    BY <1>2, <1>3, <1>8, Unfolded DEF MasksRemembered
  <2> QED
    BY <1>1, <1>2, <1>3, <2>1, Unfolded DEF MasksRemembered
<1>10. IdleHoldsNothing'
  BY <1>2, Unfolded DEF IdleHoldsNothing
<1> QED
  BY <1>5, <1>6, <1>7, <1>9, <1>10 DEF MutexInv

\* A call that fails ends the software.
LEMMA FailedStep ==
  ASSUME MutexInv, mutexStopped', MutexTypes'
  PROVE  MutexInv'
  BY DEF MutexInv

\* The first mutex to be taken begins a section.
LEMMA TakeOuterStep ==
  ASSUME MutexInv, NEW c \in Contexts, TakeOuter(c)
  PROVE  MutexInv'
<1>1. ~ mutexStopped /\ At(c, "taking")
  BY DEF TakeOuter, In
<1>2. CASE Granted(c, frame[c].mutex)
  <2>1. frame[c].primask = 0
    BY <1>1, TakingFinds DEF TakeOuter
  <2> QED
    BY <1>1, <1>2, <2>1, GrantedStep DEF TakeOuter
<1>3. CASE TakeFails(frame[c].mutex)
  <2>1. frame[c].mutex \in MaskingMutexes
    BY <1>1, TakingFinds
  <2>2. MutexTypes'
    BY <1>1, <1>3, <2>1, Unfolded DEF TakeOuter, TakeFails, MutexTypes, Mutexes
  <2> QED
    BY <1>3, <2>2, FailedStep DEF TakeFails
<1> QED
  BY <1>2, <1>3 DEF TakeOuter

\* A further mutex is taken in the section there is.
LEMMA TakeInnerStep ==
  ASSUME MutexInv, NEW c \in Contexts, TakeInner(c)
  PROVE  MutexInv'
<1>1. ~ mutexStopped /\ At(c, "taking")
  BY DEF TakeInner, In
<1>2. CASE frame[c].primask = 1
  BY <1>1, <1>2, TakingFinds, GrantedStep DEF TakeInner
<1>3. CASE frame[c].primask # 1
  <2>1. frame[c].mutex \in MaskingMutexes
    BY <1>1, TakingFinds
  <2>2. MutexTypes' /\ mutexStopped'
    BY <1>1, <1>3, <2>1, Unfolded DEF TakeInner, TakeFails, MutexTypes, Mutexes
  <2> QED
    BY <2>2, FailedStep
<1> QED
  BY <1>2, <1>3

\* A mutex that is taken is an error.
LEMMA TakeBusyStep ==
  ASSUME MutexInv, NEW c \in Contexts, TakeBusy(c)
  PROVE  MutexInv'
<1>1. frame[c].primask \in {0, 1}
  BY TakingFinds DEF TakeBusy, In
<1>2. MutexTypes' /\ mutexStopped'
  BY <1>1 DEF MutexInv, TakeBusy, MutexTypes
<1> QED
  BY <1>2, FailedStep

-----------------------------------------------------------------------------
\* MaskingMutex::release.
LEMMA ReleaseFailsStep ==
  ASSUME MutexInv, NEW c \in Contexts, NEW m \in MaskingMutexes, ReleaseFails(c, m)
  PROVE  MutexInv'
<1>1. MutexTypes' /\ mutexStopped'
  BY DEF MutexInv, ReleaseFails, MutexTypes
<1> QED
  BY <1>1, FailedStep

\* What a release finds: its own section, above which nothing runs.
LEMMA ReleasedFinds ==
  ASSUME MutexInv, NEW c \in Contexts, NEW m \in MaskingMutexes, Released(c, m)
  PROVE  /\ ~ mutexStopped /\ Executes(c) /\ pc[c] = "body"
         /\ m \in HeldBy(c) /\ HeldBy(c) = TakenMasking /\ InSection(c)
         /\ \A d \in Contexts \ {c} : ~ InSection(d)
         /\ primask = 1 /\ lastPrimask = 0
         /\ taken' = taken \ {m}
         /\ held'[c] = held[c] \ {m} /\ \A d \in Contexts \ {c} : held'[d] = held[d]
         /\ HeldBy(c)' = HeldBy(c) \ {m} /\ TakenMasking' = TakenMasking \ {m}
         /\ \A d \in Contexts \ {c} : HeldBy(d)' = {}
         /\ OneHolder'
<1>1. ~ mutexStopped /\ Executes(c) /\ m \in held[c] /\ (MayStart(c) \/ pc[c] = "body")
  BY DEF Released, CanCall, MayStart, At
<1>2. pc[c] = "body"
  BY <1>1, Unfolded DEF MayStart, At, IdleHoldsNothing
<1>3. m \in HeldBy(c) /\ HeldBy(c) = TakenMasking /\ InSection(c)
  BY <1>1, Unfolded DEF HeldBy, MaskedInSections, InSection
<1>4. \A d \in Contexts \ {c} : ~ InSection(d)
  BY <1>1, <1>2, NoSectionElsewhere
<1>5. primask = 1 /\ lastPrimask = 0
  BY <1>1, <1>3, Unfolded DEF MaskedInSections, MasksRemembered
<1>6. /\ taken' = taken \ {m}
      /\ held'[c] = held[c] \ {m} /\ \A d \in Contexts \ {c} : held'[d] = held[d]
  BY <1>1, Unfolded DEF Released, MutexTypes
<1>7. /\ HeldBy(c)' = HeldBy(c) \ {m} /\ TakenMasking' = TakenMasking \ {m}
      /\ \A d \in Contexts \ {c} : HeldBy(d)' = {}
  BY <1>4, <1>6 DEF HeldBy, TakenMasking, InSection
<1>8. OneHolder'
  <2>1. \A d \in Contexts \ {c} : m \notin held[d]
    BY <1>1, Unfolded DEF OneHolder
  <2>2. taken' = UNION {held'[d] : d \in Contexts}
    BY <1>1, <1>6, <2>1, Unfolded DEF OneHolder
  <2>3. \A d, e \in Contexts : d # e => held'[d] \cap held'[e] = {}
    BY <1>1, <1>6, Unfolded DEF OneHolder
  <2> QED
    BY <2>2, <2>3 DEF OneHolder
<1> QED
  BY <1>1, <1>2, <1>3, <1>4, <1>5, <1>6, <1>7, <1>8

\* A release that leaves others taken keeps the section.
LEMMA ReleaseInnerStep ==
  ASSUME MutexInv, NEW c \in Contexts, NEW m \in MaskingMutexes, ReleaseInner(c, m)
  PROVE  MutexInv'
<1>1. Released(c, m) /\ depth > 1 /\ depth' = depth - 1
  BY DEF ReleaseInner
<1>2. Cardinality(TakenMasking \ {m}) = Cardinality(TakenMasking) - 1
  BY <1>1, ReleasedFinds, CountTaken DEF TakenMasking
<1>3. /\ depth = Cardinality(TakenMasking)
      /\ Cardinality(TakenMasking) \in Nat
      /\ Cardinality(TakenMasking \ {m}) = 0 <=> TakenMasking \ {m} = {}
  BY <1>1, ReleasedFinds, CountTaken, Unfolded DEF MasksRemembered, TakenMasking
<1>4. HeldBy(c)' # {} /\ HeldBy(c)' = TakenMasking'
  <2>1. Cardinality(TakenMasking \ {m}) # 0
    BY <1>1, <1>2, <1>3
  <2>2. /\ HeldBy(c)' = HeldBy(c) \ {m} /\ TakenMasking' = TakenMasking \ {m}
        /\ HeldBy(c) = TakenMasking
    BY <1>1, ReleasedFinds
  <2> QED
    BY <1>3, <2>1, <2>2
<1>5. /\ pc'[c] = "body" /\ \A d \in Contexts \ {c} : pc'[d] = pc[d]
      /\ UNCHANGED <<primask, lastPrimask, frame, mutexStopped>>
  BY <1>1, <1>4, ReleasedFinds, Unfolded
     DEF ReleaseInner, LeaveCall, Goto, MutexTypes, HeldBy
<1>6. MutexTypes'
  BY <1>1, ReleasedFinds, Unfolded
     DEF ReleaseInner, Released, LeaveCall, Goto, MutexTypes, MutexLabels
<1>7. InSection(c)' /\ \A d \in Contexts \ {c} : ~ InSection(d)'
  BY <1>1, <1>4, <1>5, ReleasedFinds DEF InSection
<1>8. MaskedInSections'
  <2>1. \A d, e \in Contexts : InSection(d)' /\ e > d => pc'[e] = "idle"
    BY <1>1, <1>5, <1>7, ReleasedFinds DEF Executes, Contexts
  <2> QED
    BY <1>1, <1>4, <1>5, <1>7, <2>1, ReleasedFinds DEF MaskedInSections, InSection
<1>9. MasksRemembered'
  <2>1. (depth = Cardinality(TakenMasking))'
    BY <1>1, <1>2, <1>3, ReleasedFinds
  <2>2. \A d \in Contexts \ {c} : HeldBy(d)' = HeldBy(d)
    BY <1>1, ReleasedFinds DEF InSection
  <2> QED
    BY <1>1, <1>5, <2>1, <2>2, ReleasedFinds, Unfolded DEF MasksRemembered
<1>10. IdleHoldsNothing'
  BY <1>1, <1>5, ReleasedFinds, Unfolded DEF IdleHoldsNothing
<1> QED
  BY <1>1, <1>6, <1>8, <1>9, <1>10, ReleasedFinds DEF MutexInv

\* The outermost release enables interrupts: its context held the only section.
LEMMA ReleaseOuterStep ==
  ASSUME MutexInv, NEW c \in Contexts, NEW m \in MaskingMutexes, ReleaseOuter(c, m)
  PROVE  MutexInv'
<1>1. Released(c, m) /\ depth = 1 /\ depth' = 0 /\ primask' = 0
  BY ReleasedFinds DEF ReleaseOuter
<1>2. MutexTypes'
  <2>1. mutexStopped' \in BOOLEAN
    BY DEF MutexInv, MutexTypes, ReleaseOuter
  <2>2. pc' \in [Contexts -> MutexLabels]
    BY DEF MutexInv, MutexTypes, ReleaseOuter, Goto, MutexLabels
  <2>3. DOMAIN frame' = Contexts
    BY DEF MutexInv, MutexTypes, ReleaseOuter
  <2> QED
    BY <1>1, <2>1, <2>2, <2>3 DEF MutexInv, MutexTypes, Released
<1>3. CASE mutexStopped'
  BY <1>2, <1>3, FailedStep
<1>4. CASE ~ mutexStopped'
  <2>1. /\ pc'[c] = "measure" /\ \A d \in Contexts \ {c} : pc'[d] = pc[d]
        /\ \A d \in Contexts \ {c} : frame'[d] = frame[d]
    BY <1>1, <1>4, ReleasedFinds, Unfolded DEF ReleaseOuter, Goto, MutexTypes
  <2>2. TakenMasking = {m}
    BY <1>1, ReleasedFinds, CountTaken, Unfolded DEF MasksRemembered, TakenMasking
  <2>3. TakenMasking' = {} /\ \A d \in Contexts : HeldBy(d)' = {}
    BY <1>1, <2>2, ReleasedFinds
  <2>4. \A d \in Contexts : ~ InSection(d)'
    BY <1>1, <2>1, <2>3, ReleasedFinds DEF InSection
  <2>5. MaskedInSections'
    BY <1>1, <2>3, <2>4 DEF MaskedInSections
  <2>6. MasksRemembered'
    <3>1. (depth = Cardinality(TakenMasking))'
      BY <1>1, <2>3, FS_EmptySet
    <3>2. \A d \in Contexts \ {c} : HeldBy(d)' = HeldBy(d)
      BY <1>1, ReleasedFinds DEF InSection
    <3> QED
      BY <1>1, <2>1, <2>3, <3>1, <3>2, ReleasedFinds, Unfolded DEF MasksRemembered
  <2>7. IdleHoldsNothing'
    BY <1>1, <2>1, ReleasedFinds, Unfolded DEF IdleHoldsNothing
  <2> QED
    BY <1>1, <1>2, <2>5, <2>6, <2>7, ReleasedFinds DEF MutexInv
<1> QED
  BY <1>3, <1>4

\* The steps after interrupts have been given back.
LEMMA MeasureSteps ==
  ASSUME MutexInv, NEW c \in Contexts,
         Measure(c) \/ CompareMark(c) \/ StoreMark(c) \/ CheckLimit(c)
  PROVE  MutexInv'
<1>1. CASE Measure(c)
  <2>1. /\ ~ mutexStopped /\ Executes(c) /\ pc[c] = "measure" /\ Goto(c, "compare")
        /\ UNCHANGED <<primask, taken, held, depth, lastPrimask>>
        /\ DOMAIN frame' = Contexts /\ mutexStopped' \in BOOLEAN
        /\ \A d \in Contexts \ {c} : frame'[d] = frame[d]
    BY <1>1 DEF MutexInv, MutexTypes, Measure, In, At, Set
  <2> QED
    BY <2>1, LabelMoves DEF MutexLabels
<1>2. CASE CompareMark(c)
  <2>1. /\ ~ mutexStopped /\ Executes(c) /\ pc[c] = "compare"
        /\ Goto(c, "mark") \/ Goto(c, "limit")
        /\ UNCHANGED <<primask, taken, held, depth, lastPrimask, frame>>
        /\ DOMAIN frame = Contexts /\ mutexStopped' \in BOOLEAN
    BY <1>2 DEF MutexInv, MutexTypes, CompareMark, In, At, mutexVars
  <2> QED
    BY <2>1, LabelMoves DEF MutexLabels
<1>3. CASE StoreMark(c)
  <2>1. /\ ~ mutexStopped /\ Executes(c) /\ pc[c] = "mark" /\ Goto(c, "limit")
        /\ UNCHANGED <<primask, taken, held, depth, lastPrimask, frame>>
        /\ DOMAIN frame = Contexts /\ mutexStopped' \in BOOLEAN
    BY <1>3 DEF MutexInv, MutexTypes, StoreMark, In, At
  <2> QED
    BY <2>1, LabelMoves DEF MutexLabels
<1>4. CASE CheckLimit(c)
  <2>1. /\ ~ mutexStopped /\ Executes(c) /\ pc[c] = "limit"
        /\ Goto(c, "body") \/ (held[c] = {} /\ Goto(c, "idle"))
        /\ UNCHANGED <<primask, taken, held, depth, lastPrimask, frame>>
        /\ DOMAIN frame = Contexts /\ mutexStopped' \in BOOLEAN
    BY <1>4 DEF MutexInv, MutexTypes, CheckLimit, LeaveCall, In, At
  <2> QED
    BY <2>1, LabelMoves DEF MutexLabels
<1> QED
  BY <1>1, <1>2, <1>3, <1>4

-----------------------------------------------------------------------------
\* An atomic mutex is taken or released: masked sections stay as they are.
LEMMA AtomicStep ==
  ASSUME MutexInv, NEW c \in Contexts, CanCall(c),
         NEW T \in SUBSET Mutexes, NEW H \in SUBSET Mutexes,
         T \cap MaskingMutexes = TakenMasking, H \cap MaskingMutexes = HeldBy(c),
         taken' = T, held' = [held EXCEPT ![c] = H],
         NEW l \in {"body", "idle"}, Goto(c, l), l = "idle" => H = {},
         OneHolder',
         UNCHANGED <<primask, depth, lastPrimask, frame, mutexStopped>>
  PROVE  MutexInv'
<1>1. /\ ~ mutexStopped /\ Executes(c) /\ pc[c] \in {"idle", "body"}
      /\ pc[c] # "idle" \/ c = Main \/ primask = 0
  BY DEF CanCall, MayStart, At
<1>2. /\ pc'[c] = l /\ \A d \in Contexts \ {c} : pc'[d] = pc[d]
      /\ held'[c] = H /\ \A d \in Contexts \ {c} : held'[d] = held[d]
  BY <1>1, Unfolded DEF Goto, MutexTypes
<1>3. TakenMasking' = TakenMasking /\ \A d \in Contexts : HeldBy(d)' = HeldBy(d)
  BY <1>2 DEF HeldBy, TakenMasking
<1>4. \A d \in Contexts : InSection(d)' <=> InSection(d)
  BY <1>1, <1>2, <1>3 DEF InSection
<1>5. \A d \in Contexts \ {c} : ~ InSection(d)
  BY <1>1, NoSectionElsewhere
<1>6. MutexTypes'
  BY <1>1, Unfolded DEF MutexTypes, Goto, MutexLabels
<1>7. MaskedInSections'
  <2>1. \A d, e \in Contexts : InSection(d)' /\ e > d => pc'[e] = "idle"
    BY <1>1, <1>2, <1>4, <1>5 DEF Executes, Contexts
  <2>2. (primask = 1 <=> \E d \in Contexts : InSection(d))'
    BY <1>1, <1>4, Unfolded DEF MaskedInSections
  <2> QED
    BY <1>1, <1>3, <2>1, <2>2, Unfolded DEF MaskedInSections
<1>8. MasksRemembered'
  BY <1>1, <1>2, <1>3, Unfolded DEF MasksRemembered
<1>9. IdleHoldsNothing'
  BY <1>1, <1>2, Unfolded DEF IdleHoldsNothing
<1> QED
  BY <1>6, <1>7, <1>8, <1>9 DEF MutexInv

\* AtomicMutex::take: of two contexts only one finds it free.
LEMMA TakeAtomicStep ==
  ASSUME MutexInv, NEW c \in Contexts, NEW m \in AtomicMutexes, TakeAtomic(c, m)
  PROVE  MutexInv'
<1>1. m \in Mutexes /\ m \notin MaskingMutexes /\ CanCall(c) /\ ~ mutexStopped
  BY MutexAssumption DEF Mutexes, TakeAtomic, CanCall
<1>2. CASE m \in taken
  <2>1. MutexTypes' /\ mutexStopped'
    BY <1>1, <1>2 DEF MutexInv, MutexTypes, TakeAtomic
  <2> QED
    BY <2>1, FailedStep
<1>3. CASE m \notin taken
  <2> DEFINE T == taken \cup {m}  H == held[c] \cup {m}
  <2>1. /\ taken' = T /\ held' = [held EXCEPT ![c] = H] /\ Goto(c, "body")
        /\ UNCHANGED <<primask, depth, lastPrimask, frame, mutexStopped>>
    BY <1>3 DEF TakeAtomic
  <2>2. T \in SUBSET Mutexes /\ H \in SUBSET Mutexes
    BY <1>1, Unfolded DEF MutexTypes
  <2>3. T \cap MaskingMutexes = TakenMasking /\ H \cap MaskingMutexes = HeldBy(c)
    BY <1>1 DEF TakenMasking, HeldBy
  <2>4. OneHolder'
    <3>1. held'[c] = H /\ \A d \in Contexts \ {c} : held'[d] = held[d]
      BY <1>1, <2>1, Unfolded DEF MutexTypes
    <3>2. \A d \in Contexts : m \notin held[d]
      BY <1>1, <1>3, Unfolded DEF OneHolder
    <3>3. taken' = UNION {held'[d] : d \in Contexts}
      BY <1>1, <2>1, <3>1, Unfolded DEF OneHolder
    <3>4. \A d, e \in Contexts : d # e => held'[d] \cap held'[e] = {}
      BY <1>1, <3>1, <3>2, Unfolded DEF OneHolder
    <3> QED
      BY <3>3, <3>4 DEF OneHolder
  <2> QED
    BY <1>1, <2>1, <2>2, <2>3, <2>4, AtomicStep
<1> QED
  BY <1>2, <1>3

\* AtomicMutex::release.
LEMMA ReleaseAtomicStep ==
  ASSUME MutexInv, NEW c \in Contexts, NEW m \in AtomicMutexes, ReleaseAtomic(c, m)
  PROVE  MutexInv'
<1>1. m \notin MaskingMutexes /\ CanCall(c) /\ ~ mutexStopped
  BY MutexAssumption DEF ReleaseAtomic, CanCall
<1>2. CASE m \notin held[c]
  <2>1. MutexTypes' /\ mutexStopped'
    BY <1>2 DEF MutexInv, MutexTypes, ReleaseAtomic
  <2> QED
    BY <2>1, FailedStep
<1>3. CASE m \in held[c]
  <2> DEFINE T == taken \ {m}  H == held[c] \ {m}
  <2>1. /\ taken' = T /\ held' = [held EXCEPT ![c] = H]
        /\ UNCHANGED <<primask, depth, lastPrimask, frame, mutexStopped>>
    BY <1>3 DEF ReleaseAtomic
  <2>2. held'[c] = H /\ \A d \in Contexts \ {c} : held'[d] = held[d]
    BY <1>1, <2>1, Unfolded DEF MutexTypes
  <2>3. Goto(c, "body") \/ (H = {} /\ Goto(c, "idle"))
    BY <1>3, <2>2 DEF ReleaseAtomic, LeaveCall
  <2>4. T \in SUBSET Mutexes /\ H \in SUBSET Mutexes
    BY <1>1, Unfolded DEF MutexTypes
  <2>5. T \cap MaskingMutexes = TakenMasking /\ H \cap MaskingMutexes = HeldBy(c)
    BY <1>1 DEF TakenMasking, HeldBy
  <2>6. OneHolder'
    <3>1. \A d \in Contexts \ {c} : m \notin held[d]
      BY <1>1, <1>3, Unfolded DEF OneHolder
    <3>2. taken' = UNION {held'[d] : d \in Contexts}
      BY <1>1, <2>1, <2>2, <3>1, Unfolded DEF OneHolder
    <3>3. \A d, e \in Contexts : d # e => held'[d] \cap held'[e] = {}
      BY <1>1, <2>2, Unfolded DEF OneHolder
    <3> QED
      BY <3>2, <3>3 DEF OneHolder
  <2>7. CASE Goto(c, "body")
    BY <1>1, <2>1, <2>4, <2>5, <2>6, <2>7, AtomicStep
  <2>8. CASE H = {} /\ Goto(c, "idle")
    BY <1>1, <2>1, <2>4, <2>5, <2>6, <2>8, AtomicStep
  <2> QED
    BY <2>3, <2>7, <2>8
<1> QED
  BY <1>2, <1>3

\* Time, the limit and stuttering are of no consequence.
LEMMA OtherSteps ==
  ASSUME MutexInv,
         \/ \E l \in 0 .. MaxTime : ConfigureLimit(l)
         \/ PassTime
         \/ UNCHANGED mutexProofVars
  PROVE  MutexInv'
<1>1. /\ UNCHANGED <<pc, primask, taken, held, depth, lastPrimask, frame>>
      /\ mutexStopped' = mutexStopped \/ mutexStopped' = TRUE
  BY DEF ConfigureLimit, PassTime, mutexProofVars, cpuVars, mutexVars
<1>2. MutexTypes'
  BY <1>1 DEF MutexInv, MutexTypes
<1>3. CASE mutexStopped' = TRUE
  BY <1>2, <1>3, FailedStep
<1>4. CASE mutexStopped' = mutexStopped
  BY <1>1, <1>2, <1>4
     DEF MutexInv, OneHolder, MaskedInSections, MasksRemembered, IdleHoldsNothing,
         InSection, HeldBy, TakenMasking
<1> QED
  BY <1>1, <1>3, <1>4

-----------------------------------------------------------------------------
\* Every step keeps the invariant.
LEMMA MutexStep == MutexInv /\ [MutexNext]_mutexProofVars => MutexInv'
<1> SUFFICES ASSUME MutexInv, [MutexNext]_mutexProofVars PROVE MutexInv'
  OBVIOUS
<1>1. ASSUME NEW c \in Contexts, NEW m \in MaskingMutexes,
             \/ Take(c, m) \/ ReleaseFails(c, m) \/ ReleaseInner(c, m)
             \/ ReleaseOuter(c, m)
      PROVE  MutexInv'
  BY <1>1, TakeStep, ReleaseFailsStep, ReleaseInnerStep, ReleaseOuterStep
<1>2. ASSUME NEW c \in Contexts,
             Mask(c) \/ TakeBusy(c) \/ TakeOuter(c) \/ TakeInner(c)
      PROVE  MutexInv'
  BY <1>2, MaskStep, TakeBusyStep, TakeOuterStep, TakeInnerStep
<1>3. ASSUME NEW c \in Contexts,
             Measure(c) \/ CompareMark(c) \/ StoreMark(c) \/ CheckLimit(c)
      PROVE  MutexInv'
  BY <1>3, MeasureSteps
<1>4. ASSUME NEW c \in Contexts, NEW m \in AtomicMutexes,
             TakeAtomic(c, m) \/ ReleaseAtomic(c, m)
      PROVE  MutexInv'
  BY <1>4, TakeAtomicStep, ReleaseAtomicStep
<1> QED
  BY <1>1, <1>2, <1>3, <1>4, OtherSteps DEF MutexNext

\* The inductive invariant: where interrupts are masked and what the outermost
\* section remembers (MaskingMutex.cpp:37-106).
THEOREM MutexInvariance == MutexSpec => []MutexInv
<1>1. MutexAloneInit => MutexInv
  BY MutexInitial DEF MutexAloneInit
<1> QED
  BY <1>1, MutexStep, PTL DEF MutexSpec, mutexProofVars

\* Each mutex has one holder and sections nest, for any number of mutexes of both
\* kinds, any depth of nesting and any priorities (MaskingMutex.cpp:39-65, :68-103;
\* AtomicMutex.cpp:17-36).
THEOREM MutexesExclude == MutexSpec => []MutualExclusion
<1>1. MutexInv => MutualExclusion
  <2> SUFFICES ASSUME MutexInv, ~ mutexStopped PROVE OneHolder /\ SectionsNest
    BY DEF MutualExclusion
  <2>1. ASSUME NEW c \in Contexts, At(c, "body") \/ (c = Main /\ AllIdle)
        PROVE  primask = 1 <=> HeldBy(c) # {}
    <3>1. Executes(c) /\ pc[c] # "taking"
      BY <2>1 DEF At, AllIdle, Executes
    <3>2. \A d \in Contexts \ {c} : ~ InSection(d)
      BY <2>1, <3>1, NoSectionElsewhere DEF At
    <3> QED
      BY <3>1, <3>2, Unfolded DEF MaskedInSections, InSection
  <2>2. /\ depth = Cardinality(taken \cap MaskingMutexes)
        /\ \A c \in Contexts : HeldBy(c) # {} => HeldBy(c) = taken \cap MaskingMutexes
    BY Unfolded DEF MasksRemembered, MaskedInSections, TakenMasking
  <2> QED
    BY <2>1, <2>2, Unfolded DEF SectionsNest
<1> QED
  BY <1>1, MutexInvariance, PTL
================================================================================
