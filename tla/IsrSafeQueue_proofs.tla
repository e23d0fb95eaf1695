------------------------- MODULE IsrSafeQueue_proofs -------------------------
(***************************************************************************)
(* Theorems of IsrSafeQueue for every depth of the queue, every set of     *)
(* messages and every number of interrupt priorities.                      *)
(*                                                                         *)
(* The argument has three parts. Masked: whoever is between the locking and *)
(* the restoring instruction is alone there, so that a call's steps inside *)
(* are not interleaved with any other's. Ring: seen from inside, taking a  *)
(* slot from the front of the ring and putting one behind its end keep     *)
(* every slot in one place; this needs that the free part of the ring ends *)
(* where stop points, which SlotsExclusive does not say. Whole: every slot *)
(* in use holds the size and bytes its message was sent with, so that the  *)
(* masked section of a call, which ends at its unmasking, is one operation *)
(* of PriorityQueue and every step before and after it stutters.           *)
(***************************************************************************)
EXTENDS IsrSafeQueue, FiniteSetTheorems, TLAPS

\* The lock that is about to be taken, or is held, has seen the caller's mask.
SavedMask ==
  \A c \in Contexts :
    InSection(c) \/ pc[c] = "mask" =>
      saved[c] = IF loc[c].outer THEN 1 ELSE 0

Masked == SectionsMasked /\ SavedMask

(***************************************************************************)
(* The ring ix with its indices st and sp, the entries hp of the heap and  *)
(* the set cs of slots that are carried, n of the slots being in use.      *)
(***************************************************************************)
Offset(st, i) == IF i >= st THEN i - st ELSE i - st + Depth

RingOf(ix, st, sp, hp, cs, n) ==
  /\ n \in 0 .. Depth
  /\ n = Depth => sp = st
  /\ n < Depth => Offset(st, sp) = IF n = 0 THEN 0 ELSE Depth - n
  /\ \A i, j \in Slots :
       /\ i # j /\ Offset(st, i) < Depth - n /\ Offset(st, j) < Depth - n
       => ix[i] # ix[j]
  /\ \A i \in Slots : Offset(st, i) < Depth - n =>
       /\ ix[i] \notin cs
       /\ \A e \in hp : e.index # ix[i]
  /\ \A e, f \in hp : e.index = f.index => e = f
  /\ \A e \in hp : e.index \notin cs

Carried == {loc[c].index : c \in {d \in Contexts : Carries(d)}}

Ring == created => RingOf(indices, start, stop, heap, Carried, Used)

\* What a call brings along, label by label.
SendLabels == {"find", "push", "store", "mark"}
ReceiveLabels == {"pop", "load", "give"}

CallFits(c) ==
  /\ pc[c] # "idle" => created
  /\ pc[c] \in SendLabels => loc[c].op = "send"
  /\ pc[c] \in ReceiveLabels => loc[c].op # "send"
  /\ pc[c] \notin {"idle", "return"} /\ loc[c].op = "send" =>
       loc[c].priority \in Priorities /\ loc[c].size <= MaxSize
  /\ pc[c] \in {"find", "push"} => Cardinality(heap) < Depth
  /\ pc[c] = "pop" => heap # {}

CallsFit == \A c \in Contexts : CallFits(c)

\* The high water mark lags only between the push and its own update.
Marked ==
  /\ Cardinality(heap) <= highMark + 1
  /\ (\A c \in Contexts : pc[c] \notin {"store", "mark"}) =>
       Cardinality(heap) <= highMark

HeapFits == IsFiniteSet(heap) /\ Cardinality(heap) \in 0 .. Depth

QueueInv ==
  /\ QueueTypeOK
  /\ Masked
  /\ HeapFits
  /\ CallsFit
  /\ Ring
  /\ Marked
  /\ ~ asserted

-----------------------------------------------------------------------------
LEMMA QueueConstants ==
  /\ Depth \in Nat \ {0} /\ MaxSize \in Nat /\ Capacity \in Nat
  /\ MaxSize <= Capacity
  /\ Sizes \subseteq Nat /\ Priorities \subseteq Nat
  /\ OuterLocks \subseteq BOOLEAN
  /\ Irqs \in Nat /\ Contexts \subseteq Nat /\ Main \in Contexts /\ Main = 0
  /\ Slots = 0 .. Depth - 1
BY QueueAssumption, IrqsAssumption DEF Contexts, Main, Slots

(***************************************************************************)
(* The ring by itself.                                                     *)
(***************************************************************************)

LEMMA SuccessorType ==
  ASSUME NEW i \in Slots
  PROVE  Successor(i) \in Slots
BY QueueConstants DEF Successor

LEMMA OffsetType ==
  ASSUME NEW st \in 0 .. Depth - 1, NEW i \in 0 .. Depth - 1
  PROVE  Offset(st, i) \in 0 .. Depth - 1
<1>1. Depth \in Nat
  BY QueueConstants
<1>2. CASE i >= st
  <2>1. Offset(st, i) = i - st
    BY <1>2 DEF Offset
  <2> QED BY <1>1, <1>2, <2>1
<1>3. CASE ~ (i >= st)
  <2>1. Offset(st, i) = i - st + Depth
    BY <1>3 DEF Offset
  <2> QED BY <1>1, <1>3, <2>1
<1> QED BY <1>2, <1>3

LEMMA OffsetInjective ==
  ASSUME NEW st \in 0 .. Depth - 1, NEW i \in 0 .. Depth - 1,
         NEW j \in 0 .. Depth - 1, Offset(st, i) = Offset(st, j)
  PROVE  i = j
<1>1. Depth \in Nat
  BY QueueConstants
<1> QED BY <1>1 DEF Offset

\* One step on, counted from st.
LEMMA OffsetOfSuccessor ==
  ASSUME NEW st \in 0 .. Depth - 1, NEW i \in 0 .. Depth - 1
  PROVE  Offset(st, Successor(i)) = IF Offset(st, i) + 1 = Depth THEN 0
                                    ELSE Offset(st, i) + 1
<1>1. Depth \in Nat \ {0}
  BY QueueConstants
<1>2. CASE i + 1 = Depth
  <2>1. Successor(i) = 0
    BY <1>2 DEF Successor
  <2> QED BY <1>1, <1>2, <2>1 DEF Offset
<1>3. CASE i + 1 # Depth
  <2>1. Successor(i) = i + 1
    BY <1>3 DEF Successor
  <2> QED BY <1>1, <1>3, <2>1 DEF Offset
<1> QED BY <1>2, <1>3

\* Counted from one step on.
LEMMA OffsetFromSuccessor ==
  ASSUME NEW st \in 0 .. Depth - 1, NEW i \in 0 .. Depth - 1
  PROVE  Offset(Successor(st), i) = IF i = st THEN Depth - 1
                                    ELSE Offset(st, i) - 1
<1>1. Depth \in Nat \ {0}
  BY QueueConstants
<1>2. CASE st + 1 = Depth
  <2>1. Successor(st) = 0
    BY <1>2 DEF Successor
  <2> QED BY <1>1, <1>2, <2>1 DEF Offset
<1>3. CASE st + 1 # Depth
  <2>1. Successor(st) = st + 1
    BY <1>3 DEF Successor
  <2> QED BY <1>1, <1>3, <2>1 DEF Offset
<1> QED BY <1>2, <1>3

\* find_index: the slot at the front is carried from here on.
LEMMA TakeSlot ==
  ASSUME NEW ix \in [Slots -> Slots], NEW st \in 0 .. Depth - 1,
         NEW sp \in 0 .. Depth - 1, NEW hp, NEW n \in Nat, n < Depth,
         RingOf(ix, st, sp, hp, {}, n)
  PROVE  RingOf(ix, Successor(st), sp, hp, {ix[st]}, n + 1)
<1>0. Depth \in Nat /\ Slots = 0 .. Depth - 1 /\ 0 < Depth - n
  BY QueueConstants
<1>1. st \in Slots /\ Offset(st, st) = 0
  BY <1>0 DEF Offset
<1>2. ASSUME NEW i \in Slots, Offset(Successor(st), i) < Depth - (n + 1)
      PROVE  i # st /\ Offset(st, i) < Depth - n
  <2>1. i \in 0 .. Depth - 1 /\ Offset(st, i) \in 0 .. Depth - 1
    BY <1>0, OffsetType
  <2>2. Offset(Successor(st), i) = IF i = st THEN Depth - 1
                                   ELSE Offset(st, i) - 1
    BY <2>1, OffsetFromSuccessor
  <2>3. i # st
    BY <1>0, <1>2, <2>2
  <2> QED BY <1>0, <1>2, <2>1, <2>2, <2>3
<1>3. Offset(st, sp) = (IF n = 0 THEN 0 ELSE Depth - n)
  BY <1>0 DEF RingOf
<1>4. n + 1 = Depth => sp = Successor(st)
  <2>1. SUFFICES ASSUME n + 1 = Depth PROVE sp = Successor(st)
    OBVIOUS
  <2>2. Successor(st) \in 0 .. Depth - 1
    BY <1>0, SuccessorType
  <2>3. Offset(st, Successor(st)) = IF 1 = Depth THEN 0 ELSE 1
    BY <1>1, OffsetOfSuccessor
  <2>4. Offset(st, sp) = Offset(st, Successor(st))
    BY <1>0, <1>3, <2>1, <2>3, SMTT(40)
  <2> QED BY <2>2, <2>4, OffsetInjective
<1>5. n + 1 < Depth => Offset(Successor(st), sp) = Depth - (n + 1)
  <2>1. n > 0 => sp # st
    BY <1>0, <1>1, <1>3
  <2>2. n = 0 => sp = st
    BY <1>0, <1>1, <1>3, OffsetInjective
  <2>3. Offset(Successor(st), sp) = IF sp = st THEN Depth - 1
                                    ELSE Offset(st, sp) - 1
    BY OffsetFromSuccessor
  <2>4. CASE n = 0
    BY <1>0, <2>2, <2>3, <2>4
  <2>5. CASE n > 0
    BY <1>0, <1>3, <2>1, <2>3, <2>5
  <2> QED BY <2>4, <2>5
<1>6. \A e \in hp : e.index # ix[st]
  BY <1>0, <1>1 DEF RingOf
<1>7. \A i \in Slots : i # st /\ Offset(st, i) < Depth - n => ix[i] # ix[st]
  BY <1>0, <1>1 DEF RingOf
<1>8. \A i, j \in Slots :
        /\ i # j
        /\ Offset(Successor(st), i) < Depth - (n + 1)
        /\ Offset(Successor(st), j) < Depth - (n + 1)
        => ix[i] # ix[j]
  BY <1>2 DEF RingOf
<1>9. \A i \in Slots : Offset(Successor(st), i) < Depth - (n + 1) =>
        /\ ix[i] \notin {ix[st]}
        /\ \A e \in hp : e.index # ix[i]
  BY <1>2, <1>7 DEF RingOf
<1>10. n + 1 \in 0 .. Depth /\ n + 1 # 0
  BY <1>0
<1>11. \A e, f \in hp : e.index = f.index => e = f
  BY DEF RingOf
<1> QED BY <1>4, <1>5, <1>6, <1>8, <1>9, <1>10, <1>11 DEF RingOf

\* return_index: the carried slot becomes the last of the free ones.
LEMMA GiveSlot ==
  ASSUME NEW ix \in [Slots -> Slots], NEW st \in 0 .. Depth - 1,
         NEW sp \in 0 .. Depth - 1, NEW hp, NEW n \in Nat, n > 0,
         NEW slot \in Slots, RingOf(ix, st, sp, hp, {slot}, n),
         NEW after, after = [ix EXCEPT ![sp] = slot]
  PROVE  RingOf(after, st, Successor(sp), hp, {}, n - 1)
<1>0. Depth \in Nat \ {0} /\ Slots = 0 .. Depth - 1
  BY QueueConstants
<1>1. n <= Depth /\ Offset(st, sp) = Depth - n
  BY <1>0, SMTT(40) DEF RingOf, Offset
<1>2. ASSUME NEW i \in Slots, Offset(st, i) < Depth - (n - 1)
      PROVE  i = sp \/ (i # sp /\ Offset(st, i) < Depth - n)
  <2>1. i \in 0 .. Depth - 1 /\ Offset(st, i) \in 0 .. Depth - 1
    BY <1>0, OffsetType
  <2>2. Offset(st, i) = Offset(st, sp) => i = sp
    BY <2>1, OffsetInjective
  <2>3. Offset(st, i) <= Depth - n
    BY <1>0, <1>1, <1>2, <2>1
  <2>4. i # sp => Offset(st, i) # Depth - n
    BY <1>1, <2>2
  <2>5. ASSUME NEW o \in Int, NEW m \in Int, o <= m, o # m PROVE o < m
    BY <2>5
  <2>6. Offset(st, i) \in Int /\ Depth - n \in Int
    BY <1>0, <2>1
  <2>7. i # sp => Offset(st, i) < Depth - n
    BY <2>3, <2>4, <2>5, <2>6
  <2> QED BY <2>7
<1>3. after[sp] = slot /\ \A i \in Slots : i # sp => after[i] = ix[i]
  BY <1>0
<1>4. Offset(st, Successor(sp)) = IF n - 1 = 0 THEN 0 ELSE Depth - (n - 1)
  <2>1. Offset(st, Successor(sp)) = IF Offset(st, sp) + 1 = Depth THEN 0
                                    ELSE Offset(st, sp) + 1
    BY OffsetOfSuccessor
  <2>2. Depth - n + 1 = Depth <=> n - 1 = 0
    BY <1>0
  <2> QED BY <1>0, <1>1, <2>1, <2>2
<1>5. \A i \in Slots : i # sp /\ Offset(st, i) < Depth - n => ix[i] # slot
  BY DEF RingOf
<1>6. \A e \in hp : e.index # slot
  BY DEF RingOf
<1>7. \A i, j \in Slots :
        /\ i # j
        /\ Offset(st, i) < Depth - (n - 1) /\ Offset(st, j) < Depth - (n - 1)
        => after[i] # after[j]
  BY <1>2, <1>3, <1>5 DEF RingOf
<1>8. \A i \in Slots : Offset(st, i) < Depth - (n - 1) =>
        \A e \in hp : e.index # after[i]
  BY <1>2, <1>3, <1>6 DEF RingOf
<1>9. n - 1 \in 0 .. Depth /\ n - 1 # Depth
  BY <1>0, <1>1
<1>10. \A e, f \in hp : e.index = f.index => e = f
  BY DEF RingOf
<1> QED BY <1>4, <1>7, <1>8, <1>9, <1>10 DEF RingOf

\* push: what was carried is now in the heap.
LEMMA PutInHeap ==
  ASSUME NEW ix \in [Slots -> Slots], NEW st \in Slots, NEW sp \in Slots,
         NEW hp, NEW n, NEW entry, RingOf(ix, st, sp, hp, {entry.index}, n)
  PROVE  RingOf(ix, st, sp, hp \cup {entry}, {}, n) /\ entry \notin hp
BY DEF RingOf

\* pop: what was in the heap is now carried.
LEMMA TakeFromHeap ==
  ASSUME NEW ix \in [Slots -> Slots], NEW st \in Slots, NEW sp \in Slots,
         NEW hp, NEW n, NEW entry \in hp, RingOf(ix, st, sp, hp, {}, n)
  PROVE  RingOf(ix, st, sp, hp \ {entry}, {entry.index}, n)
BY DEF RingOf

\* create: every slot is in the ring.
LEMMA FreshRing ==
  RingOf([i \in Slots |-> i], 0, 0, {}, {}, 0)
<1>1. Depth \in Nat \ {0} /\ 0 \in Slots
  BY QueueConstants
<1>2. Offset(0, 0) = 0
  BY DEF Offset
<1> QED BY <1>1, <1>2 DEF RingOf

-----------------------------------------------------------------------------
(***************************************************************************)
(* Masking: a context that runs is the only one that may be inside.        *)
(***************************************************************************)

LEMMA Alone ==
  ASSUME QueueTypeOK, SectionsMasked, NEW c \in Contexts, Executes(c),
         pc[c] # "idle"
  PROVE  /\ \A d \in Contexts : d # c => ~ Masks(d)
         /\ primask = 1 <=> Masks(c)
<1>1. ASSUME NEW d \in Contexts, d # c, Masks(d) PROVE FALSE
  <2>1. pc[d] # "idle"
    BY <1>1 DEF Masks, InSection, SectionLabels
  <2>2. CASE d > c
    BY <2>1, <2>2 DEF Executes
  <2>3. CASE d < c
    BY <1>1, <2>3 DEF SectionsMasked
  <2> QED BY <1>1, <2>2, <2>3, QueueConstants
<1> QED BY <1>1 DEF SectionsMasked

LEMMA NobodyMasks ==
  ASSUME QueueTypeOK, SectionsMasked, NEW c \in Contexts, MayStart(c)
  PROVE  primask = 0 /\ \A d \in Contexts : ~ Masks(d)
<1>1. pc[c] = "idle" /\ Executes(c)
  BY DEF MayStart, At
<1>2. CASE c = Main
  <2>1. \A d \in Contexts : pc[d] = "idle"
    BY <1>1, <1>2, QueueConstants DEF Executes, Contexts, Main
  <2>2. \A d \in Contexts : ~ Masks(d)
    BY <2>1 DEF Masks, InSection, SectionLabels
  <2> QED BY <2>2 DEF SectionsMasked, QueueTypeOK
<1>3. CASE c # Main
  BY <1>3 DEF MayStart, SectionsMasked
<1> QED BY <1>2, <1>3

LEMMA MaskedStep ==
  ASSUME QueueTypeOK, Masked, NEW c \in Contexts, NEW l \in QueueLabels,
         Executes(c), Goto(c, l),
         \A d \in Contexts : d # c =>
           ~ Masks(d) /\ loc'[d] = loc[d] /\ saved'[d] = saved[d],
         primask' = 1 <=> Masks(c)',
         l \in SectionLabels \cup {"mask"} =>
           saved'[c] = IF loc'[c].outer THEN 1 ELSE 0
  PROVE  Masked'
<1>1. pc'[c] = l /\ \A d \in Contexts : d # c => pc'[d] = pc[d]
  BY DEF QueueTypeOK, Goto
<1>2. \A d \in Contexts : d # c => ~ Masks(d)'
  BY <1>1 DEF Masks, InSection
<1>3. \A d, e \in Contexts : d < e /\ Masks(d)' => pc'[e] = "idle"
  BY <1>1, <1>2, QueueConstants DEF Executes
<1>4. \A d \in Contexts : InSection(d)' \/ pc'[d] = "mask" =>
        saved'[d] = IF loc'[d].outer THEN 1 ELSE 0
  BY <1>1 DEF InSection, Masked, SavedMask
<1> QED BY <1>2, <1>3, <1>4 DEF Masked, SavedMask, SectionsMasked

(***************************************************************************)
(* With nobody else inside, one context tells which slots are carried.     *)
(***************************************************************************)

LEMMA CarriedAlone ==
  ASSUME NEW c \in Contexts,
         \A d \in Contexts : d # c => pc[d] \notin SectionLabels
  PROVE  /\ Carried = IF Carries(c) THEN {loc[c].index} ELSE {}
         /\ Used = Cardinality(heap) + IF Carries(c) THEN 1 ELSE 0
<1>1. \A d \in Contexts : Carries(d) => d = c
  BY DEF Carries, SectionLabels
<1>2. (\E d \in Contexts : Carries(d)) <=> Carries(c)
  BY <1>1
<1> QED BY <1>1, <1>2 DEF Carried, Used

LEMMA CarriedAloneNext ==
  ASSUME NEW c \in Contexts,
         \A d \in Contexts : d # c => pc'[d] \notin SectionLabels
  PROVE  /\ Carried' = IF Carries(c)' THEN {loc'[c].index} ELSE {}
         /\ Used' = Cardinality(heap') + IF Carries(c)' THEN 1 ELSE 0
<1>1. \A d \in Contexts : Carries(d)' => d = c
  BY DEF Carries, SectionLabels
<1>2. (\E d \in Contexts : Carries(d)') <=> Carries(c)'
  BY <1>1
<1> QED BY <1>1, <1>2 DEF Carried, Used

(***************************************************************************)
(* What is left to show of a step of one context.                          *)
(***************************************************************************)

LEMMA StepKeepsInv ==
  ASSUME QueueInv, NEW c \in Contexts, NEW l \in QueueLabels,
         Executes(c), Goto(c, l), created' = created, ~ asserted',
         \A d \in Contexts : d # c =>
           ~ Masks(d) /\ loc'[d] = loc[d] /\ saved'[d] = saved[d],
         primask' = 1 <=> Masks(c)',
         l \in SectionLabels \cup {"mask"} =>
           saved'[c] = IF loc'[c].outer THEN 1 ELSE 0,
         QueueTypeOK', HeapFits', CallFits(c)',
         created => RingOf(indices', start', stop', heap',
                           IF Carries(c)' THEN {loc'[c].index} ELSE {},
                           Cardinality(heap') + IF Carries(c)' THEN 1 ELSE 0),
         Cardinality(heap') <= highMark' + 1,
         l \notin {"store", "mark"} => Cardinality(heap') <= highMark'
  PROVE  QueueInv'
<1>1. pc'[c] = l /\ \A d \in Contexts : d # c => pc'[d] = pc[d]
  BY DEF QueueInv, QueueTypeOK, Goto
<1>2. Masked'
  BY MaskedStep DEF QueueInv
<1>3. \A d \in Contexts : d # c => pc'[d] \notin SectionLabels
  BY <1>1 DEF Masks, InSection
<1>4. CallsFit'
  <2>1. ASSUME NEW d \in Contexts, d # c PROVE CallFits(d)'
    <3>1. CallFits(d) /\ pc'[d] = pc[d] /\ loc'[d] = loc[d]
      BY <1>1, <2>1 DEF QueueInv, CallsFit
    <3>2. pc'[d] \notin {"find", "push", "pop"}
      BY <1>3, <2>1 DEF SectionLabels
    <3> QED BY <3>1, <3>2 DEF CallFits
  <2> QED BY <2>1 DEF CallsFit
<1>5. Ring'
  BY <1>3, CarriedAloneNext DEF Ring
<1>6. Marked'
  BY <1>1 DEF Marked
<1> QED BY <1>2, <1>4, <1>5, <1>6 DEF QueueInv

\* A step that ends outside of the critical section, or at its start, and
\* leaves the queue alone.
LEMMA OuterStepKeepsInv ==
  ASSUME QueueInv, NEW c \in Contexts,
         NEW l \in {"idle", "save", "mask", "check", "restore", "return"},
         Executes(c), Goto(c, l), UNCHANGED <<created, handle, asserted>>,
         pc[c] \in {"idle", "save", "mask", "check", "restore", "return"},
         \A d \in Contexts : d # c =>
           ~ Masks(d) /\ loc'[d] = loc[d] /\ saved'[d] = saved[d],
         primask' = 1 <=> Masks(c)',
         l \in SectionLabels \cup {"mask"} =>
           saved'[c] = IF loc'[c].outer THEN 1 ELSE 0,
         QueueTypeOK', CallFits(c)'
  PROVE  QueueInv'
<1>1. pc'[c] = l /\ l \in QueueLabels
  BY DEF QueueInv, QueueTypeOK, Goto, QueueLabels, SectionLabels
<1>2. ~ Carries(c) /\ ~ Carries(c)'
  BY <1>1 DEF Carries
<1>3. \A d \in Contexts : d # c => pc[d] \notin SectionLabels
  BY DEF Masks, InSection
<1>4. Carried = {} /\ Used = Cardinality(heap) + 0
  BY <1>2, <1>3, CarriedAlone
<1>5. UNCHANGED <<indices, start, stop, heap, highMark>>
  BY DEF handle
<1>6. created => RingOf(indices', start', stop', heap',
                        IF Carries(c)' THEN {loc'[c].index} ELSE {},
                        Cardinality(heap') + IF Carries(c)' THEN 1 ELSE 0)
  BY <1>2, <1>4, <1>5 DEF QueueInv, Ring
<1>7. \A d \in Contexts : pc[d] \notin {"store", "mark"}
  BY <1>3 DEF SectionLabels
<1>8. Cardinality(heap') <= highMark' /\ Cardinality(heap') <= highMark' + 1
  BY <1>5, <1>7 DEF QueueInv, Marked
<1>9. HeapFits' /\ ~ asserted' /\ created' = created
  BY <1>5 DEF QueueInv, HeapFits
<1> QED BY <1>1, <1>6, <1>8, <1>9, StepKeepsInv

\* A step within the critical section.
LEMMA InnerStepKeepsInv ==
  ASSUME QueueInv, NEW c \in Contexts, NEW l \in SectionLabels,
         Executes(c), InSection(c), Goto(c, l), ~ asserted',
         UNCHANGED <<primask, saved, created>>,
         \A d \in Contexts : d # c => loc'[d] = loc[d],
         loc'[c].outer = loc[c].outer,
         QueueTypeOK', HeapFits', CallFits(c)',
         RingOf(indices', start', stop', heap',
                IF l \in {"push", "load", "give"} THEN {loc'[c].index} ELSE {},
                Cardinality(heap') + IF l \in {"push", "load", "give"} THEN 1 ELSE 0),
         Cardinality(heap') <= highMark' + 1,
         l \notin {"store", "mark"} => Cardinality(heap') <= highMark'
  PROVE  QueueInv'
<1>1. pc'[c] = l /\ l \in QueueLabels /\ pc[c] # "idle"
  BY DEF QueueInv, QueueTypeOK, Goto, QueueLabels, InSection, SectionLabels
<1>2. Carries(c)' <=> l \in {"push", "load", "give"}
  BY <1>1 DEF Carries
<1>3. /\ \A d \in Contexts : d # c => ~ Masks(d)
      /\ primask = 1 <=> Masks(c)
  BY <1>1, Alone DEF QueueInv, Masked
<1>4. Masks(c) /\ Masks(c)'
  BY <1>1 DEF Masks, InSection
<1>5. saved[c] = IF loc[c].outer THEN 1 ELSE 0
  BY DEF QueueInv, Masked, SavedMask
<1> QED BY <1>1, <1>2, <1>3, <1>4, <1>5, StepKeepsInv
-----------------------------------------------------------------------------
(***************************************************************************)
(* One lemma per action: first the calls and the lock.                     *)
(***************************************************************************)

\* A call starts, and is refused at once or goes for the lock.
LEMMA CallKeepsInv ==
  ASSUME QueueInv, NEW c \in Contexts, MayStart(c), created,
         NEW call \in Calls, NEW l \in {"save", "return"},
         primask' = (IF call.outer THEN 1 ELSE primask),
         loc' = [loc EXCEPT ![c] = call], Goto(c, l),
         call.op = "send" /\ l # "return" =>
           call.priority \in Priorities /\ call.size <= MaxSize,
         UNCHANGED <<saved, created, handle, asserted>>
  PROVE  QueueInv'
<1>1. primask = 0 /\ \A d \in Contexts : ~ Masks(d)
  BY NobodyMasks DEF QueueInv, Masked
<1>2. Executes(c) /\ pc[c] = "idle"
  BY DEF MayStart, At
<1>3. pc'[c] = l /\ loc'[c] = call /\ \A d \in Contexts : d # c =>
        loc'[d] = loc[d] /\ saved'[d] = saved[d]
  BY DEF QueueInv, QueueTypeOK, Goto
<1>4. primask' = 1 <=> Masks(c)'
  BY <1>1, <1>3 DEF Masks, InSection, SectionLabels, Calls
<1>5. QueueTypeOK'
  BY <1>1 DEF QueueInv, QueueTypeOK, Goto, QueueLabels, handle
<1>6. CallFits(c)'
  BY <1>3 DEF CallFits, SendLabels, ReceiveLabels
<1>7. l \notin SectionLabels \cup {"mask"}
  BY DEF SectionLabels
<1> QED BY <1>1, <1>2, <1>3, <1>4, <1>5, <1>6, <1>7, OuterStepKeepsInv

LEMMA SendKeepsInv ==
  ASSUME QueueInv, NEW c \in Contexts, NEW size \in Sizes,
         NEW priority \in Priorities, NEW outer \in OuterLocks,
         Send(c, size, priority, outer)
  PROVE  QueueInv'
<1> DEFINE call == [NoCall EXCEPT !.op = "send", !.outer = outer,
                                  !.size = size, !.priority = priority]
<1>1. size \in Nat /\ priority \in Nat /\ outer \in BOOLEAN /\ 0 \in Slots
      /\ 0 \in Content
  BY QueueConstants DEF Content
<1>2. call \in Calls /\ [call EXCEPT !.status = "mismatch"] \in Calls
  BY <1>1 DEF NoCall, Calls
<1>3. /\ call.outer = outer /\ call.size = size /\ call.priority = priority
      /\ [call EXCEPT !.status = "mismatch"].outer = outer
  BY DEF NoCall
<1>4. /\ MayStart(c) /\ created
      /\ primask' = (IF outer THEN 1 ELSE primask)
      /\ UNCHANGED <<saved, created, handle, asserted>>
  BY DEF Send
<1>5. CASE /\ loc' = [loc EXCEPT ![c] = [call EXCEPT !.status = "mismatch"]]
           /\ Goto(c, "return")
  BY <1>2, <1>3, <1>4, <1>5, CallKeepsInv
<1>6. CASE size <= MaxSize /\ loc' = [loc EXCEPT ![c] = call] /\ Goto(c, "save")
  BY <1>2, <1>3, <1>4, <1>6, CallKeepsInv
<1> QED BY <1>5, <1>6 DEF Send

LEMMA ReceiveKeepsInv ==
  ASSUME QueueInv, NEW c \in Contexts, NEW outer \in OuterLocks,
         Receive(c, outer)
  PROVE  QueueInv'
<1> DEFINE call == [NoCall EXCEPT !.op = "receive", !.outer = outer]
<1>1. outer \in BOOLEAN /\ 0 \in Slots /\ 0 \in Content
  BY QueueConstants DEF Content
<1>2. call \in Calls /\ call.outer = outer /\ call.op = "receive"
  BY <1>1 DEF NoCall, Calls
<1> QED BY <1>2, CallKeepsInv DEF Receive

LEMMA LockKeepsInv ==
  ASSUME QueueInv, NEW c \in Contexts, Lock(c)
  PROVE  QueueInv'
<1>1. /\ Executes(c) /\ pc[c] \in {"save", "mask"}
      /\ UNCHANGED <<created, handle, loc, asserted>>
  BY DEF Lock, SavePrimask, MaskInterrupts, At
<1>2. /\ \A d \in Contexts : d # c => ~ Masks(d)
      /\ primask = 1 <=> Masks(c)
  BY <1>1, Alone DEF QueueInv, Masked
<1>3. Masks(c) <=> loc[c].outer
  BY <1>1 DEF Masks, InSection, SectionLabels
<1>4. loc[c].outer \in BOOLEAN /\ primask \in {0, 1} /\ loc[c] \in Calls
  BY DEF QueueInv, QueueTypeOK, Calls
<1>5. CASE SavePrimask(c)
  <2>1. /\ Goto(c, "mask") /\ primask' = primask /\ pc[c] = "save"
        /\ saved' = [saved EXCEPT ![c] = primask]
    BY <1>5 DEF SavePrimask, At
  <2>2. /\ pc'[c] = "mask" /\ saved'[c] = primask
        /\ \A d \in Contexts : d # c => saved'[d] = saved[d]
    BY <2>1 DEF QueueInv, QueueTypeOK, Goto
  <2>3. primask' = 1 <=> Masks(c)'
    BY <1>1, <1>2, <1>3, <2>1, <2>2 DEF Masks, InSection, SectionLabels
  <2>4. saved'[c] = IF loc'[c].outer THEN 1 ELSE 0
    BY <1>1, <1>2, <1>3, <1>4, <2>2
  <2>5. QueueTypeOK'
    BY <1>1, <2>1 DEF QueueInv, QueueTypeOK, Goto, QueueLabels, handle
  <2>6. CallFits(c)'
    <3>1. CallFits(c)
      BY DEF QueueInv, CallsFit
    <3> QED BY <1>1, <2>1, <2>2, <3>1
            DEF CallFits, SendLabels, ReceiveLabels
  <2> QED BY <1>1, <1>2, <2>1, <2>2, <2>3, <2>4, <2>5, <2>6, OuterStepKeepsInv
<1>6. CASE MaskInterrupts(c, "check")
  <2>1. /\ Goto(c, "check") /\ primask' = 1 /\ pc[c] = "mask"
        /\ saved' = saved
    BY <1>6 DEF MaskInterrupts, At
  <2>2. pc'[c] = "check"
    BY <2>1 DEF QueueInv, QueueTypeOK, Goto
  <2>3. Masks(c)'
    BY <2>2 DEF Masks, InSection, SectionLabels
  <2>4. saved'[c] = IF loc'[c].outer THEN 1 ELSE 0
    BY <1>1, <2>1 DEF QueueInv, Masked, SavedMask
  <2>5. QueueTypeOK'
    BY <1>1, <2>1 DEF QueueInv, QueueTypeOK, Goto, QueueLabels,
       SectionLabels, handle
  <2>6. CallFits(c)'
    <3>1. CallFits(c)
      BY DEF QueueInv, CallsFit
    <3> QED BY <1>1, <2>1, <2>2, <3>1
            DEF CallFits, SendLabels, ReceiveLabels
  <2> QED BY <1>1, <1>2, <2>1, <2>2, <2>3, <2>4, <2>5, <2>6, OuterStepKeepsInv
<1> QED BY <1>5, <1>6 DEF Lock

LEMMA UnlockKeepsInv ==
  ASSUME QueueInv, NEW c \in Contexts, Unlock(c)
  PROVE  QueueInv'
<1> DEFINE after == IF loc[c].op = "send"
                      THEN [NoCall EXCEPT !.op = "send",
                                          !.outer = loc[c].outer,
                                          !.status = loc[c].status]
                      ELSE [loc[c] EXCEPT !.index = 0]
<1>1. /\ Executes(c) /\ pc[c] = "restore" /\ Goto(c, "return")
      /\ primask' = saved[c] /\ saved' = saved
      /\ loc' = [loc EXCEPT ![c] = after]
      /\ UNCHANGED <<created, handle, asserted>>
  BY DEF Unlock, RestoreInterrupts, At
<1>2. /\ \A d \in Contexts : d # c => ~ Masks(d)
      /\ saved[c] = IF loc[c].outer THEN 1 ELSE 0
  BY <1>1, Alone DEF QueueInv, Masked, SavedMask, InSection, SectionLabels
<1>3. loc[c] \in Calls /\ 0 \in Slots /\ 0 \in Content
  BY QueueConstants DEF QueueInv, QueueTypeOK, Content
<1>4. after \in Calls /\ after.outer = loc[c].outer
  BY <1>3 DEF Calls, NoCall
<1> HIDE DEF after
<1>5. /\ pc'[c] = "return" /\ loc'[c] = after
      /\ \A d \in Contexts : d # c => loc'[d] = loc[d]
  BY <1>1 DEF QueueInv, QueueTypeOK, Goto
<1>6. primask' = 1 <=> Masks(c)'
  BY <1>1, <1>2, <1>3, <1>4, <1>5
     DEF Masks, InSection, SectionLabels, Calls
<1>7. QueueTypeOK'
  BY <1>1, <1>4 DEF QueueInv, QueueTypeOK, Goto, QueueLabels, handle
<1>8. CallFits(c)'
  <2>1. CallFits(c)
    BY DEF QueueInv, CallsFit
  <2> QED BY <1>1, <1>5, <2>1 DEF CallFits, SendLabels, ReceiveLabels
<1>9. "return" \notin SectionLabels \cup {"mask"}
  BY DEF SectionLabels
<1> QED BY <1>1, <1>2, <1>5, <1>6, <1>7, <1>8, <1>9, OuterStepKeepsInv

LEMMA ReturnKeepsInv ==
  ASSUME QueueInv, NEW c \in Contexts, Return(c)
  PROVE  QueueInv'
<1>1. /\ Executes(c) /\ pc[c] = "return" /\ Goto(c, "idle")
      /\ primask' = (IF loc[c].outer THEN 0 ELSE primask)
      /\ saved' = [saved EXCEPT ![c] = 0]
      /\ loc' = [loc EXCEPT ![c] = NoCall]
      /\ UNCHANGED <<created, handle, asserted>>
  BY DEF Return, At
<1>2. /\ \A d \in Contexts : d # c => ~ Masks(d)
      /\ primask = 1 <=> Masks(c)
  BY <1>1, Alone DEF QueueInv, Masked
<1>3. Masks(c) <=> loc[c].outer
  BY <1>1 DEF Masks, InSection, SectionLabels
<1>4. NoCall \in Calls
  BY QueueConstants DEF NoCall, Calls, Content
<1>5. /\ pc'[c] = "idle"
      /\ \A d \in Contexts : d # c =>
            loc'[d] = loc[d] /\ saved'[d] = saved[d]
  BY <1>1 DEF QueueInv, QueueTypeOK, Goto
<1>6. primask' = 0 /\ ~ Masks(c)'
  BY <1>1, <1>2, <1>3, <1>5
     DEF Masks, InSection, SectionLabels, QueueInv, QueueTypeOK
<1>7. QueueTypeOK'
  BY <1>1, <1>4, <1>6 DEF QueueInv, QueueTypeOK, Goto, QueueLabels, handle
<1>8. CallFits(c)'
  BY <1>5 DEF CallFits, SendLabels, ReceiveLabels
<1>9. "idle" \notin SectionLabels \cup {"mask"}
  BY DEF SectionLabels
<1> QED BY <1>1, <1>2, <1>5, <1>6, <1>7, <1>8, <1>9, OuterStepKeepsInv

-----------------------------------------------------------------------------
(***************************************************************************)
(* Then the steps within the critical section.                             *)
(***************************************************************************)

\* What a step within the section finds.
LEMMA Inside ==
  ASSUME QueueInv, NEW c \in Contexts, Executes(c), InSection(c)
  PROVE  /\ created /\ CallFits(c) /\ loc[c] \in Calls
         /\ RingOf(indices, start, stop, heap,
                   IF Carries(c) THEN {loc[c].index} ELSE {},
                   Cardinality(heap) + IF Carries(c) THEN 1 ELSE 0)
         /\ Cardinality(heap) <= highMark + 1
         /\ pc[c] \notin {"store", "mark"} => Cardinality(heap) <= highMark
         /\ highMark \in 0 .. Depth /\ Depth \in Nat \ {0}
         /\ IsFiniteSet(heap) /\ Cardinality(heap) \in 0 .. Depth
<1>1. pc[c] # "idle" /\ pc[c] \in SectionLabels
  BY DEF InSection, SectionLabels
<1>2. \A d \in Contexts : d # c => pc[d] \notin SectionLabels
  BY <1>1, Alone DEF QueueInv, Masked, Masks, InSection
<1>3. CallFits(c) /\ created
  BY <1>1 DEF QueueInv, CallsFit, CallFits
<1>4. RingOf(indices, start, stop, heap, Carried, Used)
  BY <1>3 DEF QueueInv, Ring
<1>5. /\ Cardinality(heap) <= highMark + 1
      /\ pc[c] \notin {"store", "mark"} => Cardinality(heap) <= highMark
  <2>1. \A d \in Contexts : d # c => pc[d] \notin {"store", "mark"}
    BY <1>2 DEF SectionLabels
  <2> QED BY <2>1 DEF QueueInv, Marked
<1>6. loc[c] \in Calls /\ highMark \in 0 .. Depth /\ HeapFits
  BY DEF QueueInv, QueueTypeOK
<1> QED BY <1>2, <1>3, <1>4, <1>5, <1>6, CarriedAlone, QueueConstants
        DEF HeapFits

LEMMA CheckHeapKeepsInv ==
  ASSUME QueueInv, NEW c \in Contexts, CheckHeap(c)
  PROVE  QueueInv'
<1> DEFINE refused == IF loc[c].op = "send" THEN IsFull ELSE heap = {}
           l == IF refused THEN "restore"
                ELSE IF loc[c].op = "send" THEN "find" ELSE "pop"
           after == [loc[c] EXCEPT !.status = IF refused THEN "refused" ELSE @]
<1>1. /\ Executes(c) /\ pc[c] = "check" /\ Goto(c, l)
      /\ loc' = [loc EXCEPT ![c] = after]
      /\ UNCHANGED <<primask, saved, created, handle, asserted>>
  BY DEF CheckHeap, At
<1>2. InSection(c) /\ ~ Carries(c)
  BY <1>1 DEF InSection, SectionLabels, Carries
<1>3. after \in Calls /\ after.outer = loc[c].outer /\ after.op = loc[c].op
      /\ after.priority = loc[c].priority /\ after.size = loc[c].size
  BY <1>1, <1>2, Inside DEF Calls
<1> HIDE DEF after
<1>4. l \in SectionLabels /\ l \notin {"push", "load", "give", "store", "mark"}
  BY DEF SectionLabels
<1>5. /\ pc'[c] = l /\ loc'[c] = after
      /\ \A d \in Contexts : d # c => loc'[d] = loc[d]
  BY <1>1 DEF QueueInv, QueueTypeOK, Goto
<1>6. UNCHANGED <<indices, start, stop, heap, highMark, data, sizes>>
  BY <1>1 DEF handle
<1>7. CallFits(c)'
  <2>1. CallFits(c) /\ Cardinality(heap) \in 0 .. Depth /\ Depth \in Nat
    BY <1>1, <1>2, Inside
  <2>2. l = "find" => Cardinality(heap) < Depth /\ loc[c].op = "send"
    BY <2>1 DEF IsFull
  <2>3. l = "pop" => heap # {} /\ loc[c].op # "send"
    OBVIOUS
  <2>4. l \notin {"push", "store", "mark", "load", "give", "idle"}
    OBVIOUS
  <2> HIDE DEF l
  <2> QED BY <1>1, <1>3, <1>5, <1>6, <2>1, <2>2, <2>3, <2>4
          DEF CallFits, SendLabels, ReceiveLabels
<1> HIDE DEF l
<1>8. QueueTypeOK'
  BY <1>1, <1>3, <1>4, <1>6 DEF QueueInv, QueueTypeOK, Goto, QueueLabels
<1>9. HeapFits' /\ ~ asserted'
  BY <1>1, <1>6 DEF QueueInv, HeapFits
<1>10. /\ RingOf(indices', start', stop', heap', {}, Cardinality(heap') + 0)
       /\ Cardinality(heap') <= highMark'
       /\ Cardinality(heap') <= highMark' + 1
  BY <1>1, <1>2, <1>6, Inside
<1> QED BY <1>1, <1>2, <1>3, <1>4, <1>5, <1>7, <1>8, <1>9, <1>10,
           InnerStepKeepsInv

LEMMA FindIndexKeepsInv ==
  ASSUME QueueInv, NEW c \in Contexts, FindIndex(c)
  PROVE  QueueInv'
<1> DEFINE after == [loc[c] EXCEPT !.index = indices[start]]
<1>1. /\ Executes(c) /\ pc[c] = "find" /\ Goto(c, "push")
      /\ loc' = [loc EXCEPT ![c] = after]
      /\ start' = Successor(start)
      /\ UNCHANGED <<primask, saved, created, indices, stop, heap, data, sizes,
                     highMark, asserted>>
  BY DEF FindIndex, At
<1>2. InSection(c) /\ ~ Carries(c)
  BY <1>1 DEF InSection, SectionLabels, Carries
<1>3. /\ indices \in [Slots -> Slots] /\ start \in Slots /\ stop \in Slots
      /\ indices[start] \in Slots /\ Slots = 0 .. Depth - 1
  BY QueueConstants DEF QueueInv, QueueTypeOK
<1>4. /\ after \in Calls /\ after.outer = loc[c].outer
      /\ after.op = loc[c].op /\ after.priority = loc[c].priority
      /\ after.size = loc[c].size /\ after.index = indices[start]
  BY <1>1, <1>2, <1>3, Inside DEF Calls
<1> HIDE DEF after
<1>5. /\ pc'[c] = "push" /\ loc'[c] = after
      /\ \A d \in Contexts : d # c => loc'[d] = loc[d]
  BY <1>1 DEF QueueInv, QueueTypeOK, Goto
<1>6. /\ CallFits(c) /\ Cardinality(heap) \in Nat
      /\ Cardinality(heap) < Depth
      /\ Cardinality(heap) <= highMark /\ highMark \in Nat
      /\ RingOf(indices, start, stop, heap, {}, Cardinality(heap) + 0)
  <2>1. /\ CallFits(c)
        /\ RingOf(indices, start, stop, heap,
                  IF Carries(c) THEN {loc[c].index} ELSE {},
                  Cardinality(heap) + IF Carries(c) THEN 1 ELSE 0)
    BY <1>1, <1>2, Inside
  <2>2. /\ pc[c] \notin {"store", "mark"} => Cardinality(heap) <= highMark
        /\ highMark \in 0 .. Depth /\ Depth \in Nat
        /\ Cardinality(heap) \in 0 .. Depth
    BY <1>1, <1>2, Inside
  <2>3. Cardinality(heap) < Depth
    BY <1>1, <2>1 DEF CallFits
  <2> QED BY <1>1, <1>2, <2>1, <2>2, <2>3
<1>7. Cardinality(heap) + 0 = Cardinality(heap)
  BY <1>6
<1>8. RingOf(indices', start', stop', heap', {loc'[c].index},
             Cardinality(heap') + 1)
  BY <1>1, <1>3, <1>4, <1>5, <1>6, <1>7, TakeSlot
<1>9. CallFits(c)'
  BY <1>1, <1>4, <1>5, <1>6 DEF CallFits, SendLabels, ReceiveLabels
<1>10. QueueTypeOK'
  BY <1>1, <1>3, <1>4, SuccessorType
     DEF QueueInv, QueueTypeOK, Goto, QueueLabels, SectionLabels
<1>11. HeapFits' /\ ~ asserted'
  BY <1>1 DEF QueueInv, HeapFits
<1>12. /\ Cardinality(heap') <= highMark'
       /\ Cardinality(heap') <= highMark' + 1
  BY <1>1, <1>6
<1>13. "push" \in SectionLabels
  BY DEF SectionLabels
<1> QED BY <1>1, <1>2, <1>4, <1>5, <1>8, <1>9, <1>10, <1>11, <1>12, <1>13,
           InnerStepKeepsInv

LEMMA PushKeepsInv ==
  ASSUME QueueInv, NEW c \in Contexts, Push(c)
  PROVE  QueueInv'
<1> DEFINE entry == [index |-> loc[c].index, priority |-> loc[c].priority]
<1>1. /\ Executes(c) /\ pc[c] = "push" /\ Goto(c, "store")
      /\ Assert(~ IsFull)
      /\ heap' = IF IsFull THEN heap ELSE heap \cup {entry}
      /\ UNCHANGED <<primask, saved, created, indices, start, stop, data,
                     sizes, highMark, loc>>
  BY DEF Push, At
<1>2. InSection(c) /\ Carries(c)
  BY <1>1 DEF InSection, SectionLabels, Carries
<1>3. /\ CallFits(c) /\ loc[c] \in Calls /\ Cardinality(heap) \in Nat
      /\ Cardinality(heap) < Depth /\ Depth \in Nat
      /\ Cardinality(heap) <= highMark /\ highMark \in Nat
      /\ IsFiniteSet(heap)
      /\ RingOf(indices, start, stop, heap, {loc[c].index},
                Cardinality(heap) + 1)
  BY <1>1, <1>2, Inside DEF CallFits
<1>4. heap' = heap \cup {entry} /\ ~ asserted' /\ asserted' \in BOOLEAN
  <2>1. ~ IsFull
    BY <1>3 DEF IsFull
  <2>2. asserted' = FALSE
    BY <1>1, <2>1 DEF Assert
  <2> QED BY <1>1, <2>1, <2>2
<1>5. /\ entry.index = loc[c].index /\ entry \in Entry
  BY <1>1, <1>3 DEF Entry, Calls, CallFits, SendLabels
<1> HIDE DEF entry
<1>6. indices \in [Slots -> Slots] /\ start \in Slots /\ stop \in Slots
  BY DEF QueueInv, QueueTypeOK
<1>7. /\ RingOf(indices, start, stop, heap \cup {entry}, {},
                Cardinality(heap) + 1)
      /\ entry \notin heap
  BY <1>3, <1>5, <1>6, PutInHeap
<1>8. IsFiniteSet(heap') /\ Cardinality(heap') = Cardinality(heap) + 1
  BY <1>3, <1>4, <1>7, FS_AddElement
<1>9. HeapFits'
  BY <1>3, <1>8 DEF HeapFits
<1>10. RingOf(indices', start', stop', heap', {}, Cardinality(heap') + 0)
  <2>1. Cardinality(heap') + 0 = Cardinality(heap) + 1
    BY <1>3, <1>8
  <2> QED BY <1>1, <1>4, <1>7, <2>1
<1>11. pc'[c] = "store"
  BY <1>1 DEF QueueInv, QueueTypeOK, Goto
<1>12. CallFits(c)'
  BY <1>1, <1>3, <1>11 DEF CallFits, SendLabels, ReceiveLabels
<1>13. QueueTypeOK'
  BY <1>1, <1>4, <1>5
     DEF QueueInv, QueueTypeOK, Goto, QueueLabels, SectionLabels
<1>14. Cardinality(heap') <= highMark' + 1
  BY <1>1, <1>3, <1>8
<1>15. "store" \in SectionLabels
  BY DEF SectionLabels
<1> QED BY <1>1, <1>2, <1>4, <1>9, <1>10, <1>12, <1>13, <1>14, <1>15,
           InnerStepKeepsInv

LEMMA StoreDataKeepsInv ==
  ASSUME QueueInv, NEW c \in Contexts, StoreData(c)
  PROVE  QueueInv'
<1>1. /\ Executes(c) /\ pc[c] = "store" /\ Goto(c, "mark")
      /\ Assert(loc[c].size <= MaxSize /\ loc[c].index < Depth)
      /\ data' = [data EXCEPT ![loc[c].index] = loc[c].size]
      /\ sizes' = [sizes EXCEPT ![loc[c].index] = loc[c].size]
      /\ UNCHANGED <<primask, saved, created, indices, start, stop, heap,
                     highMark, loc>>
  BY DEF StoreData, At
<1>2. InSection(c) /\ ~ Carries(c)
  BY <1>1 DEF InSection, SectionLabels, Carries
<1>3. /\ CallFits(c) /\ loc[c] \in Calls
      /\ Cardinality(heap) <= highMark + 1
      /\ RingOf(indices, start, stop, heap, {}, Cardinality(heap) + 0)
  BY <1>1, <1>2, Inside
<1>4. /\ loc[c].size \in Content /\ loc[c].size <= MaxSize
      /\ loc[c].index \in Slots /\ loc[c].index < Depth
  BY <1>1, <1>3, QueueConstants DEF Calls, CallFits, SendLabels, Content
<1>5. asserted' = FALSE
  BY <1>1, <1>4 DEF Assert
<1>6. pc'[c] = "mark"
  BY <1>1 DEF QueueInv, QueueTypeOK, Goto
<1>7. CallFits(c)'
  BY <1>1, <1>3, <1>6 DEF CallFits, SendLabels, ReceiveLabels
<1>8. asserted' \in BOOLEAN /\ ~ asserted'
  BY <1>5
<1>9. QueueTypeOK'
  BY <1>1, <1>4, <1>8
     DEF QueueInv, QueueTypeOK, Goto, QueueLabels, SectionLabels
<1>10. HeapFits'
  BY <1>1 DEF QueueInv, HeapFits
<1>11. "mark" \in SectionLabels
  BY DEF SectionLabels
<1> QED BY <1>1, <1>2, <1>3, <1>7, <1>8, <1>9, <1>10, <1>11,
           InnerStepKeepsInv

LEMMA MarkHighKeepsInv ==
  ASSUME QueueInv, NEW c \in Contexts, MarkHigh(c)
  PROVE  QueueInv'
<1>1. /\ Executes(c) /\ pc[c] = "mark" /\ Goto(c, "restore")
      /\ highMark' = IF Cardinality(heap) > highMark THEN Cardinality(heap)
                     ELSE highMark
      /\ UNCHANGED <<primask, saved, created, indices, start, stop, heap,
                     data, sizes, loc, asserted>>
  BY DEF MarkHigh, At
<1>2. InSection(c) /\ ~ Carries(c)
  BY <1>1 DEF InSection, SectionLabels, Carries
<1>3. /\ CallFits(c)
      /\ Cardinality(heap) \in 0 .. Depth /\ highMark \in 0 .. Depth
      /\ Depth \in Nat
      /\ RingOf(indices, start, stop, heap, {}, Cardinality(heap) + 0)
  BY <1>1, <1>2, Inside
<1>4. /\ highMark' \in 0 .. Depth /\ Cardinality(heap) <= highMark'
      /\ Cardinality(heap) <= highMark' + 1
  BY <1>1, <1>3
<1>5. pc'[c] = "restore"
  BY <1>1 DEF QueueInv, QueueTypeOK, Goto
<1>6. CallFits(c)'
  BY <1>1, <1>3, <1>5 DEF CallFits, SendLabels, ReceiveLabels
<1>7. QueueTypeOK'
  BY <1>1, <1>4 DEF QueueInv, QueueTypeOK, Goto, QueueLabels, SectionLabels
<1>8. HeapFits' /\ ~ asserted'
  BY <1>1 DEF QueueInv, HeapFits
<1>9. "restore" \in SectionLabels
  BY DEF SectionLabels
<1> QED BY <1>1, <1>2, <1>3, <1>4, <1>6, <1>7, <1>8, <1>9, InnerStepKeepsInv

LEMMA PopKeepsInv ==
  ASSUME QueueInv, NEW c \in Contexts, Pop(c)
  PROVE  QueueInv'
<1>1. /\ Executes(c) /\ pc[c] = "pop"
      /\ UNCHANGED <<primask, saved, created, indices, start, stop, data,
                     sizes, highMark>>
  BY DEF Pop, At
<1>2. InSection(c) /\ ~ Carries(c)
  BY <1>1 DEF InSection, SectionLabels, Carries
<1>3. /\ CallFits(c) /\ loc[c] \in Calls
      /\ RingOf(indices, start, stop, heap, {}, Cardinality(heap) + 0)
  BY <1>1, <1>2, Inside
<1>4. /\ Cardinality(heap) <= highMark /\ highMark \in Nat /\ Depth \in Nat
      /\ Cardinality(heap) \in 0 .. Depth /\ IsFiniteSet(heap)
  <2>1. /\ pc[c] \notin {"store", "mark"} => Cardinality(heap) <= highMark
        /\ highMark \in 0 .. Depth /\ Depth \in Nat
        /\ Cardinality(heap) \in 0 .. Depth /\ IsFiniteSet(heap)
    BY <1>1, <1>2, Inside
  <2> QED BY <1>1, <2>1
<1>5. heap # {}
  BY <1>1, <1>3 DEF CallFits
<1>6. PICK entry \in heap :
        /\ heap' = heap \ {entry}
        /\ loc' = [loc EXCEPT ![c].index = entry.index,
                              ![c].priority = entry.priority]
        /\ Goto(c, "load") /\ asserted' = asserted
  BY <1>5 DEF Pop
<1> DEFINE after == [[loc[c] EXCEPT !.index = entry.index]
                       EXCEPT !.priority = entry.priority]
<1>7. entry \in Entry
  BY DEF QueueInv, QueueTypeOK
<1>8. entry.index \in Slots /\ entry.priority \in Nat
  BY <1>7, QueueConstants DEF Entry
<1>9. loc' = [loc EXCEPT ![c] = after]
  BY <1>6 DEF QueueInv, QueueTypeOK
<1>10. /\ after \in Calls /\ after.outer = loc[c].outer
       /\ after.op = loc[c].op /\ after.index = entry.index
  BY <1>3, <1>8 DEF Calls
<1> HIDE DEF after
<1>11. /\ pc'[c] = "load" /\ loc'[c] = after
       /\ \A d \in Contexts : d # c => loc'[d] = loc[d]
  BY <1>6, <1>9 DEF QueueInv, QueueTypeOK, Goto
<1>12. /\ IsFiniteSet(heap')
       /\ Cardinality(heap') = Cardinality(heap) - 1
  BY <1>4, <1>6, FS_RemoveElement
<1>13. /\ Cardinality(heap') \in 0 .. Depth
       /\ Cardinality(heap') + 1 = Cardinality(heap) + 0
       /\ Cardinality(heap') <= highMark
       /\ Cardinality(heap') <= highMark + 1
  <2>1. Cardinality(heap') \in Nat
    BY <1>12, FS_CardinalityType
  <2> QED BY <1>4, <1>12, <2>1
<1>14. RingOf(indices', start', stop', heap', {loc'[c].index},
              Cardinality(heap') + 1)
  <2>1. indices \in [Slots -> Slots] /\ start \in Slots /\ stop \in Slots
    BY DEF QueueInv, QueueTypeOK
  <2>2. RingOf(indices, start, stop, heap \ {entry}, {entry.index},
               Cardinality(heap) + 0)
    BY <1>3, <2>1, TakeFromHeap
  <2> QED BY <1>1, <1>6, <1>10, <1>11, <1>13, <2>2
<1>15. CallFits(c)'
  BY <1>1, <1>3, <1>10, <1>11 DEF CallFits, SendLabels, ReceiveLabels
<1>16. QueueTypeOK'
  BY <1>1, <1>6, <1>9, <1>10
     DEF QueueInv, QueueTypeOK, Goto, QueueLabels, SectionLabels
<1>17. HeapFits' /\ ~ asserted'
  BY <1>6, <1>12, <1>13 DEF QueueInv, HeapFits
<1>18. "load" \in SectionLabels
  BY DEF SectionLabels
<1> QED BY <1>1, <1>2, <1>6, <1>10, <1>11, <1>13, <1>14, <1>15, <1>16, <1>17,
           <1>18, InnerStepKeepsInv

LEMMA LoadDataKeepsInv ==
  ASSUME QueueInv, NEW c \in Contexts, LoadData(c)
  PROVE  QueueInv'
<1> DEFINE index == loc[c].index
           after == [[loc[c] EXCEPT !.size = sizes[index]]
                       EXCEPT !.got = data[index]]
<1>1. /\ Executes(c) /\ pc[c] = "load" /\ Goto(c, "give")
      /\ Assert(sizes[index] <= Capacity /\ sizes[index] <= MaxSize)
      /\ loc' = [loc EXCEPT ![c].size = sizes[index], ![c].got = data[index]]
      /\ UNCHANGED <<primask, saved, created, handle>>
  BY DEF LoadData, At
<1>2. InSection(c) /\ Carries(c)
  BY <1>1 DEF InSection, SectionLabels, Carries
<1>3. /\ CallFits(c) /\ loc[c] \in Calls
      /\ RingOf(indices, start, stop, heap, {loc[c].index},
                Cardinality(heap) + 1)
      /\ Cardinality(heap) <= highMark + 1
  BY <1>1, <1>2, Inside
<1>4. Cardinality(heap) <= highMark
  BY <1>1, <1>2, Inside
<1>5. index \in Slots /\ sizes[index] \in Content /\ data[index] \in Content
  BY <1>3 DEF Calls, QueueInv, QueueTypeOK
<1>6. sizes[index] <= Capacity /\ sizes[index] <= MaxSize /\ sizes[index] \in Nat
  BY <1>5, QueueConstants DEF Content
<1>7. asserted' = FALSE
  BY <1>1, <1>6 DEF Assert
<1>8. loc' = [loc EXCEPT ![c] = after]
  BY <1>1 DEF QueueInv, QueueTypeOK
<1>9. /\ after \in Calls /\ after.outer = loc[c].outer
      /\ after.op = loc[c].op /\ after.index = index
  BY <1>3, <1>5, <1>6 DEF Calls
<1> HIDE DEF after
<1>10. /\ pc'[c] = "give" /\ loc'[c] = after
       /\ \A d \in Contexts : d # c => loc'[d] = loc[d]
  BY <1>1, <1>8 DEF QueueInv, QueueTypeOK, Goto
<1>11. UNCHANGED <<indices, start, stop, heap, highMark, data, sizes>>
  BY <1>1 DEF handle
<1>12. CallFits(c)'
  BY <1>1, <1>3, <1>9, <1>10 DEF CallFits, SendLabels, ReceiveLabels
<1>13. asserted' \in BOOLEAN /\ ~ asserted'
  BY <1>7
<1>14. QueueTypeOK'
  BY <1>1, <1>8, <1>9, <1>11, <1>13
     DEF QueueInv, QueueTypeOK, Goto, QueueLabels, SectionLabels
<1>15. HeapFits'
  BY <1>11 DEF QueueInv, HeapFits
<1>16. "give" \in SectionLabels
  BY DEF SectionLabels
<1>17. /\ RingOf(indices', start', stop', heap', {loc'[c].index},
                 Cardinality(heap') + 1)
       /\ Cardinality(heap') <= highMark' /\ Cardinality(heap') <= highMark' + 1
  BY <1>3, <1>4, <1>9, <1>10, <1>11
<1> QED BY <1>1, <1>2, <1>9, <1>10, <1>12, <1>13, <1>14, <1>15, <1>16, <1>17,
           InnerStepKeepsInv

LEMMA ReturnIndexKeepsInv ==
  ASSUME QueueInv, NEW c \in Contexts, ReturnIndex(c)
  PROVE  QueueInv'
<1> DEFINE slot == loc[c].index
<1>1. /\ Executes(c) /\ pc[c] = "give" /\ Goto(c, "restore")
      /\ indices' = [indices EXCEPT ![stop] = slot]
      /\ stop' = Successor(stop)
      /\ UNCHANGED <<primask, saved, created, start, heap, data, sizes,
                     highMark, loc, asserted>>
  BY DEF ReturnIndex, At
<1>2. InSection(c) /\ Carries(c)
  BY <1>1 DEF InSection, SectionLabels, Carries
<1>3. /\ CallFits(c) /\ loc[c] \in Calls
      /\ RingOf(indices, start, stop, heap, {slot}, Cardinality(heap) + 1)
      /\ Cardinality(heap) <= highMark + 1
      /\ Cardinality(heap) \in 0 .. Depth /\ Depth \in Nat
  BY <1>1, <1>2, Inside
<1>4. Cardinality(heap) <= highMark
  BY <1>1, <1>2, Inside
<1>5. /\ indices \in [Slots -> Slots] /\ start \in Slots /\ stop \in Slots
      /\ slot \in Slots /\ Slots = 0 .. Depth - 1
  BY <1>3, QueueConstants DEF QueueInv, QueueTypeOK, Calls
<1> HIDE DEF slot
<1>6. RingOf(indices', start', stop', heap', {}, Cardinality(heap') + 0)
  <2> DEFINE n == Cardinality(heap) + 1
  <2>1. n \in Nat /\ n > 0 /\ n - 1 = Cardinality(heap) + 0
    BY <1>3
  <2>2. RingOf(indices, start, stop, heap, {slot}, n)
    BY <1>3
  <2> HIDE DEF n
  <2>3. RingOf(indices', start, Successor(stop), heap, {}, n - 1)
    BY <1>1, <1>5, <2>1, <2>2, GiveSlot
  <2> QED BY <1>1, <2>1, <2>3
<1>7. pc'[c] = "restore"
  BY <1>1 DEF QueueInv, QueueTypeOK, Goto
<1>8. CallFits(c)'
  BY <1>1, <1>3, <1>7 DEF CallFits, SendLabels, ReceiveLabels
<1>9. QueueTypeOK'
  BY <1>1, <1>5, SuccessorType
     DEF QueueInv, QueueTypeOK, Goto, QueueLabels, SectionLabels
<1>10. HeapFits' /\ ~ asserted'
  BY <1>1 DEF QueueInv, HeapFits
<1>11. /\ Cardinality(heap') <= highMark'
       /\ Cardinality(heap') <= highMark' + 1
  BY <1>1, <1>3, <1>4
<1>12. "restore" \in SectionLabels
  BY DEF SectionLabels
<1> QED BY <1>1, <1>2, <1>6, <1>8, <1>9, <1>10, <1>11, <1>12,
           InnerStepKeepsInv

-----------------------------------------------------------------------------
(***************************************************************************)
(* Creation, destruction, and the start.                                   *)
(***************************************************************************)

LEMMA CreateKeepsInv ==
  ASSUME QueueInv, Create
  PROVE  QueueInv'
<1>1. \A c \in Contexts : pc[c] = "idle" /\ pc'[c] = "idle"
  BY DEF Create, AllIdle, cpuVars
<1>2. UNCHANGED <<pc, primask, saved, loc, asserted>>
  BY DEF Create, cpuVars
<1>3. /\ created' = TRUE /\ heap' = {} /\ start' = 0 /\ stop' = 0
      /\ indices' = [i \in Slots |-> i] /\ sizes' = [i \in Slots |-> 0]
      /\ data' = [i \in Slots |-> 0] /\ highMark' = 0
  BY DEF Create
<1>4. 0 \in Slots /\ 0 \in Content /\ 0 \in 0 .. Depth /\ Depth \in Nat
  BY QueueConstants DEF Content
<1>5. QueueTypeOK'
  BY <1>2, <1>3, <1>4 DEF QueueInv, QueueTypeOK
<1>6. IsFiniteSet(heap') /\ Cardinality(heap') = 0
  BY <1>3, FS_EmptySet
<1>7. HeapFits'
  BY <1>4, <1>6 DEF HeapFits
<1>8. Masked'
  BY <1>2 DEF QueueInv, Masked, SectionsMasked, SavedMask, Masks, InSection
<1>9. CallsFit'
  BY <1>1 DEF CallsFit, CallFits, SendLabels, ReceiveLabels
<1>10. Carried' = {} /\ Used' = 0
  <2>1. \A c \in Contexts : ~ Carries(c)'
    BY <1>1 DEF Carries
  <2>2. ~ (\E c \in Contexts : Carries(c)')
    BY <2>1
  <2>3. Used' = Cardinality(heap') + 0
    BY <2>2 DEF Used
  <2>4. Used' = 0
    BY <1>6, <2>3
  <2>5. Carried' = {}
    BY <2>1 DEF Carried
  <2> QED BY <2>4, <2>5
<1>11. Ring'
  BY <1>3, <1>10, FreshRing DEF Ring
<1>12. Marked'
  BY <1>3, <1>6 DEF Marked
<1> QED BY <1>2, <1>5, <1>7, <1>8, <1>9, <1>11, <1>12 DEF QueueInv

LEMMA TeardownKeepsInv ==
  ASSUME QueueInv, Teardown
  PROVE  QueueInv'
<1>1. \A c \in Contexts : pc[c] = "idle" /\ pc'[c] = "idle"
  BY DEF Teardown, AllIdle, cpuVars
<1>2. /\ UNCHANGED <<pc, primask, saved, loc, asserted>>
      /\ UNCHANGED <<indices, start, stop, data, sizes, highMark>>
      /\ created' = FALSE /\ heap' = {}
  BY DEF Teardown, cpuVars
<1>3. QueueTypeOK'
  BY <1>2 DEF QueueInv, QueueTypeOK
<1>4. IsFiniteSet(heap') /\ Cardinality(heap') = 0
  BY <1>2, FS_EmptySet
<1>5. HeapFits'
  BY <1>4, QueueConstants DEF HeapFits
<1>6. Masked'
  BY <1>2 DEF QueueInv, Masked, SectionsMasked, SavedMask, Masks, InSection
<1>7. CallsFit'
  BY <1>1 DEF CallsFit, CallFits, SendLabels, ReceiveLabels
<1>8. Ring'
  BY <1>2 DEF Ring
<1>9. Marked'
  <2>1. highMark' \in Nat
    BY <1>2, QueueConstants DEF QueueInv, QueueTypeOK
  <2>2. \A n \in Nat : 0 <= n /\ 0 <= n + 1
    OBVIOUS
  <2>3. /\ Cardinality(heap') <= highMark'
        /\ Cardinality(heap') <= highMark' + 1
    BY <1>4, <2>1, <2>2, Zenon
  <2> QED BY <2>3 DEF Marked
<1> QED BY <1>2, <1>3, <1>5, <1>6, <1>7, <1>8, <1>9 DEF QueueInv

LEMMA InitEstablishesInv ==
  ASSUME QueueInit
  PROVE  QueueInv
<1>1. \A c \in Contexts :
        pc[c] = "idle" /\ loc[c] = NoCall /\ saved[c] = 0
  BY DEF QueueInit, CpuInit
<1>2. 0 \in Slots /\ 0 \in Content /\ 0 \in 0 .. Depth /\ Depth \in Nat
  BY QueueConstants DEF Content
<1>3. NoCall \in Calls
  BY <1>2 DEF NoCall, Calls
<1>4. QueueTypeOK
  BY <1>2, <1>3 DEF QueueInit, CpuInit, QueueTypeOK, QueueLabels
<1>5. IsFiniteSet(heap) /\ Cardinality(heap) = 0 /\ highMark = 0
  BY FS_EmptySet DEF QueueInit
<1>6. HeapFits
  BY <1>2, <1>5 DEF HeapFits
<1>7. \A c \in Contexts : ~ Masks(c) /\ ~ InSection(c) /\ pc[c] # "mask"
  BY <1>1 DEF Masks, InSection, SectionLabels
<1>8. Masked
  BY <1>7 DEF QueueInit, CpuInit, Masked, SectionsMasked, SavedMask
<1>9. CallsFit
  BY <1>1 DEF CallsFit, CallFits, SendLabels, ReceiveLabels
<1>10. Ring /\ ~ asserted
  BY DEF QueueInit, Ring
<1>11. Marked
  BY <1>5 DEF Marked
<1> QED BY <1>4, <1>6, <1>8, <1>9, <1>10, <1>11 DEF QueueInv

LEMMA StutterKeepsInv ==
  ASSUME QueueInv, UNCHANGED queueVars
  PROVE  QueueInv'
<1>1. /\ UNCHANGED <<pc, primask, saved, created, indices, start, stop>>
      /\ UNCHANGED <<heap, data, sizes, highMark, loc, asserted>>
  BY DEF queueVars, cpuVars, handle
<1>2. QueueTypeOK'
  BY <1>1 DEF QueueInv, QueueTypeOK
<1>3. Masked'
  BY <1>1 DEF QueueInv, Masked, SectionsMasked, SavedMask, Masks, InSection
<1>4. HeapFits' /\ Marked' /\ ~ asserted'
  BY <1>1 DEF QueueInv, HeapFits, Marked
<1>5. CallsFit'
  BY <1>1 DEF QueueInv, CallsFit, CallFits
<1>6. Ring'
  BY <1>1 DEF QueueInv, Ring, Carried, Used, Carries
<1> QED BY <1>2, <1>3, <1>4, <1>5, <1>6 DEF QueueInv

LEMMA NextKeepsInv ==
  ASSUME QueueInv, [QueueNext]_queueVars
  PROVE  QueueInv'
<1>1. CASE Create
  BY <1>1, CreateKeepsInv
<1>2. CASE Teardown
  BY <1>2, TeardownKeepsInv
<1>3. ASSUME NEW c \in Contexts, QueueCall(c)
      PROVE  QueueInv'
  BY <1>3, SendKeepsInv, ReceiveKeepsInv DEF QueueCall
<1>4. ASSUME NEW c \in Contexts, QueueStep(c)
      PROVE  QueueInv'
  BY <1>4, LockKeepsInv, CheckHeapKeepsInv, FindIndexKeepsInv, PushKeepsInv,
     StoreDataKeepsInv, MarkHighKeepsInv, PopKeepsInv, LoadDataKeepsInv,
     ReturnIndexKeepsInv, UnlockKeepsInv, ReturnKeepsInv DEF QueueStep
<1>5. CASE UNCHANGED queueVars
  BY <1>5, StutterKeepsInv
<1> QED BY <1>1, <1>2, <1>3, <1>4, <1>5 DEF QueueNext

-----------------------------------------------------------------------------
(***************************************************************************)
(* The theorems.                                                           *)
(***************************************************************************)

\* QueueInv holds in every state a main loop and its handlers can bring the
\* queue to.
THEOREM QueueInvariance == QueueSpec => []QueueInv
<1>1. QueueInit => QueueInv
  BY InitEstablishesInv
<1>2. QueueInv /\ [QueueNext]_queueVars => QueueInv'
  BY NextKeepsInv
<1> QED BY <1>1, <1>2, PTL DEF QueueSpec

\* The fields of the handle and the locals of the calls stay in range; an
\* index never leaves the slots (find_index, return_index, :31-46).
THEOREM QueueTypes == QueueSpec => []QueueTypeOK
<1>1. QueueInv => QueueTypeOK
  BY DEF QueueInv
<1> QED BY <1>1, QueueInvariance, PTL

\* No FW_ASSERT of the queue can fail (store_data and load_data :55-74,
\* receive :189-191, the heap's push and pop).
THEOREM QueueNeverAsserts == QueueSpec => []QueueNoAssertion
<1>1. QueueInv => QueueNoAssertion
  BY DEF QueueInv, QueueNoAssertion
<1> QED BY <1>1, QueueInvariance, PTL

\* Critical sections nest for every number of interrupt priorities: none is
\* entered while another is open below it (Lock.hpp:28-30, Cpu.cpp:47-68).
THEOREM QueueSectionsMasked == QueueSpec => []SectionsMasked
<1>1. QueueInv => SectionsMasked
  BY DEF QueueInv, Masked
<1> QED BY <1>1, QueueInvariance, PTL

\* No slot is ever in two places, however long the queue is used (find_index,
\* return_index, :31-46).
THEOREM QueueSlotsExclusive == QueueSpec => []SlotsExclusive
<1>1. ASSUME QueueInv, created
      PROVE  SlotsExclusive
  <2>1. RingOf(indices, start, stop, heap, Carried, Used)
    BY <1>1 DEF QueueInv, Ring
  <2>2. \A i \in Slots : Free(i) <=> Offset(start, i) < Depth - Used
    BY DEF Free, Offset
  <2>3. \A c \in Contexts : Carries(c) => loc[c].index \in Carried
    BY DEF Carried
  <2>4. \A i, j \in Slots :
          Free(i) /\ Free(j) /\ i # j => indices[i] # indices[j]
    BY <2>1, <2>2 DEF RingOf
  <2>5. \A i \in Slots : Free(i) =>
          /\ indices[i] \notin Carried
          /\ \A entry \in heap : indices[i] # entry.index
    BY <2>1, <2>2 DEF RingOf
  <2>6. /\ \A e, f \in heap : e.index = f.index => e = f
        /\ \A entry \in heap : entry.index \notin Carried
    BY <2>1 DEF RingOf
  <2>7. \A c \in Contexts : Carries(c) =>
          /\ \A i \in Slots : Free(i) => indices[i] # loc[c].index
          /\ \A entry \in heap : entry.index # loc[c].index
    BY <2>3, <2>5, <2>6
  <2> QED BY <2>4, <2>5, <2>6, <2>7 DEF SlotsExclusive
<1>2. QueueInv => SlotsExclusive
  BY <1>1 DEF SlotsExclusive
<1> QED BY <1>2, QueueInvariance, PTL

\* With interrupts enabled the high water mark covers the messages in the
\* queue, for every depth and every number of senders (:170, :198-205).
THEOREM QueueHighMark == QueueSpec => []HighMarkCovers
<1>1. ASSUME QueueInv, primask = 0
      PROVE  Cardinality(heap) <= highMark
  <2>1. \A c \in Contexts : ~ Masks(c)
    BY <1>1 DEF QueueInv, Masked, SectionsMasked
  <2>2. \A c \in Contexts : pc[c] \notin {"store", "mark"}
    BY <2>1 DEF Masks, InSection, SectionLabels
  <2> QED BY <1>1, <2>2 DEF QueueInv, Marked
<1>2. QueueInv => HighMarkCovers
  BY <1>1 DEF HighMarkCovers
<1> QED BY <1>2, QueueInvariance, PTL

-----------------------------------------------------------------------------
(***************************************************************************)
(* The queue implements PriorityQueue. What the steps of a call bring      *)
(* along, beyond QueueInv: the messages in the queue are whole and were    *)
(* sent, the one about to be copied out has the highest priority, and a    *)
(* call has no answer before the step that settles it.                     *)
(***************************************************************************)
EntryOf(c) == [index |-> loc[c].index, priority |-> loc[c].priority]

WholeEntry(e) ==
  /\ sizes[e.index] = data[e.index]
  /\ sizes[e.index] \in Sizes
  /\ sizes[e.index] <= MaxSize

QueuedWhole == \A e \in Queued : WholeEntry(e)

CallTrue(c) ==
  /\ pc[c] = "idle" => loc[c] = NoCall
  /\ pc[c] # "idle" => loc[c].op \in {"send", "receive"}
  /\ loc[c].op = "send" /\ pc[c] \notin {"restore", "return"} =>
       loc[c].size \in Sizes
  /\ pc[c] = "store" => EntryOf(c) \in heap
  /\ pc[c] = "load" =>
       /\ loc[c].priority \in Priorities
       /\ \A e \in heap : e.priority <= loc[c].priority
  /\ loc[c].status # "none" => pc[c] \in {"restore", "return"}
  /\ loc[c].status = "mismatch" => pc[c] = "return" /\ loc[c].op = "send"

CallsTrue == \A c \in Contexts : CallTrue(c)

HeapGone == ~ created => heap = {}

WholeInv == QueueInv /\ QueuedWhole /\ CallsTrue /\ HeapGone

\* Queued and Held of a program counter p, locals l, a heap h, and of slots
\* with contents dt of sizes sz.
QueuedOf(p, l, h) ==
  (h \ {[index |-> l[c].index, priority |-> l[c].priority] :
          c \in {d \in Contexts : p[d] = "store"}})
  \cup {[index |-> l[c].index, priority |-> l[c].priority] :
          c \in {d \in Contexts : p[d] = "load"}}

StoredIn(sz, dt, e) ==
  [size |-> IF sz[e.index] = dt[e.index] THEN sz[e.index] ELSE MaxSize + 1,
   priority |-> e.priority]

HeldOf(Q, sz, dt) ==
  [m \in Message |-> Cardinality({e \in Q : StoredIn(sz, dt, e) = m})]

LEMMA QueuedIsQueuedOf ==
  /\ Queued = QueuedOf(pc, loc, heap)
  /\ Queued' = QueuedOf(pc', loc', heap')
BY DEF Queued, QueuedOf

LEMMA HeldIsHeldOf ==
  /\ Held = HeldOf(Queued, sizes, data)
  /\ Held' = HeldOf(Queued', sizes', data')
BY DEF Held, HeldOf, Stored, StoredIn

LEMMA QueuedInside ==
  ASSUME NEW p, NEW l, NEW h, NEW c \in Contexts,
         \A d \in Contexts : d # c => p[d] \notin {"store", "load"}
  PROVE  LET e == [index |-> l[c].index, priority |-> l[c].priority]
         IN  QueuedOf(p, l, h) = IF p[c] = "store" THEN h \ {e}
                                 ELSE IF p[c] = "load" THEN h \cup {e} ELSE h
<1> DEFINE e == [index |-> l[c].index, priority |-> l[c].priority]
           E(d) == [index |-> l[d].index, priority |-> l[d].priority]
<1>1. E(c) = e
  OBVIOUS
<1>2. CASE p[c] = "store"
  <2>1. {d \in Contexts : p[d] = "store"} = {c}
    BY <1>2
  <2>2. {d \in Contexts : p[d] = "load"} = {}
    BY <1>2
  <2>3. {E(d) : d \in {x \in Contexts : p[x] = "store"}} = {e}
    BY <2>1
  <2>4. {E(d) : d \in {x \in Contexts : p[x] = "load"}} = {}
    BY <2>2
  <2> QED BY <1>2, <2>3, <2>4 DEF QueuedOf
<1>3. CASE p[c] = "load"
  <2>1. {d \in Contexts : p[d] = "load"} = {c}
    BY <1>3
  <2>2. {d \in Contexts : p[d] = "store"} = {}
    BY <1>3
  <2>3. {E(d) : d \in {x \in Contexts : p[x] = "load"}} = {e}
    BY <2>1
  <2>4. {E(d) : d \in {x \in Contexts : p[x] = "store"}} = {}
    BY <2>2
  <2> QED BY <1>3, <2>3, <2>4 DEF QueuedOf
<1>4. CASE p[c] \notin {"store", "load"}
  <2>1. {d \in Contexts : p[d] = "load"} = {} /\ {d \in Contexts : p[d] = "store"} = {}
    BY <1>4
  <2>2. /\ {E(d) : d \in {x \in Contexts : p[x] = "load"}} = {}
        /\ {E(d) : d \in {x \in Contexts : p[x] = "store"}} = {}
    BY <2>1
  <2> QED BY <1>4, <2>2 DEF QueuedOf
<1> QED BY <1>2, <1>3, <1>4

LEMMA HeldSame ==
  ASSUME NEW Q, NEW sz, NEW dt, NEW sy, NEW dy,
         \A f \in Q : StoredIn(sy, dy, f) = StoredIn(sz, dt, f)
  PROVE  HeldOf(Q, sy, dy) = HeldOf(Q, sz, dt)
<1>1. \A m : {e \in Q : StoredIn(sy, dy, e) = m} = {e \in Q : StoredIn(sz, dt, e) = m}
  OBVIOUS
<1> QED BY <1>1 DEF HeldOf

\* The copies of a message with one more entry, and with one less.
LEMMA HeldWithEntry ==
  ASSUME NEW Q, IsFiniteSet(Q), NEW sz, NEW dt, NEW e,
         e \notin Q, NEW m \in Message, StoredIn(sz, dt, e) = m
  PROVE  /\ HeldOf(Q \cup {e}, sz, dt) = [HeldOf(Q, sz, dt) EXCEPT ![m] = @ + 1]
         /\ Cardinality(Q \cup {e}) = Cardinality(Q) + 1
<1> DEFINE of(n) == {f \in Q : StoredIn(sz, dt, f) = n}
           with(n) == {f \in Q \cup {e} : StoredIn(sz, dt, f) = n}
<1>1. ASSUME NEW n \in Message
      PROVE  Cardinality(with(n)) = IF n = m THEN Cardinality(of(n)) + 1
                                    ELSE Cardinality(of(n))
  <2>1. IsFiniteSet(of(n)) /\ e \notin of(n)
    BY FS_Subset
  <2>2. CASE n = m
    <3>1. with(n) = of(n) \cup {e}
      BY <2>2
    <3> QED BY <2>1, <2>2, <3>1, FS_AddElement
  <2>3. CASE n # m
    <3>1. with(n) = of(n)
      BY <2>3
    <3> QED BY <2>3, <3>1
  <2> QED BY <2>2, <2>3
<1>2. \A n \in Message : HeldOf(Q, sz, dt)[n] = Cardinality(of(n))
  BY DEF HeldOf
<1>3. HeldOf(Q, sz, dt) = [n \in Message |-> Cardinality(of(n))]
  BY DEF HeldOf
<1>4. HeldOf(Q \cup {e}, sz, dt) = [n \in Message |-> Cardinality(with(n))]
  BY DEF HeldOf
<1> HIDE DEF of, with
<1>5. HeldOf(Q \cup {e}, sz, dt) = [HeldOf(Q, sz, dt) EXCEPT ![m] = @ + 1]
  BY <1>1, <1>3, <1>4
<1> QED BY <1>5, FS_AddElement

LEMMA HeldWithoutEntry ==
  ASSUME NEW R, IsFiniteSet(R), NEW sz, NEW dt, NEW e \in R,
         NEW m \in Message, StoredIn(sz, dt, e) = m
  PROVE  /\ HeldOf(R \ {e}, sz, dt) = [HeldOf(R, sz, dt) EXCEPT ![m] = @ - 1]
         /\ Cardinality(R \ {e}) = Cardinality(R) - 1
<1>0. PICK Q : Q = R \ {e}
  OBVIOUS
<1>1. IsFiniteSet(Q) /\ e \notin Q /\ R = Q \cup {e}
  BY <1>0, FS_RemoveElement
<1>2. HeldOf(R, sz, dt) = [HeldOf(Q, sz, dt) EXCEPT ![m] = @ + 1]
  BY <1>1, HeldWithEntry
<1>3. \A n \in Message : HeldOf(Q, sz, dt)[n] \in Nat
  <2> SUFFICES ASSUME NEW n \in Message PROVE HeldOf(Q, sz, dt)[n] \in Nat
    OBVIOUS
  <2>1. IsFiniteSet({f \in Q : StoredIn(sz, dt, f) = n})
    BY <1>1, FS_Subset
  <2> QED BY <2>1, FS_CardinalityType DEF HeldOf
<1> DEFINE small == HeldOf(Q, sz, dt)
           large == HeldOf(R, sz, dt)
<1>4. small = [n \in Message |-> small[n]] /\ large = [n \in Message |-> large[n]]
  BY DEF HeldOf
<1>5. \A n \in Message : large[n] = IF n = m THEN small[n] + 1 ELSE small[n]
  BY <1>2, <1>4
<1>6. \A n \in Message : small[n] \in Nat
  BY <1>3
<1> HIDE DEF small, large
<1>7. small = [large EXCEPT ![m] = @ - 1]
  BY <1>4, <1>5, <1>6
<1>8. Cardinality(Q) = Cardinality(R) - 1
  BY <1>0, FS_RemoveElement
<1> QED BY <1>0, <1>7, <1>8 DEF small, large

LEMMA HeldPositive ==
  ASSUME NEW Q, IsFiniteSet(Q), NEW sz, NEW dt, NEW m \in Message
  PROVE  HeldOf(Q, sz, dt)[m] > 0 <=> \E e \in Q : StoredIn(sz, dt, e) = m
<1> DEFINE of == {e \in Q : StoredIn(sz, dt, e) = m}
<1>1. HeldOf(Q, sz, dt)[m] = Cardinality(of)
  BY DEF HeldOf
<1>2. IsFiniteSet(of)
  BY FS_Subset
<1>3. Cardinality(of) \in Nat /\ (Cardinality(of) = 0 <=> of = {})
  BY <1>2, FS_CardinalityType, FS_EmptySet
<1>4. Cardinality(of) > 0 <=> of # {}
  BY <1>3
<1> QED BY <1>1, <1>4

LEMMA HeldOfNothing ==
  ASSUME NEW sz, NEW dt
  PROVE  HeldOf({}, sz, dt) = [m \in Message |-> 0]
<1>1. \A m : {e \in {} : StoredIn(sz, dt, e) = m} = {}
  OBVIOUS
<1> QED BY <1>1, FS_EmptySet DEF HeldOf

-----------------------------------------------------------------------------
(***************************************************************************)
(* Steps of the queue that are no steps of the priority queue, and steps   *)
(* that settle an answer.                                                  *)
(***************************************************************************)
SameOutside(c) ==
  \A d \in Contexts : d # c => pc'[d] = pc[d] /\ loc'[d] = loc[d]

LEMMA AnswerOfTheOthers ==
  ASSUME NEW c \in Contexts, SameOutside(c), NEW d \in Contexts, d # c
  PROVE  AnswerOf(d)' = AnswerOf(d) /\ TakenBy(d)' = TakenBy(d)
<1>1. pc'[d] = pc[d] /\ loc'[d] = loc[d]
  BY DEF SameOutside
<1>2. AnswerOf(d)' = AnswerOf(d)
  BY <1>1 DEF AnswerOf
<1> QED BY <1>1, <1>2 DEF TakenBy

LEMMA SettledAnswer ==
  ASSUME NEW c \in Contexts, SameOutside(c), AnswerOf(c) = "none",
         NEW what, AnswerOf(c)' = what, NEW messages, TakenBy(c)' = messages
  PROVE  Queue!Answer(c, what, messages)
<1>1. \A d \in Contexts : d # c =>
        AnswerOf(d)' = AnswerOf(d) /\ TakenBy(d)' = TakenBy(d)
  BY AnswerOfTheOthers
<1>2. [d \in Contexts |-> AnswerOf(d)'] =
        [[d \in Contexts |-> AnswerOf(d)] EXCEPT ![c] = what]
  BY <1>1
<1>3. [d \in Contexts |-> TakenBy(d)'] =
        [[d \in Contexts |-> TakenBy(d)] EXCEPT ![c] = messages]
  BY <1>1
<1> QED BY <1>2, <1>3 DEF Queue!Answer

LEMMA SameAnswer ==
  ASSUME NEW c \in Contexts, SameOutside(c), AnswerOf(c)' = AnswerOf(c),
         TakenBy(c)' = TakenBy(c)
  PROVE  /\ [d \in Contexts |-> AnswerOf(d)'] = [d \in Contexts |-> AnswerOf(d)]
         /\ [d \in Contexts |-> TakenBy(d)'] = [d \in Contexts |-> TakenBy(d)]
<1>1. \A d \in Contexts : AnswerOf(d)' = AnswerOf(d) /\ TakenBy(d)' = TakenBy(d)
  BY AnswerOfTheOthers
<1> QED BY <1>1

\* The messages in the queue stay as they are.
LEMMA SameQueued ==
  ASSUME Queued' = Queued, UNCHANGED <<data, sizes>>
  PROVE  /\ Held' = Held /\ Cardinality(Queued') = Cardinality(Queued)
         /\ QueuedWhole => QueuedWhole'
<1>1. Held' = Held
  BY HeldIsHeldOf
<1>2. QueuedWhole => QueuedWhole'
  BY DEF QueuedWhole, WholeEntry
<1> QED BY <1>1, <1>2

\* A call moves on, not to or from the labels that count for Queued.
LEMMA SameQueuedOutside ==
  ASSUME NEW c \in Contexts, SameOutside(c), UNCHANGED heap,
         pc[c] \notin {"store", "load"}, pc'[c] \notin {"store", "load"}
  PROVE  Queued' = Queued
<1>1. /\ {d \in Contexts : pc'[d] = "store"} = {d \in Contexts : pc[d] = "store"}
      /\ {d \in Contexts : pc'[d] = "load"} = {d \in Contexts : pc[d] = "load"}
  BY DEF SameOutside
<1>2. \A d \in Contexts : pc[d] \in {"store", "load"} => loc'[d] = loc[d]
  BY DEF SameOutside
<1>3. /\ {[index |-> loc'[d].index, priority |-> loc'[d].priority] :
            d \in {x \in Contexts : pc'[x] = "store"}}
         = {[index |-> loc[d].index, priority |-> loc[d].priority] :
            d \in {x \in Contexts : pc[x] = "store"}}
      /\ {[index |-> loc'[d].index, priority |-> loc'[d].priority] :
            d \in {x \in Contexts : pc'[x] = "load"}}
         = {[index |-> loc[d].index, priority |-> loc[d].priority] :
            d \in {x \in Contexts : pc[x] = "load"}}
  BY <1>1, <1>2
<1> QED BY <1>3 DEF Queued

LEMMA SilentStep ==
  ASSUME NEW c \in Contexts, SameOutside(c), AnswerOf(c)' = AnswerOf(c),
         TakenBy(c)' = TakenBy(c), Queued' = Queued, UNCHANGED <<data, sizes>>
  PROVE  UNCHANGED Queue!vars
BY SameAnswer, SameQueued DEF Queue!vars

\* What a step of c leaves to the other calls.
LEMMA OthersTrue ==
  ASSUME NEW c \in Contexts, SameOutside(c), CallsTrue,
         \/ UNCHANGED heap
         \/ \A d \in Contexts : d # c => pc[d] \notin {"store", "load"},
         CallTrue(c)'
  PROVE  CallsTrue'
<1> SUFFICES ASSUME NEW d \in Contexts, d # c PROVE CallTrue(d)'
  BY DEF CallsTrue
<1>1. pc'[d] = pc[d] /\ loc'[d] = loc[d] /\ CallTrue(d)
  BY DEF SameOutside, CallsTrue
<1>2. pc[d] = "store" => (EntryOf(d) \in heap)'
  BY <1>1 DEF CallTrue, EntryOf
<1>3. pc[d] = "load" => \A e \in heap' : e.priority <= loc[d].priority
  BY <1>1 DEF CallTrue
<1> QED BY <1>1, <1>2, <1>3 DEF CallTrue

LEMMA NobodyElseInside ==
  ASSUME QueueInv, NEW c \in Contexts, Executes(c), InSection(c)
  PROVE  \A d \in Contexts : d # c => pc[d] \notin {"store", "load"}
<1>1. pc[c] # "idle"
  BY DEF InSection, SectionLabels
<1>2. \A d \in Contexts : d # c => pc[d] \notin SectionLabels
  BY <1>1, Alone DEF QueueInv, Masked, Masks, InSection
<1> QED BY <1>2 DEF SectionLabels

\* A step that moves neither messages nor answers.
LEMMA QuietStep ==
  ASSUME WholeInv, QueueInv', NEW c \in Contexts, SameOutside(c), CallTrue(c)',
         UNCHANGED <<heap, data, sizes>>, created' = created,
         pc[c] \notin {"store", "load"}, pc'[c] \notin {"store", "load"}
  PROVE  /\ WholeInv' /\ Held' = Held /\ Cardinality(Queued') = Cardinality(Queued)
         /\ AnswerOf(c)' = AnswerOf(c) /\ TakenBy(c)' = TakenBy(c) =>
              UNCHANGED Queue!vars
<1>1. Queued' = Queued
  BY SameQueuedOutside
<1>2. CallsTrue'
  BY OthersTrue DEF WholeInv
<1>3. HeapGone'
  BY DEF WholeInv, HeapGone
<1> QED BY <1>1, <1>2, <1>3, SameQueued, SilentStep DEF WholeInv

LEMMA Moves ==
  ASSUME QueueInv, NEW c \in Contexts, NEW l, NEW x, Goto(c, l),
         loc' = [loc EXCEPT ![c] = x]
  PROVE  SameOutside(c) /\ pc'[c] = l /\ loc'[c] = x
BY DEF QueueInv, QueueTypeOK, Goto, SameOutside

LEMMA MovesOnly ==
  ASSUME QueueInv, NEW c \in Contexts, NEW l, Goto(c, l), loc' = loc
  PROVE  SameOutside(c) /\ pc'[c] = l /\ loc'[c] = loc[c]
BY DEF QueueInv, QueueTypeOK, Goto, SameOutside

\* No answer is given before the call has taken effect.
OpenLabels == {"idle", "save", "mask", "check", "find", "push", "store", "pop",
               "load"}

LEMMA NoAnswerYet ==
  ASSUME WholeInv, NEW c \in Contexts, pc[c] \in OpenLabels
  PROVE  AnswerOf(c) = "none" /\ TakenBy(c) = {}
<1>1. loc[c].status = "none"
  BY DEF WholeInv, CallsTrue, CallTrue, OpenLabels
<1>2. AnswerOf(c) = "none"
  BY <1>1 DEF AnswerOf, OpenLabels
<1> QED BY <1>2 DEF TakenBy

LEMMA NoAnswerThen ==
  ASSUME NEW c \in Contexts, pc'[c] \in OpenLabels, loc'[c].status = "none"
  PROVE  AnswerOf(c)' = "none" /\ TakenBy(c)' = {}
<1>1. AnswerOf(c)' = "none"
  BY DEF AnswerOf, OpenLabels
<1> QED BY <1>1 DEF TakenBy

LEMMA SendIsSilent ==
  ASSUME WholeInv, QueueInv', NEW c \in Contexts, NEW size \in Sizes,
         NEW priority \in Priorities, NEW outer \in OuterLocks,
         Send(c, size, priority, outer)
  PROVE  WholeInv' /\ UNCHANGED Queue!vars
<1> DEFINE call == [NoCall EXCEPT !.op = "send", !.outer = outer,
                                  !.size = size, !.priority = priority]
<1>1. /\ pc[c] = "idle" /\ created' = created
      /\ UNCHANGED <<heap, data, sizes>>
  BY DEF Send, MayStart, At, handle
<1>2. call.op = "send" /\ call.size = size /\ call.status = "none"
  BY DEF NoCall
<1>3. AnswerOf(c) = "none" /\ TakenBy(c) = {}
  BY <1>1, NoAnswerYet DEF OpenLabels
<1>4. CASE /\ loc' = [loc EXCEPT ![c] = [call EXCEPT !.status = "mismatch"]]
           /\ Goto(c, "return")
  <2>1. /\ [call EXCEPT !.status = "mismatch"].op = "send"
        /\ [call EXCEPT !.status = "mismatch"].status = "mismatch"
    BY DEF NoCall
  <2> HIDE DEF call
  <2>2. /\ SameOutside(c) /\ pc'[c] = "return"
        /\ loc'[c].op = "send" /\ loc'[c].status = "mismatch"
    BY <1>4, <2>1, Moves DEF WholeInv
  <2>3. CallTrue(c)'
    BY <2>2 DEF CallTrue
  <2>4. AnswerOf(c)' = "none" /\ TakenBy(c)' = {}
    BY <2>2 DEF AnswerOf, TakenBy
  <2> QED BY <1>1, <1>3, <2>2, <2>3, <2>4, QuietStep
<1>5. CASE loc' = [loc EXCEPT ![c] = call] /\ Goto(c, "save")
  <2> HIDE DEF call
  <2>1. SameOutside(c) /\ pc'[c] = "save" /\ loc'[c] = call
    BY <1>5, Moves DEF WholeInv
  <2>2. CallTrue(c)'
    BY <1>2, <2>1 DEF CallTrue
  <2>3. AnswerOf(c)' = "none" /\ TakenBy(c)' = {}
    BY <1>2, <2>1, NoAnswerThen DEF OpenLabels
  <2> QED BY <1>1, <1>3, <2>1, <2>2, <2>3, QuietStep
<1> QED BY <1>4, <1>5 DEF Send

LEMMA ReceiveIsSilent ==
  ASSUME WholeInv, QueueInv', NEW c \in Contexts, NEW outer \in OuterLocks,
         Receive(c, outer)
  PROVE  WholeInv' /\ UNCHANGED Queue!vars
<1> DEFINE call == [NoCall EXCEPT !.op = "receive", !.outer = outer]
<1>1. /\ pc[c] = "idle" /\ created' = created
      /\ UNCHANGED <<heap, data, sizes>> /\ Goto(c, "save")
      /\ loc' = [loc EXCEPT ![c] = call]
  BY DEF Receive, MayStart, At, handle
<1>2. call.op = "receive" /\ call.status = "none"
  BY DEF NoCall
<1> HIDE DEF call
<1>3. SameOutside(c) /\ pc'[c] = "save" /\ loc'[c] = call
  BY <1>1, Moves DEF WholeInv
<1>4. CallTrue(c)'
  BY <1>2, <1>3 DEF CallTrue
<1>5. /\ AnswerOf(c)' = AnswerOf(c)
      /\ TakenBy(c)' = TakenBy(c)
  BY <1>1, <1>2, <1>3, NoAnswerYet, NoAnswerThen DEF OpenLabels
<1> QED BY <1>1, <1>3, <1>4, <1>5, QuietStep

\* From one open label to another, with nothing but the label changed.
LEMMA OpenStep ==
  ASSUME WholeInv, QueueInv', NEW c \in Contexts, NEW l, Goto(c, l),
         UNCHANGED <<created, heap, data, sizes, loc>>,
         pc[c] \in {"save", "mask"}, l \in {"mask", "check"}
  PROVE  WholeInv' /\ UNCHANGED Queue!vars
<1>1. SameOutside(c) /\ pc'[c] = l /\ loc'[c] = loc[c]
  BY MovesOnly DEF WholeInv
<1>2. CallTrue(c) /\ loc[c].status = "none"
  BY DEF WholeInv, CallsTrue, CallTrue
<1>3. CallTrue(c)'
  BY <1>1, <1>2 DEF CallTrue
<1>4. /\ AnswerOf(c)' = AnswerOf(c)
      /\ TakenBy(c)' = TakenBy(c)
  BY <1>1, <1>2, NoAnswerYet, NoAnswerThen DEF OpenLabels
<1> QED BY <1>1, <1>3, <1>4, QuietStep

LEMMA LockIsSilent ==
  ASSUME WholeInv, QueueInv', NEW c \in Contexts, Lock(c)
  PROVE  WholeInv' /\ UNCHANGED Queue!vars
<1>1. UNCHANGED <<created, heap, data, sizes, loc>>
  BY DEF Lock, handle
<1>2. \/ pc[c] = "save" /\ Goto(c, "mask")
      \/ pc[c] = "mask" /\ Goto(c, "check")
  BY DEF Lock, SavePrimask, MaskInterrupts, At
<1> QED BY <1>1, <1>2, OpenStep

\* A refused call has its answer here: the queue is full, or empty.
LEMMA CheckHeapIsAStep ==
  ASSUME WholeInv, QueueInv', NEW c \in Contexts, CheckHeap(c)
  PROVE  WholeInv' /\ [Queue!Next]_Queue!vars
<1> DEFINE refused == IF loc[c].op = "send" THEN IsFull ELSE heap = {}
           l == IF refused THEN "restore"
                ELSE IF loc[c].op = "send" THEN "find" ELSE "pop"
           after == [loc[c] EXCEPT !.status = IF refused THEN "refused" ELSE @]
<1>1. /\ Executes(c) /\ pc[c] = "check" /\ Goto(c, l)
      /\ loc' = [loc EXCEPT ![c] = after]
      /\ created' = created /\ UNCHANGED <<heap, data, sizes>>
  BY DEF CheckHeap, At, handle
<1>2. CallTrue(c) /\ loc[c] \in Calls
  BY DEF WholeInv, CallsTrue, QueueInv, QueueTypeOK
<1>3. /\ after.op = loc[c].op /\ after.size = loc[c].size
      /\ after.status = (IF refused THEN "refused" ELSE loc[c].status)
      /\ after.got = loc[c].got
  BY <1>2 DEF Calls
<1>4. loc[c].op \in {"send", "receive"} /\ loc[c].status = "none"
      /\ (loc[c].op = "send" => loc[c].size \in Sizes)
  BY <1>1, <1>2 DEF CallTrue
<1> HIDE DEF after
<1>5. SameOutside(c) /\ pc'[c] = l /\ loc'[c] = after
  BY <1>1, Moves DEF WholeInv
<1>6. AnswerOf(c) = "none" /\ TakenBy(c) = {}
  BY <1>1, NoAnswerYet DEF OpenLabels
<1>7. l \in {"restore", "find", "pop"} /\ (l = "restore" <=> refused)
  OBVIOUS
<1>8. Queued = heap
  <2>1. InSection(c)
    BY <1>1 DEF InSection, SectionLabels
  <2>2. \A d \in Contexts : d # c => pc[d] \notin {"store", "load"}
    BY <1>1, <2>1, NobodyElseInside DEF WholeInv
  <2> QED BY <1>1, <2>2, QueuedInside, QueuedIsQueuedOf
<1>9. CASE refused
  <2>1. /\ loc'[c].op = loc[c].op /\ loc'[c].status = "refused"
        /\ pc'[c] = "restore"
    BY <1>3, <1>5, <1>7, <1>9
  <2>2. CallTrue(c)'
    BY <2>1, <1>4 DEF CallTrue
  <2>3. TakenBy(c)' = {} /\ AnswerOf(c)' = IF loc[c].op = "send" THEN "full" ELSE "empty"
    BY <2>1 DEF AnswerOf, TakenBy
  <2>4. WholeInv' /\ Held' = Held /\ Cardinality(Queued') = Cardinality(Queued)
    BY <1>1, <1>5, <2>1, <2>2, QuietStep
  <2>5. CASE loc[c].op = "send"
    <3>1. Cardinality(Queued) = Depth
      BY <1>8, <1>9, <2>5 DEF IsFull
    <3>2. Queue!Answer(c, "full", {})
      BY <1>5, <1>6, <2>3, <2>5, SettledAnswer
    <3>3. Queue!Full(c)
      BY <2>4, <3>1, <3>2 DEF Queue!Full
    <3> QED BY <2>4, <3>3 DEF Queue!Next
  <2>6. CASE loc[c].op # "send"
    <3>1. Queued = {}
      BY <1>8, <1>9, <2>6
    <3>2. Held = Queue!Empty /\ Cardinality(Queued) = 0
      BY <3>1, HeldOfNothing, HeldIsHeldOf, FS_EmptySet DEF Queue!Empty
    <3>3. Queue!Answer(c, "empty", {})
      BY <1>5, <1>6, <2>3, <2>6, SettledAnswer
    <3>4. Queue!Nothing(c)
      BY <2>4, <3>2, <3>3 DEF Queue!Nothing
    <3> QED BY <2>4, <3>4 DEF Queue!Next
  <2> QED BY <2>5, <2>6
<1>10. CASE ~ refused
  <2>1. /\ loc'[c].op = loc[c].op /\ loc'[c].status = "none"
        /\ loc'[c].size = loc[c].size /\ pc'[c] \in {"find", "pop"}
    BY <1>3, <1>4, <1>5, <1>7, <1>10
  <2>2. CallTrue(c)'
    BY <2>1, <1>4 DEF CallTrue
  <2>3. AnswerOf(c)' = "none" /\ TakenBy(c)' = {}
    BY <2>1, NoAnswerThen DEF OpenLabels
  <2> QED BY <1>1, <1>5, <1>6, <2>1, <2>2, <2>3, QuietStep
<1> QED BY <1>9, <1>10

LEMMA FindIndexIsSilent ==
  ASSUME WholeInv, QueueInv', NEW c \in Contexts, FindIndex(c)
  PROVE  WholeInv' /\ UNCHANGED Queue!vars
<1> DEFINE after == [loc[c] EXCEPT !.index = indices[start]]
<1>1. /\ pc[c] = "find" /\ Goto(c, "push")
      /\ loc' = [loc EXCEPT ![c] = after]
      /\ created' = created /\ UNCHANGED <<heap, data, sizes>>
  BY DEF FindIndex, At, handle
<1>2. CallTrue(c) /\ loc[c] \in Calls
  BY DEF WholeInv, CallsTrue, QueueInv, QueueTypeOK
<1>3. /\ after.op = loc[c].op /\ after.size = loc[c].size
      /\ after.status = loc[c].status
  BY <1>2 DEF Calls
<1> HIDE DEF after
<1>4. SameOutside(c) /\ pc'[c] = "push" /\ loc'[c] = after
  BY <1>1, Moves DEF WholeInv
<1>5. CallTrue(c)' /\ loc'[c].status = "none"
  BY <1>1, <1>2, <1>3, <1>4 DEF CallTrue
<1>6. /\ AnswerOf(c)' = AnswerOf(c)
      /\ TakenBy(c)' = TakenBy(c)
  BY <1>1, <1>4, <1>5, NoAnswerYet, NoAnswerThen DEF OpenLabels
<1> QED BY <1>1, <1>4, <1>5, <1>6, QuietStep

LEMMA HeapGoneStays ==
  ASSUME WholeInv, created' = created, created
  PROVE  HeapGone'
BY DEF HeapGone

\* The entry is in the heap, but its slot is still empty.
LEMMA PushIsSilent ==
  ASSUME WholeInv, QueueInv', NEW c \in Contexts, Push(c)
  PROVE  WholeInv' /\ UNCHANGED Queue!vars
<1>1. /\ Executes(c) /\ pc[c] = "push" /\ Goto(c, "store") /\ loc' = loc
      /\ heap' = (IF IsFull THEN heap ELSE heap \cup {EntryOf(c)})
      /\ created' = created /\ UNCHANGED <<data, sizes>>
  BY DEF Push, At, EntryOf
<1>2. InSection(c) /\ Carries(c)
  BY <1>1 DEF InSection, SectionLabels, Carries
<1>3. /\ created /\ CallFits(c) /\ loc[c] \in Calls
      /\ RingOf(indices, start, stop, heap, {loc[c].index},
                Cardinality(heap) + 1)
      /\ Cardinality(heap) \in 0 .. Depth /\ Depth \in Nat
  BY <1>1, <1>2, Inside DEF WholeInv
<1>4. heap' = heap \cup {EntryOf(c)}
  BY <1>1, <1>3 DEF CallFits, IsFull
<1>5. EntryOf(c) \notin heap
  BY <1>3 DEF RingOf, EntryOf
<1>6. SameOutside(c) /\ pc'[c] = "store" /\ loc'[c] = loc[c]
  BY <1>1, MovesOnly DEF WholeInv
<1>7. /\ \A d \in Contexts : d # c => pc[d] \notin {"store", "load"}
      /\ \A d \in Contexts : d # c => pc'[d] \notin {"store", "load"}
  BY <1>1, <1>2, <1>6, NobodyElseInside DEF WholeInv, SameOutside
<1>8. Queued = heap
  BY <1>1, <1>7, QueuedInside, QueuedIsQueuedOf
<1>9. Queued' = heap' \ {EntryOf(c)}
  BY <1>6, <1>7, QueuedInside, QueuedIsQueuedOf DEF EntryOf
<1>10. Queued' = Queued
  BY <1>4, <1>5, <1>8, <1>9
<1>11. CallTrue(c)
  BY DEF WholeInv, CallsTrue
<1>12. CallTrue(c)' /\ loc'[c].status = "none"
  BY <1>1, <1>4, <1>6, <1>11 DEF CallTrue, EntryOf
<1>13. CallsTrue'
  BY <1>6, <1>7, <1>12, OthersTrue DEF WholeInv
<1>14. /\ AnswerOf(c)' = AnswerOf(c)
       /\ TakenBy(c)' = TakenBy(c)
  BY <1>1, <1>6, <1>12, NoAnswerYet, NoAnswerThen DEF OpenLabels
<1>15. HeapGone'
  BY <1>1, <1>3, HeapGoneStays
<1> QED BY <1>1, <1>6, <1>10, <1>13, <1>14, <1>15, SilentStep, SameQueued DEF WholeInv

\* A whole entry stores one of the messages.
LEMMA StoredIsAMessage ==
  ASSUME NEW sz, NEW dt, NEW e, sz[e.index] = dt[e.index],
         sz[e.index] \in Sizes, sz[e.index] <= MaxSize, e.priority \in Priorities
  PROVE  StoredIn(sz, dt, e) \in Message
         /\ StoredIn(sz, dt, e) = [size |-> sz[e.index], priority |-> e.priority]
BY DEF StoredIn, Message

\* The message is in the queue from here on.
LEMMA StoreDataIsAStep ==
  ASSUME WholeInv, QueueInv', NEW c \in Contexts, StoreData(c)
  PROVE  WholeInv' /\ [Queue!Next]_Queue!vars
<1>0. PICK e, Q, m, sy, dy :
         /\ e = EntryOf(c) /\ Q = heap \ {e} /\ sy = sizes' /\ dy = data'
         /\ m = StoredIn(sy, dy, e)
  OBVIOUS
<1>1. /\ Executes(c) /\ pc[c] = "store" /\ Goto(c, "mark") /\ loc' = loc
      /\ data' = [data EXCEPT ![loc[c].index] = loc[c].size]
      /\ sizes' = [sizes EXCEPT ![loc[c].index] = loc[c].size]
      /\ created' = created /\ heap' = heap
  BY DEF StoreData, At
<1>2. InSection(c) /\ ~ Carries(c)
  BY <1>1 DEF InSection, SectionLabels, Carries
<1>3. /\ created /\ CallFits(c) /\ loc[c] \in Calls
      /\ RingOf(indices, start, stop, heap, {}, Cardinality(heap) + 0)
      /\ IsFiniteSet(heap) /\ Cardinality(heap) \in 0 .. Depth /\ Depth \in Nat
  BY <1>1, <1>2, Inside DEF WholeInv
<1>4. CallTrue(c)
  BY DEF WholeInv, CallsTrue
<1>5. e \in heap /\ loc[c].size \in Sizes /\ loc[c].size <= MaxSize
      /\ loc[c].op = "send" /\ loc[c].status = "none"
      /\ loc[c].priority \in Priorities
  BY <1>0, <1>1, <1>3, <1>4 DEF CallTrue, CallFits, SendLabels
<1>6. \A f \in Q : f.index # loc[c].index
  BY <1>0, <1>3, <1>5 DEF RingOf, EntryOf
<1>7. heap \subseteq Entry /\ loc[c].index \in Slots
      /\ data \in [Slots -> Content] /\ sizes \in [Slots -> Content]
  BY <1>3 DEF WholeInv, QueueInv, QueueTypeOK, Calls
<1>8. \A f \in Q : f.index \in Slots /\ sizes'[f.index] = sizes[f.index]
                   /\ data'[f.index] = data[f.index]
  BY <1>0, <1>1, <1>6, <1>7 DEF Entry
<1>9. e.index = loc[c].index /\ e.priority = loc[c].priority
      /\ sizes'[e.index] = loc[c].size /\ data'[e.index] = loc[c].size
  BY <1>0, <1>1, <1>7 DEF EntryOf
<1>10. SameOutside(c) /\ pc'[c] = "mark" /\ loc'[c] = loc[c]
  BY <1>1, MovesOnly DEF WholeInv
<1>11. /\ \A d \in Contexts : d # c => pc[d] \notin {"store", "load"}
       /\ \A d \in Contexts : d # c => pc'[d] \notin {"store", "load"}
  BY <1>1, <1>2, <1>10, NobodyElseInside DEF WholeInv, SameOutside
<1>12. Queued = Q
  BY <1>0, <1>1, <1>11, QueuedInside, QueuedIsQueuedOf DEF EntryOf
<1>13. Queued' = Q \cup {e}
  <2>1. Queued' = heap'
    BY <1>10, <1>11, QueuedInside, QueuedIsQueuedOf
  <2> QED BY <1>0, <1>1, <1>5, <2>1
<1>14. m \in Message
  BY <1>0, <1>5, <1>9, StoredIsAMessage
<1>15. IsFiniteSet(Q) /\ Cardinality(Q) = Cardinality(heap) - 1
  BY <1>0, <1>3, <1>5, FS_RemoveElement
<1>16. HeldOf(Q, sy, dy) = HeldOf(Q, sizes, data)
  <2>1. \A f \in Q : StoredIn(sy, dy, f) = StoredIn(sizes, data, f)
    BY <1>0, <1>8 DEF StoredIn
  <2> QED BY <2>1, HeldSame
<1>17. /\ HeldOf(Q \cup {e}, sy, dy) = [HeldOf(Q, sy, dy) EXCEPT ![m] = @ + 1]
       /\ Cardinality(Q \cup {e}) = Cardinality(Q) + 1
  <2>1. e \notin Q
    BY <1>0
  <2>2. StoredIn(sy, dy, e) = m
    BY <1>0
  <2>3. IsFiniteSet(Q)
    BY <1>15
  <2> QED BY <1>14, <2>1, <2>2, <2>3, HeldWithEntry
<1>18. Held' = [Held EXCEPT ![m] = @ + 1]
       /\ Cardinality(Queued') = Cardinality(Queued) + 1
       /\ Cardinality(Queued) < Depth
  <2>1. Cardinality(Q) < Depth
    BY <1>3, <1>15
  <2> QED BY <1>0, <1>12, <1>13, <1>16, <1>17, <2>1, HeldIsHeldOf
<1>19. CallTrue(c)'
  BY <1>5, <1>10 DEF CallTrue
<1>20. CallsTrue'
  BY <1>10, <1>11, <1>19, OthersTrue DEF WholeInv
<1>21. QueuedWhole'
  <2>1. \A f \in Q : WholeEntry(f)'
    BY <1>8, <1>12 DEF WholeInv, QueuedWhole, WholeEntry
  <2>2. WholeEntry(e)'
    BY <1>0, <1>5, <1>9 DEF WholeEntry
  <2> QED BY <1>13, <2>1, <2>2 DEF QueuedWhole
<1>22. HeapGone'
  BY <1>1, <1>3, HeapGoneStays
<1>23. AnswerOf(c) = "none" /\ AnswerOf(c)' = "sent" /\ TakenBy(c)' = {}
  <2>1. AnswerOf(c)' = "sent"
    BY <1>5, <1>10 DEF AnswerOf
  <2> QED BY <1>1, <2>1, NoAnswerYet DEF OpenLabels, TakenBy
<1>24. Queue!Answer(c, "sent", {})
  BY <1>10, <1>23, SettledAnswer
<1>25. Queue!Send(c, m)
  BY <1>18, <1>24 DEF Queue!Send
<1> QED BY <1>14, <1>20, <1>21, <1>22, <1>25 DEF WholeInv, Queue!Next

LEMMA MarkHighIsSilent ==
  ASSUME WholeInv, QueueInv', NEW c \in Contexts, MarkHigh(c)
  PROVE  WholeInv' /\ UNCHANGED Queue!vars
<1>1. /\ Executes(c) /\ pc[c] = "mark" /\ Goto(c, "restore")
      /\ created' = created /\ UNCHANGED <<heap, data, sizes, loc>>
  BY DEF MarkHigh, At
<1>2. SameOutside(c) /\ pc'[c] = "restore" /\ loc'[c] = loc[c]
  BY <1>1, MovesOnly DEF WholeInv
<1>3. CallTrue(c) /\ CallFits(c)
  BY DEF WholeInv, CallsTrue, QueueInv, CallsFit
<1>4. loc[c].op = "send" /\ loc[c].status = "none"
  BY <1>1, <1>3 DEF CallTrue, CallFits, SendLabels
<1>5. CallTrue(c)'
  BY <1>2, <1>4 DEF CallTrue
<1>6. AnswerOf(c)' = AnswerOf(c)
  BY <1>1, <1>2, <1>4 DEF AnswerOf
<1>7. TakenBy(c)' = TakenBy(c)
  BY <1>2, <1>6 DEF TakenBy
<1> QED BY <1>1, <1>2, <1>5, <1>6, <1>7, QuietStep

\* The entry leaves the heap; its message is not yet copied.
LEMMA PopIsSilent ==
  ASSUME WholeInv, QueueInv', NEW c \in Contexts, Pop(c)
  PROVE  WholeInv' /\ UNCHANGED Queue!vars
<1>1. /\ Executes(c) /\ pc[c] = "pop"
      /\ created' = created /\ UNCHANGED <<data, sizes>>
  BY DEF Pop, At
<1>2. InSection(c) /\ ~ Carries(c)
  BY <1>1 DEF InSection, SectionLabels, Carries
<1>3. created /\ CallFits(c) /\ loc[c] \in Calls
  BY <1>1, <1>2, Inside DEF WholeInv
<1>4. PICK entry \in heap :
        /\ IsTop(entry)
        /\ heap' = heap \ {entry}
        /\ loc' = [loc EXCEPT ![c].index = entry.index,
                              ![c].priority = entry.priority]
        /\ Goto(c, "load")
  BY <1>1, <1>3 DEF Pop, CallFits
<1> DEFINE after == [[loc[c] EXCEPT !.index = entry.index]
                       EXCEPT !.priority = entry.priority]
<1>5. loc' = [loc EXCEPT ![c] = after]
  BY <1>4 DEF WholeInv, QueueInv, QueueTypeOK
<1>6. /\ after.op = loc[c].op /\ after.status = loc[c].status
      /\ after.index = entry.index /\ after.priority = entry.priority
  BY <1>3 DEF Calls
<1> HIDE DEF after
<1>7. SameOutside(c) /\ pc'[c] = "load" /\ loc'[c] = after
  BY <1>4, <1>5, Moves DEF WholeInv
<1>8. entry = [index |-> entry.index, priority |-> entry.priority]
      /\ entry.priority \in Priorities /\ entry.priority \in Nat
  BY QueueConstants DEF WholeInv, QueueInv, QueueTypeOK, Entry
<1>9. /\ \A d \in Contexts : d # c => pc[d] \notin {"store", "load"}
      /\ \A d \in Contexts : d # c => pc'[d] \notin {"store", "load"}
  BY <1>1, <1>2, <1>7, NobodyElseInside DEF WholeInv, SameOutside
<1>10. Queued = heap
  BY <1>1, <1>9, QueuedInside, QueuedIsQueuedOf
<1>11. Queued' = heap' \cup {entry}
  <2>1. [index |-> loc'[c].index, priority |-> loc'[c].priority] = entry
    BY <1>6, <1>7, <1>8
  <2>2. QueuedOf(pc', loc', heap') =
          heap' \cup {[index |-> loc'[c].index, priority |-> loc'[c].priority]}
    BY <1>7, <1>9, QueuedInside
  <2> QED BY <2>1, <2>2, QueuedIsQueuedOf
<1>12. Queued' = Queued
  BY <1>4, <1>10, <1>11
<1>13. CallTrue(c) /\ loc[c].op # "send"
  BY <1>1, <1>3 DEF WholeInv, CallsTrue, CallFits, ReceiveLabels
<1>14. loc'[c].status = "none" /\ loc'[c].op = "receive"
  BY <1>1, <1>6, <1>7, <1>13 DEF CallTrue
<1>15. CallTrue(c)'
  <2>1. \A e \in heap' : e.priority <= loc'[c].priority
    BY <1>4, <1>6, <1>7 DEF IsTop
  <2> QED BY <1>6, <1>7, <1>8, <1>14, <2>1 DEF CallTrue
<1>16. CallsTrue'
  BY <1>7, <1>9, <1>15, OthersTrue DEF WholeInv
<1>17. /\ AnswerOf(c)' = AnswerOf(c)
       /\ TakenBy(c)' = TakenBy(c)
  BY <1>1, <1>7, <1>14, NoAnswerYet, NoAnswerThen DEF OpenLabels
<1>18. HeapGone'
  BY <1>1, <1>3, HeapGoneStays
<1> QED BY <1>1, <1>7, <1>12, <1>16, <1>17, <1>18, SilentStep, SameQueued DEF WholeInv

\* The message, one of the highest priority, is out of the queue from here on.
LEMMA LoadDataIsAStep ==
  ASSUME WholeInv, QueueInv', NEW c \in Contexts, LoadData(c)
  PROVE  WholeInv' /\ [Queue!Next]_Queue!vars
<1>0. PICK e, m : e = EntryOf(c) /\ m = StoredIn(sizes, data, e)
  OBVIOUS
<1> DEFINE after == [[loc[c] EXCEPT !.size = sizes[loc[c].index]]
                       EXCEPT !.got = data[loc[c].index]]
<1>1. /\ Executes(c) /\ pc[c] = "load" /\ Goto(c, "give")
      /\ loc' = [loc EXCEPT ![c].size = sizes[loc[c].index],
                            ![c].got = data[loc[c].index]]
      /\ created' = created /\ UNCHANGED <<heap, data, sizes>>
  BY DEF LoadData, At, handle
<1>2. InSection(c) /\ Carries(c)
  BY <1>1 DEF InSection, SectionLabels, Carries
<1>3. /\ created /\ CallFits(c) /\ loc[c] \in Calls
      /\ RingOf(indices, start, stop, heap, {loc[c].index},
                Cardinality(heap) + 1)
      /\ IsFiniteSet(heap)
  BY <1>1, <1>2, Inside DEF WholeInv
<1>4. CallTrue(c)
  BY DEF WholeInv, CallsTrue
<1>5. /\ loc[c].op = "receive" /\ loc[c].status = "none"
      /\ loc[c].priority \in Priorities
      /\ \A f \in heap : f.priority <= loc[c].priority
  BY <1>1, <1>3, <1>4 DEF CallTrue, CallFits, ReceiveLabels
<1>6. loc' = [loc EXCEPT ![c] = after]
  BY <1>1 DEF WholeInv, QueueInv, QueueTypeOK
<1>7. /\ after.op = loc[c].op /\ after.status = loc[c].status
      /\ after.priority = loc[c].priority
      /\ after.size = sizes[loc[c].index] /\ after.got = data[loc[c].index]
  BY <1>3 DEF Calls
<1> HIDE DEF after
<1>8. SameOutside(c) /\ pc'[c] = "give" /\ loc'[c] = after
  BY <1>1, <1>6, Moves DEF WholeInv
<1>9. /\ \A d \in Contexts : d # c => pc[d] \notin {"store", "load"}
      /\ \A d \in Contexts : d # c => pc'[d] \notin {"store", "load"}
  BY <1>1, <1>2, <1>8, NobodyElseInside DEF WholeInv, SameOutside
<1>10. Queued = heap \cup {e}
  <2>1. QueuedOf(pc, loc, heap) =
          heap \cup {[index |-> loc[c].index, priority |-> loc[c].priority]}
    BY <1>1, <1>9, QueuedInside
  <2> QED BY <1>0, <2>1, QueuedIsQueuedOf DEF EntryOf
<1>11. Queued' = heap
  BY <1>1, <1>8, <1>9, QueuedInside, QueuedIsQueuedOf
<1>12. e \notin heap /\ e.index = loc[c].index /\ e.priority = loc[c].priority
  BY <1>0, <1>3 DEF RingOf, EntryOf
<1>13. WholeEntry(e)
  BY <1>10 DEF WholeInv, QueuedWhole
<1>14. m \in Message /\ m = [size |-> sizes[e.index], priority |-> e.priority]
  BY <1>0, <1>5, <1>12, <1>13, StoredIsAMessage DEF WholeEntry
<1>15. IsFiniteSet(Queued) /\ e \in Queued /\ heap = Queued \ {e}
  BY <1>3, <1>10, <1>12, FS_AddElement
<1>16. Held' = [Held EXCEPT ![m] = @ - 1]
       /\ Cardinality(Queued') = Cardinality(Queued) - 1
  <2>1. StoredIn(sizes, data, e) = m
    BY <1>0
  <2>2. IsFiniteSet(Queued)
    BY <1>15
  <2>3. HeldOf(Queued \ {e}, sizes, data)
          = [HeldOf(Queued, sizes, data) EXCEPT ![m] = @ - 1]
    BY <1>14, <1>15, <2>1, <2>2, HeldWithoutEntry
  <2>4. Cardinality(Queued \ {e}) = Cardinality(Queued) - 1
    BY <1>15, <2>2, FS_RemoveElement
  <2> QED BY <1>1, <1>11, <1>15, <2>3, <2>4, HeldIsHeldOf
<1>17. Queue!Highest(m)
  <2>1. IsFiniteSet(Queued)
    BY <1>3, <1>10, FS_AddElement
  <2>2. Held[m] > 0
    BY <1>0, <1>10, <1>14, <2>1, HeldPositive, HeldIsHeldOf
  <2>3. ASSUME NEW n \in Message, Held[n] > 0
        PROVE  n.priority <= m.priority
    <3>1. PICK f \in Queued : StoredIn(sizes, data, f) = n
      BY <2>1, <2>3, HeldPositive, HeldIsHeldOf
    <3>2. n.priority = f.priority
      BY <3>1 DEF StoredIn
    <3>3. m.priority = loc[c].priority /\ loc[c].priority \in Nat
      BY <1>5, <1>12, <1>14, QueueConstants
    <3>4. f.priority <= loc[c].priority
      BY <1>5, <1>10, <1>12, <3>3
    <3> QED BY <3>2, <3>3, <3>4
  <2> QED BY <2>2, <2>3 DEF Queue!Highest
<1>18. CallTrue(c)'
  BY <1>5, <1>7, <1>8 DEF CallTrue
<1>19. CallsTrue'
  BY <1>8, <1>9, <1>18, OthersTrue DEF WholeInv
<1>20. QueuedWhole'
  BY <1>1, <1>10, <1>11 DEF WholeInv, QueuedWhole, WholeEntry
<1>21. HeapGone'
  BY <1>1, <1>3, HeapGoneStays
<1>22. AnswerOf(c) = "none" /\ AnswerOf(c)' = "received" /\ TakenBy(c)' = {m}
  <2>1. AnswerOf(c)' = "received"
    BY <1>5, <1>7, <1>8 DEF AnswerOf
  <2>2. loc'[c].got = loc'[c].size /\ loc'[c].got = sizes[e.index]
        /\ loc'[c].priority = e.priority
    BY <1>7, <1>8, <1>12, <1>13 DEF WholeEntry
  <2>3. TakenBy(c)' = {m}
    BY <1>14, <2>1, <2>2 DEF TakenBy
  <2> QED BY <1>1, <2>1, <2>3, NoAnswerYet DEF OpenLabels
<1>23. Queue!Answer(c, "received", {m})
  BY <1>8, <1>22, SettledAnswer
<1>24. Queue!Receive(c, m)
  BY <1>16, <1>17, <1>23 DEF Queue!Receive
<1> QED BY <1>14, <1>19, <1>20, <1>21, <1>24 DEF WholeInv, Queue!Next

LEMMA ReturnIndexIsSilent ==
  ASSUME WholeInv, QueueInv', NEW c \in Contexts, ReturnIndex(c)
  PROVE  WholeInv' /\ UNCHANGED Queue!vars
<1>1. /\ pc[c] = "give" /\ Goto(c, "restore")
      /\ created' = created /\ UNCHANGED <<heap, data, sizes, loc>>
  BY DEF ReturnIndex, At
<1>2. SameOutside(c) /\ pc'[c] = "restore" /\ loc'[c] = loc[c]
  BY <1>1, MovesOnly DEF WholeInv
<1>3. CallTrue(c) /\ CallFits(c)
  BY DEF WholeInv, CallsTrue, QueueInv, CallsFit
<1>4. loc[c].op = "receive" /\ loc[c].status = "none"
  BY <1>1, <1>3 DEF CallTrue, CallFits, ReceiveLabels
<1>5. CallTrue(c)'
  BY <1>2, <1>4 DEF CallTrue
<1>6. AnswerOf(c)' = AnswerOf(c)
  BY <1>1, <1>2, <1>4 DEF AnswerOf
<1>7. TakenBy(c)' = TakenBy(c)
  BY <1>2, <1>6 DEF TakenBy
<1> QED BY <1>1, <1>2, <1>5, <1>6, <1>7, QuietStep

\* The results survive the end of the lock.
LEMMA UnlockIsSilent ==
  ASSUME WholeInv, QueueInv', NEW c \in Contexts, Unlock(c)
  PROVE  WholeInv' /\ UNCHANGED Queue!vars
<1> DEFINE after == IF loc[c].op = "send"
                      THEN [NoCall EXCEPT !.op = "send",
                                          !.outer = loc[c].outer,
                                          !.status = loc[c].status]
                      ELSE [loc[c] EXCEPT !.index = 0]
<1>1. /\ pc[c] = "restore" /\ Goto(c, "return")
      /\ loc' = [loc EXCEPT ![c] = after]
      /\ created' = created /\ UNCHANGED <<heap, data, sizes>>
  BY DEF Unlock, RestoreInterrupts, At, handle
<1>2. CallTrue(c) /\ loc[c] \in Calls
  BY DEF WholeInv, CallsTrue, QueueInv, QueueTypeOK
<1>3. /\ after.op = loc[c].op /\ after.status = loc[c].status
      /\ loc[c].op = "receive" =>
           /\ after.priority = loc[c].priority
           /\ after.size = loc[c].size /\ after.got = loc[c].got
  BY <1>2 DEF Calls, NoCall
<1> HIDE DEF after
<1>4. SameOutside(c) /\ pc'[c] = "return" /\ loc'[c] = after
  BY <1>1, Moves DEF WholeInv
<1>5. loc[c].op \in {"send", "receive"} /\ loc[c].status # "mismatch"
  BY <1>1, <1>2 DEF CallTrue
<1>6. CallTrue(c)'
  BY <1>3, <1>4, <1>5 DEF CallTrue
<1>7. AnswerOf(c)' = AnswerOf(c)
  BY <1>1, <1>3, <1>4 DEF AnswerOf
<1>8. AnswerOf(c) = "received" => loc[c].op = "receive"
  BY <1>5 DEF AnswerOf
<1>9. TakenBy(c)' = TakenBy(c)
  BY <1>3, <1>4, <1>7, <1>8 DEF TakenBy
<1> QED BY <1>1, <1>4, <1>6, <1>7, <1>9, QuietStep

LEMMA ReturnIsAStep ==
  ASSUME WholeInv, QueueInv', NEW c \in Contexts, Return(c)
  PROVE  WholeInv' /\ [Queue!Next]_Queue!vars
<1>1. /\ pc[c] = "return" /\ Goto(c, "idle")
      /\ loc' = [loc EXCEPT ![c] = NoCall]
      /\ created' = created /\ UNCHANGED <<heap, data, sizes>>
  BY DEF Return, At, handle
<1>2. SameOutside(c) /\ pc'[c] = "idle" /\ loc'[c] = NoCall
  BY <1>1, Moves DEF WholeInv
<1>3. NoCall.status = "none" /\ NoCall.op = "none"
  BY DEF NoCall
<1>4. CallTrue(c)'
  BY <1>2, <1>3 DEF CallTrue
<1>5. AnswerOf(c)' = "none" /\ TakenBy(c)' = {}
  BY <1>2, <1>3, NoAnswerThen DEF OpenLabels
<1>6. /\ WholeInv' /\ Held' = Held /\ Cardinality(Queued') = Cardinality(Queued)
      /\ AnswerOf(c)' = AnswerOf(c) /\ TakenBy(c)' = TakenBy(c) =>
           UNCHANGED Queue!vars
  BY <1>1, <1>2, <1>4, QuietStep
<1>7. CASE AnswerOf(c) = "none"
  <2>1. TakenBy(c) = {}
    BY <1>7 DEF TakenBy
  <2> QED BY <1>5, <1>6, <1>7, <2>1
<1>8. CASE AnswerOf(c) # "none"
  <2>1. \A d \in Contexts : d # c =>
          AnswerOf(d)' = AnswerOf(d) /\ TakenBy(d)' = TakenBy(d)
    BY <1>2, AnswerOfTheOthers
  <2>2. [d \in Contexts |-> AnswerOf(d)'] =
          [[d \in Contexts |-> AnswerOf(d)] EXCEPT ![c] = "none"]
    BY <1>5, <2>1
  <2>3. [d \in Contexts |-> TakenBy(d)'] =
          [[d \in Contexts |-> TakenBy(d)] EXCEPT ![c] = {}]
    BY <1>5, <2>1
  <2>4. Queue!Return(c)
    BY <1>6, <1>8, <2>2, <2>3 DEF Queue!Return
  <2> QED BY <1>6, <2>4 DEF Queue!Next
<1> QED BY <1>7, <1>8

\* While nobody is in a call there are no answers.
LEMMA AllIdleNoAnswers ==
  ASSUME WholeInv, AllIdle
  PROVE  /\ Queued = heap
         /\ [d \in Contexts |-> AnswerOf(d)] = [d \in Contexts |-> "none"]
<1>1. \A d \in Contexts : pc[d] = "idle" /\ AnswerOf(d) = "none"
  BY NoAnswerYet DEF AllIdle, OpenLabels
<1>2. Queued = heap
  <2>1. Main \in Contexts
    BY QueueConstants
  <2> QED BY <1>1, <2>1, QueuedInside, QueuedIsQueuedOf
<1> QED BY <1>1, <1>2

LEMMA ResetIsAStep ==
  ASSUME WholeInv, QueueInv', AllIdle, UNCHANGED <<cpuVars, loc>>, heap' = {}
  PROVE  WholeInv' /\ [Queue!Next]_Queue!vars
<1>1. /\ \A d \in Contexts : pc[d] = "idle" /\ pc'[d] = "idle" /\ loc'[d] = loc[d]
      /\ \A d \in Contexts : CallTrue(d)
  BY DEF AllIdle, cpuVars, WholeInv, CallsTrue
<1>2. CallsTrue'
  BY <1>1 DEF CallsTrue, CallTrue
<1>3. Queued' = {}
  <2>1. Main \in Contexts
    BY QueueConstants
  <2> QED BY <1>1, <2>1, QueuedInside, QueuedIsQueuedOf
<1>4. WholeInv'
  BY <1>2, <1>3 DEF WholeInv, QueuedWhole, HeapGone
<1>5. Held' = Queue!Empty /\ Cardinality(Queued') = 0
  BY <1>3, HeldOfNothing, HeldIsHeldOf, FS_EmptySet DEF Queue!Empty
<1>6. \A d \in Contexts : AnswerOf(d)' = AnswerOf(d) /\ TakenBy(d)' = TakenBy(d)
  <2> SUFFICES ASSUME NEW d \in Contexts
               PROVE  AnswerOf(d)' = AnswerOf(d) /\ TakenBy(d)' = TakenBy(d)
    OBVIOUS
  <2>1. AnswerOf(d)' = AnswerOf(d)
    BY <1>1 DEF AnswerOf
  <2> QED BY <1>1, <2>1 DEF TakenBy
<1>7. /\ [d \in Contexts |-> AnswerOf(d)'] = [d \in Contexts |-> AnswerOf(d)]
      /\ [d \in Contexts |-> TakenBy(d)'] = [d \in Contexts |-> TakenBy(d)]
  BY <1>6
<1>8. Queue!Reset
  BY <1>5, <1>7, AllIdleNoAnswers DEF Queue!Reset
<1> QED BY <1>4, <1>8 DEF Queue!Next

LEMMA StutterIsSilent ==
  ASSUME WholeInv, QueueInv', UNCHANGED queueVars
  PROVE  WholeInv' /\ UNCHANGED Queue!vars
<1>1. /\ UNCHANGED <<pc, created, heap, data, sizes, loc>>
  BY DEF queueVars, cpuVars, handle
<1>2. Queued' = Queued
  BY <1>1 DEF Queued
<1>3. \A d \in Contexts : AnswerOf(d)' = AnswerOf(d) /\ TakenBy(d)' = TakenBy(d)
  BY <1>1 DEF AnswerOf, TakenBy
<1>4. /\ [d \in Contexts |-> AnswerOf(d)'] = [d \in Contexts |-> AnswerOf(d)]
      /\ [d \in Contexts |-> TakenBy(d)'] = [d \in Contexts |-> TakenBy(d)]
  BY <1>3
<1>5. CallsTrue'
  BY <1>1 DEF WholeInv, CallsTrue, CallTrue, EntryOf
<1>6. HeapGone'
  BY <1>1 DEF WholeInv, HeapGone
<1>7. Held' = Held /\ QueuedWhole'
  BY <1>1, <1>2, SameQueued DEF WholeInv
<1> QED BY <1>2, <1>4, <1>5, <1>6, <1>7 DEF WholeInv, Queue!vars

LEMMA NextIsAStep ==
  ASSUME WholeInv, [QueueNext]_queueVars
  PROVE  WholeInv' /\ [Queue!Next]_Queue!vars
<1>0. QueueInv'
  BY NextKeepsInv DEF WholeInv
<1>1. CASE Create
  BY <1>0, <1>1, ResetIsAStep DEF Create
<1>2. CASE Teardown
  BY <1>0, <1>2, ResetIsAStep DEF Teardown
<1>3. ASSUME NEW c \in Contexts, QueueCall(c)
      PROVE  WholeInv' /\ [Queue!Next]_Queue!vars
  <2>1. PICK outer \in OuterLocks :
          \/ \E size \in Sizes, priority \in Priorities : Send(c, size, priority, outer)
          \/ Receive(c, outer)
    BY <1>3 DEF QueueCall
  <2>2. WholeInv' /\ UNCHANGED Queue!vars
    BY <1>0, <2>1, SendIsSilent, ReceiveIsSilent
  <2> QED BY <2>2
<1>4. ASSUME NEW c \in Contexts, QueueStep(c)
      PROVE  WholeInv' /\ [Queue!Next]_Queue!vars
  <2>1. CASE Lock(c) \/ FindIndex(c) \/ Push(c) \/ MarkHigh(c) \/ Pop(c)
             \/ ReturnIndex(c) \/ Unlock(c)
    BY <1>0, <2>1, LockIsSilent, FindIndexIsSilent, PushIsSilent, MarkHighIsSilent,
       PopIsSilent, ReturnIndexIsSilent, UnlockIsSilent
  <2>2. CASE CheckHeap(c) \/ StoreData(c) \/ LoadData(c) \/ Return(c)
    BY <1>0, <2>2, CheckHeapIsAStep, StoreDataIsAStep, LoadDataIsAStep, ReturnIsAStep
  <2> QED BY <1>4, <2>1, <2>2 DEF QueueStep
<1>5. CASE UNCHANGED queueVars
  BY <1>0, <1>5, StutterIsSilent
<1> QED BY <1>1, <1>2, <1>3, <1>4, <1>5 DEF QueueNext

LEMMA InitIsInit ==
  ASSUME QueueInit
  PROVE  WholeInv /\ Queue!Init
<1>1. /\ \A c \in Contexts : pc[c] = "idle" /\ loc[c] = NoCall
      /\ heap = {}
  BY DEF QueueInit, CpuInit
<1>2. CallsTrue
  BY <1>1 DEF CallsTrue, CallTrue, NoCall
<1>3. Queued = {}
  <2>1. Main \in Contexts
    BY QueueConstants
  <2> QED BY <1>1, <2>1, QueuedInside, QueuedIsQueuedOf
<1>4. WholeInv
  BY <1>1, <1>2, <1>3, InitEstablishesInv DEF WholeInv, QueuedWhole, HeapGone
<1>5. Held = Queue!Empty /\ Cardinality(Queued) = 0
  BY <1>3, HeldOfNothing, HeldIsHeldOf, FS_EmptySet DEF Queue!Empty
<1>6. \A c \in Contexts : AnswerOf(c) = "none" /\ TakenBy(c) = {}
  BY <1>1, <1>4, NoAnswerYet DEF OpenLabels
<1> QED BY <1>4, <1>5, <1>6 DEF Queue!Init

\* The messages in the queue are whole, and were sent, in every reachable state.
THEOREM QueueWhole == QueueSpec => []WholeInv
<1>1. WholeInv /\ [QueueNext]_queueVars => WholeInv'
  BY NextIsAStep
<1> QED BY <1>1, InitIsInit, PTL DEF QueueSpec

\* IsrSafeQueue implements PriorityQueue, for every depth, every set of messages
\* and priorities and every number of interrupt priorities: whatever interrupts
\* whatever, each send and receive takes effect at once (send, receive, :149-196).
THEOREM QueueImplementsPriorityQueue == QueueSpec => ImplementsPriorityQueue
<1>1. QueueInit => Queue!Init
  BY InitIsInit
<1>2. WholeInv /\ [QueueNext]_queueVars => [Queue!Next]_Queue!vars
  BY NextIsAStep
<1> QED
  BY <1>1, <1>2, QueueWhole, PTL DEF QueueSpec, ImplementsPriorityQueue, Queue!Spec
=============================================================================
