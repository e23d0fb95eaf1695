-------------------------- MODULE GdsStream_proofs --------------------------
(***************************************************************************)
(* Theorems of GdsStream for every number of interrupt priorities, every   *)
(* size of the buffers and every set of record sizes.                      *)
(*                                                                         *)
(* TypeOK is not inductive: that a stored character stays inside the line  *)
(* buffer depends on what the flush before it did, and on nobody else      *)
(* having touched the buffer meanwhile. Inv is the strengthening.          *)
(* Accounts adds what becomes of console output, and RingInv how the       *)
(* records in the ring hang together. LogInv, in the last part, says what  *)
(* a reader may rely on, and carries the refinement of RecordLog.          *)
(***************************************************************************)
EXTENDS GdsStreamRefinement, WellFoundedInduction, SequenceTheorems, TLAPS

\* A handler that found the buffer in use has only its return left.
RefusedReturns ==
  \A c \in Contexts : loc[c].out = "inUse" => pc[c] = "return"

\* A flush that succeeded leaves the line buffer empty.
FlushedIsEmpty ==
  \A c \in Contexts : loc[c].ok => pc[c] = "flushed" /\ linePos = 0

Inv ==
  /\ TypeOK
  /\ BufferExclusive
  /\ LineBufferInBounds
  /\ FlushedIsEmpty
  /\ RefusedReturns
  /\ OnlyInterruptersRefused

-----------------------------------------------------------------------------
(***************************************************************************)
(* What the operators return.                                              *)
(***************************************************************************)

LEMMA ConstantTypes ==
  /\ DataSize \in Nat \ {0, 1}
  /\ MaxRecordSize \in Nat \ {0} /\ 2 * MaxRecordSize <= DataSize
  /\ LineBufferSize \in Nat \ {0}
  /\ NumIds \in Nat \ {0} /\ CounterSize \in Nat \ {0}
  /\ Irqs \in Nat /\ Main \in Contexts
  /\ Contexts \subseteq Nat
BY SizesAssumption, ActorsAssumption DEF Contexts, Main

LEMMA EventSizeType ==
  ASSUME NEW size \in EventSizes
  PROVE  size \in 0 .. MaxRecordSize
BY SizesAssumption DEF RecordSizes

LEMMA ConsoleSizeType ==
  ASSUME NEW n \in 1 .. LineBufferSize
  PROVE  ConsoleSize(n) \in 0 .. MaxRecordSize
<1>1. ConsoleSize(n) \in RecordSizes
  BY DEF RecordSizes
<1>2. ConsoleSize(n) \in Nat
  BY SizesAssumption DEF ConsoleSize
<1> QED BY <1>1, <1>2, SizesAssumption

LEMMA RelType ==
  ASSUME NEW cursor \in Cursors
  PROVE  Rel(cursor) \in Offsets
BY ConstantTypes DEF Cursors, Offsets, Rel

LEMMA ForwardType ==
  ASSUME NEW cursor \in Cursors, NEW n \in 0 .. DataSize
  PROVE  Forward(cursor, n) \in Cursors
BY ConstantTypes DEF Cursors, Forward

LEMMA ItemFitsType ==
  ASSUME NEW read \in Cursors, NEW write \in Cursors,
         NEW size \in 0 .. MaxRecordSize
  PROVE  ItemFitsInBuffer(read, write, size) \in Places
<1>1. NoFit \in Places
  BY ConstantTypes DEF NoFit, Places, Offsets, Cursors
<1>2. [fits |-> TRUE, addr |-> Rel(write), next |-> Forward(write, size),
       wrap |-> FALSE] \in Places
  BY ConstantTypes, RelType, ForwardType DEF Places
<1>3. [fits |-> TRUE, addr |-> 0,
       next |-> IF write > DataSize THEN size ELSE DataSize + size,
       wrap |-> TRUE] \in Places
  BY ConstantTypes DEF Places, Offsets, Cursors
<1> QED BY <1>1, <1>2, <1>3 DEF ItemFitsInBuffer

LEMMA SizeOfType ==
  ASSUME NEW word \in Word
  PROVE  SizeOf(word) \in 0 .. MaxRecordSize
<1>1. ConsoleSize(0) = 1
  BY DEF ConsoleSize
<1> QED BY <1>1, ConstantTypes DEF SizeOf, Word

LEMMA EvictType ==
  ASSUME TypeOK, NEW write \in Cursors
  PROVE  /\ EvictOldestRecord(write).oldest \in Cursors
         /\ EvictOldestRecord(write).freed \in Nat
<1> DEFINE size == SizeOf(data[Rel(oldest)])
           after == Forward(oldest, size)
           edge == Rel(after)
           onFiller == /\ edge > FillerRegionStart
                       /\ after # write
                       /\ data[edge].kind = "filler"
           skip == IF onFiller THEN DataSize - edge ELSE 0
<1>1. size \in 0 .. MaxRecordSize
  BY RelType, SizeOfType DEF TypeOK
<1>2. after \in Cursors
  BY <1>1, ForwardType, ConstantTypes DEF TypeOK
<1>3. edge \in Offsets
  BY <1>2, RelType
<1>4. skip \in 0 .. DataSize
  BY <1>3, ConstantTypes DEF Offsets
<1>5. Forward(after, skip) \in Cursors
  BY <1>2, <1>4, ForwardType
<1>6. size + skip \in Nat
  BY <1>1, <1>4, ConstantTypes
<1> QED BY <1>5, <1>6 DEF EvictOldestRecord

LEMMA DeficitType ==
  ASSUME TypeOK, NEW write \in Cursors, NEW size \in 0 .. MaxRecordSize
  PROVE  Deficit(write, size) \in Int
<1>1. oldest \in Cursors
  BY DEF TypeOK
<1> QED
  BY <1>1, ConstantTypes DEF Deficit, Distance, Rel, Cursors

-----------------------------------------------------------------------------
(***************************************************************************)
(* What a step of one context does to the exclusive use of the buffer: it  *)
(* takes the buffer, keeps it, gives it back, or has nothing to do with    *)
(* it.                                                                     *)
(***************************************************************************)

LEMMA TakeIsExclusive ==
  ASSUME TypeOK, BufferExclusive,
         NEW c \in Contexts, NEW l \in HoldingLabels,
         inUse = 0, inUse' = 1, Goto(c, l)
  PROVE  BufferExclusive'
<1>1. \A d \in Contexts : ~ Holds(d)
  BY DEF BufferExclusive
<1>2. \A d \in Contexts : Holds(d)' <=> d = c
  BY <1>1 DEF Holds, TypeOK, Goto
<1> QED BY <1>2 DEF BufferExclusive

LEMMA KeepIsExclusive ==
  ASSUME TypeOK, BufferExclusive,
         NEW c \in Contexts, NEW l \in HoldingLabels,
         Holds(c), inUse' = inUse, Goto(c, l)
  PROVE  BufferExclusive'
<1>1. \A d \in Contexts : Holds(d)' <=> Holds(d)
  BY DEF Holds, TypeOK, Goto
<1> QED BY <1>1 DEF BufferExclusive

LEMMA GiveBackIsExclusive ==
  ASSUME TypeOK, BufferExclusive,
         NEW c \in Contexts, NEW l, l \notin HoldingLabels,
         Holds(c), inUse' = 0, Goto(c, l)
  PROVE  BufferExclusive'
<1>1. \A d \in Contexts : ~ Holds(d)'
  BY DEF Holds, TypeOK, Goto, BufferExclusive
<1> QED BY <1>1 DEF BufferExclusive

LEMMA OutsideIsExclusive ==
  ASSUME TypeOK, BufferExclusive,
         NEW c \in Contexts, NEW l, l \notin HoldingLabels,
         ~ Holds(c), inUse' = inUse, Goto(c, l)
  PROVE  BufferExclusive'
<1>1. \A d \in Contexts : Holds(d)' <=> Holds(d)
  BY DEF Holds, TypeOK, Goto
<1> QED BY <1>1 DEF BufferExclusive

(***************************************************************************)
(* Preemption: whoever refused an output to c lies below it and cannot     *)
(* move before c has returned.                                             *)
(***************************************************************************)

LEMMA RefusedBelow ==
  ASSUME TypeOK, BufferExclusive, NEW c \in Contexts,
         Executes(c), ~ Holds(c), inUse = 1
  PROVE  \E d \in Contexts : d < c /\ Holds(d)
<1>1. PICK d \in Contexts : Holds(d)
  BY DEF BufferExclusive
<1>2. d # c
  BY <1>1
<1>3. ~ (d > c)
  BY <1>1 DEF Executes, Holds, HoldingLabels
<1> QED BY <1>1, <1>2, <1>3, ConstantTypes

LEMMA OthersStayRefused ==
  ASSUME TypeOK, RefusedReturns, OnlyInterruptersRefused,
         NEW c \in Contexts, NEW l, Executes(c), Goto(c, l),
         \A d \in Contexts : d # c => loc'[d] = loc[d],
         loc'[c].out = "inUse" =>
           l = "return" /\ \E d \in Contexts : d < c /\ Holds(d)
  PROVE  RefusedReturns' /\ OnlyInterruptersRefused'
<1>1. ASSUME NEW e \in Contexts, loc'[e].out = "inUse"
      PROVE  pc'[e] = "return" /\ \E d \in Contexts : d < e /\ Holds(d)'
  <2>1. CASE e = c
    <3>1. PICK d \in Contexts : d < c /\ Holds(d)
      BY <1>1, <2>1
    <3>2. d # c
      BY <3>1, ConstantTypes
    <3>3. Holds(d)'
      BY <3>1, <3>2 DEF Holds, TypeOK, Goto
    <3> QED BY <1>1, <2>1, <3>1, <3>3 DEF TypeOK, Goto
  <2>2. CASE e # c
    <3>1. loc[e].out = "inUse"
      BY <1>1, <2>2
    <3>2. pc[e] = "return"
      BY <3>1 DEF RefusedReturns
    <3>3. PICK d \in Contexts : d < e /\ Holds(d)
      BY <3>1 DEF OnlyInterruptersRefused
    <3>4. e < c
      BY <2>2, <3>2, ConstantTypes DEF Executes
    <3>5. d # c
      BY <3>3, <3>4, ConstantTypes
    <3>6. Holds(d)'
      BY <3>3, <3>5 DEF Holds, TypeOK, Goto
    <3> QED BY <2>2, <3>2, <3>3, <3>6 DEF TypeOK, Goto
  <2> QED BY <2>1, <2>2
<1> QED BY <1>1 DEF RefusedReturns, OnlyInterruptersRefused

(***************************************************************************)
(* The line buffer changes only in the hands of the context that holds it, *)
(* so what another context knows of it stays true.                         *)
(***************************************************************************)

LEMMA LineStaysInBounds ==
  ASSUME TypeOK, BufferExclusive, LineBufferInBounds, FlushedIsEmpty,
         NEW c \in Contexts, NEW l, Goto(c, l),
         \A d \in Contexts : d # c => loc'[d] = loc[d],
         linePos' = linePos \/ Holds(c),
         l = "store" => linePos' < LineBufferSize,
         loc'[c].ok => l = "flushed" /\ linePos' = 0
  PROVE  LineBufferInBounds' /\ FlushedIsEmpty'
<1>1. ASSUME NEW e \in Contexts, pc'[e] = "store"
      PROVE  linePos' < LineBufferSize
  <2>1. CASE e # c
    <3>1. pc[e] = "store"
      BY <1>1, <2>1 DEF TypeOK, Goto
    <3>2. Holds(e)
      BY <3>1 DEF Holds, HoldingLabels
    <3> QED BY <2>1, <3>1, <3>2 DEF BufferExclusive, LineBufferInBounds
  <2> QED BY <1>1, <2>1 DEF TypeOK, Goto
<1>2. ASSUME NEW e \in Contexts, loc'[e].ok
      PROVE  pc'[e] = "flushed" /\ linePos' = 0
  <2>1. CASE e # c
    <3>1. pc[e] = "flushed" /\ linePos = 0
      BY <1>2, <2>1 DEF FlushedIsEmpty
    <3>2. Holds(e)
      BY <3>1 DEF Holds, HoldingLabels
    <3> QED BY <2>1, <3>1, <3>2 DEF BufferExclusive, TypeOK, Goto
  <2> QED BY <1>2, <2>1 DEF TypeOK, Goto
<1> QED BY <1>1, <1>2 DEF LineBufferInBounds, FlushedIsEmpty

\* What is left to show of a step of one context: to l, with m for its locals.
LEMMA StepKeepsInv ==
  ASSUME Inv, NEW c \in Contexts, NEW l, NEW m,
         Executes(c), Goto(c, l), Local(c, m),
         linePos' = linePos \/ Holds(c),
         l = "store" => linePos' < LineBufferSize,
         m.ok => l = "flushed" /\ linePos' = 0,
         m.out = "inUse" =>
           l = "return" /\ \E d \in Contexts : d < c /\ Holds(d),
         TypeOK', BufferExclusive'
  PROVE  Inv'
<1>1. loc'[c] = m /\ \A d \in Contexts : d # c => loc'[d] = loc[d]
  BY DEF Inv, TypeOK, Local
<1> QED BY <1>1, LineStaysInBounds, OthersStayRefused DEF Inv

\* A step that leaves every context where it was.
LEMMA QuietStepKeepsInv ==
  ASSUME Inv, TypeOK', UNCHANGED <<pc, loc, linePos, inUse>>
  PROVE  Inv'
BY DEF Inv, BufferExclusive, Holds, LineBufferInBounds, FlushedIsEmpty,
       RefusedReturns, OnlyInterruptersRefused

LEMMA CountType ==
  ASSUME NEW counter \in 0 .. CounterSize - 1, NEW n \in Int
  PROVE  Count(counter, n) \in 0 .. CounterSize - 1
BY ConstantTypes DEF Count

\* A context at rest holds nothing, and its locals are as before its call.
LEMMA AtRest ==
  ASSUME Inv, NEW c \in Contexts, pc[c] = "idle"
  PROVE  ~ Holds(c) /\ ~ loc[c].ok /\ loc[c].out # "inUse" /\ loc[c] \in Locals
BY DEF Inv, Holds, HoldingLabels, TypeOK, FlushedIsEmpty, RefusedReturns

\* A context that holds the buffer has not been refused it.
LEMMA AtWork ==
  ASSUME Inv, NEW c \in Contexts, Holds(c)
  PROVE  loc[c].out # "inUse" /\ loc[c] \in Locals
BY DEF Inv, Holds, HoldingLabels, TypeOK, RefusedReturns

-----------------------------------------------------------------------------
(***************************************************************************)
(* The entries of the handlers.                                            *)
(***************************************************************************)

LEMMA LogRecvKeepsInv ==
  ASSUME Inv, NEW c \in Contexts, NEW size \in EventSizes,
         NEW fatal \in Fatals, LogRecv(c, size, fatal)
  PROVE  Inv'
<1>0. /\ Executes(c) /\ ~ Holds(c) /\ linePos' = linePos
      /\ loc[c] \in Locals /\ ~ loc[c].ok /\ loc[c].out # "inUse"
  BY AtRest DEF LogRecv, At
<1>1. size \in 0 .. MaxRecordSize /\ fatal \in BOOLEAN
  BY EventSizeType, ActorsAssumption
<1>2. CASE ~ setup
  <2> DEFINE m == [loc[c] EXCEPT !.op = "log", !.fatal = fatal,
                                 !.out = "counted"]
  <2>1. m \in Locals /\ ~ m.ok /\ m.out # "inUse"
    BY <1>0, <1>1 DEF Locals
  <2>2. Local(c, m)
    BY <1>2 DEF LogRecv
  <2>3. Goto(c, "return") /\ inUse' = inUse
    BY <1>2 DEF LogRecv
  <2>4. TypeOK'
    BY <1>2, <2>1, <2>2, <2>3, CountType
    DEF LogRecv, Inv, TypeOK, Labels, sram,
        Goto, Local
  <2>5. BufferExclusive'
    BY <1>0, <2>3, OutsideIsExclusive DEF HoldingLabels, Inv
  <2> QED BY <1>0, <2>1, <2>2, <2>3, <2>4, <2>5, StepKeepsInv
<1>3. CASE setup /\ inUse = 1
  <2> DEFINE m == [loc[c] EXCEPT !.op = "log", !.fatal = fatal,
                                 !.out = "inUse"]
  <2>1. m \in Locals /\ ~ m.ok
    BY <1>0, <1>1 DEF Locals
  <2>2. Local(c, m)
    BY <1>3 DEF LogRecv
  <2>3. Goto(c, "return") /\ inUse' = inUse
    BY <1>3 DEF LogRecv
  <2>4. TypeOK'
    BY <1>3, <2>1, <2>2, <2>3 DEF LogRecv, Inv, TypeOK, Labels, sram,
        Goto, Local
  <2>5. BufferExclusive'
    BY <1>0, <2>3, OutsideIsExclusive DEF HoldingLabels, Inv
  <2>6. \E d \in Contexts : d < c /\ Holds(d)
    BY <1>0, <1>3, RefusedBelow DEF Inv
  <2> QED BY <1>0, <2>1, <2>2, <2>3, <2>4, <2>5, <2>6, StepKeepsInv
<1>4. CASE setup /\ inUse = 0
  <2> DEFINE m == [loc[c] EXCEPT !.op = "log", !.fatal = fatal,
                                 !.size = size]
  <2>1. m \in Locals /\ ~ m.ok /\ m.out # "inUse"
    BY <1>0, <1>1 DEF Locals
  <2>2. Local(c, m)
    BY <1>4 DEF LogRecv
  <2>3. Goto(c, "place") /\ inUse' = 1
    BY <1>4 DEF LogRecv
  <2>4. TypeOK'
    BY <1>4, <2>1, <2>2, <2>3 DEF LogRecv, Inv, TypeOK, Labels, sram,
        Goto, Local
  <2>5. BufferExclusive'
    BY <1>4, <2>3, TakeIsExclusive DEF HoldingLabels, Inv
  <2> QED BY <1>0, <2>1, <2>2, <2>3, <2>4, <2>5, StepKeepsInv
<1> QED BY <1>2, <1>3, <1>4 DEF LogRecv

LEMMA ConsoleWriteKeepsInv ==
  ASSUME Inv, NEW c \in Contexts, NEW op \in {"char", "string"},
         NEW length \in Nat, ConsoleWrite(c, op, length)
  PROVE  Inv'
<1>0. /\ Executes(c) /\ ~ Holds(c) /\ linePos' = linePos
      /\ loc[c] \in Locals /\ ~ loc[c].ok /\ loc[c].out # "inUse"
  BY AtRest DEF ConsoleWrite, At
<1>op. op \in {"none", "log", "char", "string", "flush"} /\ length \in Int
  OBVIOUS
<1>1. CASE inUse = 1
  <2> DEFINE m == [loc[c] EXCEPT !.op = op, !.length = length,
                                 !.counted = length, !.out = "inUse"]
  <2>1. m \in Locals /\ ~ m.ok
    BY <1>0, <1>op DEF Locals
  <2>2. Local(c, m)
    BY <1>1 DEF ConsoleWrite
  <2>3. Goto(c, "return") /\ inUse' = inUse
    BY <1>1 DEF ConsoleWrite
  <2>4. TypeOK'
    BY <1>1, <2>1, <2>2, <2>3, CountType
    DEF ConsoleWrite, Inv, TypeOK, Labels, sram,
        Goto, Local
  <2>5. BufferExclusive'
    BY <1>0, <2>3, OutsideIsExclusive DEF HoldingLabels, Inv
  <2>6. \E d \in Contexts : d < c /\ Holds(d)
    BY <1>0, <1>1, RefusedBelow DEF Inv
  <2> QED BY <1>0, <2>1, <2>2, <2>3, <2>4, <2>5, <2>6, StepKeepsInv
<1>2. CASE inUse = 0
  <2> DEFINE m == [loc[c] EXCEPT !.op = op, !.length = length,
                                 !.at = "prepare"]
             l == IF linePos = LineBufferSize THEN "flush" ELSE "store"
  <2>1. m \in Locals /\ ~ m.ok /\ m.out # "inUse"
    BY <1>0, <1>op DEF Locals
  <2>2. Local(c, m)
    BY <1>2 DEF ConsoleWrite
  <2>3. Goto(c, l) /\ inUse' = 1
    BY <1>2 DEF ConsoleWrite
  <2>4. TypeOK'
    BY <1>2, <2>1, <2>2, <2>3 DEF ConsoleWrite, Inv, TypeOK, Labels, sram,
        Goto, Local
  <2>5. BufferExclusive'
    BY <1>2, <2>3, TakeIsExclusive DEF HoldingLabels, Inv
  <2>6. l = "store" => linePos' < LineBufferSize
    BY <1>0, ConstantTypes DEF Inv, TypeOK
  <2> HIDE DEF m, l
  <2> QED BY <1>0, <2>1, <2>2, <2>3, <2>4, <2>5, <2>6, StepKeepsInv DEF l
<1> QED BY <1>1, <1>2 DEF ConsoleWrite

LEMMA FlushConsoleKeepsInv ==
  ASSUME Inv, NEW c \in Contexts, FlushConsole(c)
  PROVE  Inv'
<1>0. /\ Executes(c) /\ ~ Holds(c) /\ linePos' = linePos
      /\ loc[c] \in Locals /\ ~ loc[c].ok /\ loc[c].out # "inUse"
  BY AtRest DEF FlushConsole, At
<1>1. CASE inUse = 1
  <2> DEFINE m == [loc[c] EXCEPT !.op = "flush", !.out = "inUse"]
  <2>1. m \in Locals /\ ~ m.ok
    BY <1>0 DEF Locals
  <2>2. Local(c, m)
    BY <1>1 DEF FlushConsole
  <2>3. Goto(c, "return") /\ inUse' = inUse
    BY <1>1 DEF FlushConsole
  <2>4. TypeOK'
    BY <1>1, <2>1, <2>2, <2>3 DEF FlushConsole, Inv, TypeOK, Labels, sram,
        Goto, Local
  <2>5. BufferExclusive'
    BY <1>0, <2>3, OutsideIsExclusive DEF HoldingLabels, Inv
  <2>6. \E d \in Contexts : d < c /\ Holds(d)
    BY <1>0, <1>1, RefusedBelow DEF Inv
  <2> QED BY <1>0, <2>1, <2>2, <2>3, <2>4, <2>5, <2>6, StepKeepsInv
<1>2. CASE inUse = 0
  <2> DEFINE m == [loc[c] EXCEPT !.op = "flush", !.at = "explicit"]
  <2>1. m \in Locals /\ ~ m.ok /\ m.out # "inUse"
    BY <1>0 DEF Locals
  <2>2. Local(c, m)
    BY <1>2 DEF FlushConsole
  <2>3. Goto(c, "flush") /\ inUse' = 1
    BY <1>2 DEF FlushConsole
  <2>4. TypeOK'
    BY <1>2, <2>1, <2>2, <2>3 DEF FlushConsole, Inv, TypeOK, Labels, sram,
        Goto, Local
  <2>5. BufferExclusive'
    BY <1>2, <2>3, TakeIsExclusive DEF HoldingLabels, Inv
  <2> QED BY <1>0, <2>1, <2>2, <2>3, <2>4, <2>5, StepKeepsInv
<1> QED BY <1>1, <1>2 DEF FlushConsole

-----------------------------------------------------------------------------
(***************************************************************************)
(* The steps of a context that holds the buffer.                           *)
(***************************************************************************)

LEMMA StoreCharKeepsInv ==
  ASSUME Inv, NEW c \in Contexts, NEW newline \in BOOLEAN,
         StoreChar(c, newline)
  PROVE  Inv'
<1> DEFINE m == [loc[c] EXCEPT !.written = @ + 1, !.at = "loop"]
           l == IF newline \/ linePos + 1 = LineBufferSize THEN "flush"
                ELSE IF loc[c].written + 1 = loc[c].length THEN "release"
                ELSE "store"
<1>0. Executes(c) /\ Holds(c) /\ pc[c] = "store"
  BY DEF StoreChar, At, Holds, HoldingLabels
<1>1. ~ loc[c].ok /\ loc[c].out # "inUse" /\ loc[c] \in Locals
  BY <1>0, AtWork DEF Inv, FlushedIsEmpty
<1>2. m \in Locals /\ ~ m.ok /\ m.out # "inUse"
  <2>1. loc[c].written + 1 \in Nat
    BY <1>1 DEF Locals
  <2> QED BY <1>1, <2>1 DEF Locals
<1>3. Local(c, m) /\ Goto(c, l) /\ inUse' = inUse /\ linePos' = linePos + 1
  BY DEF StoreChar
<1>4. /\ linePos' \in 0 .. LineBufferSize
      /\ l = "store" => linePos' < LineBufferSize
  <2>1. linePos \in 0 .. LineBufferSize - 1
    BY <1>0, ConstantTypes DEF Inv, TypeOK, LineBufferInBounds
  <2>2. linePos + 1 = LineBufferSize => l # "store"
    OBVIOUS
  <2> HIDE DEF l
  <2> QED BY <1>3, <2>1, <2>2, ConstantTypes
<1>5. l \in {"flush", "release", "store"}
  OBVIOUS
<1> HIDE DEF m, l
<1>6. TypeOK'
  BY <1>2, <1>3, <1>4, <1>5
  DEF StoreChar, Inv, TypeOK, Labels, sram, Goto, Local
<1>7. BufferExclusive'
  BY <1>0, <1>3, <1>5, KeepIsExclusive DEF HoldingLabels, Inv
<1> QED BY <1>0, <1>2, <1>3, <1>4, <1>6, <1>7, StepKeepsInv

LEMMA FlushConsoleBufferKeepsInv ==
  ASSUME Inv, NEW c \in Contexts, FlushConsoleBuffer(c)
  PROVE  Inv'
<1>0. Executes(c) /\ Holds(c) /\ inUse' = inUse /\ linePos' = linePos
  BY DEF FlushConsoleBuffer, At, Holds, HoldingLabels
<1>1. ~ loc[c].ok /\ loc[c].out # "inUse" /\ loc[c] \in Locals
  BY <1>0, AtWork DEF Inv, FlushedIsEmpty, FlushConsoleBuffer, At
<1>2. CASE setup /\ linePos > 0
  <2> DEFINE m == [loc[c] EXCEPT !.size = ConsoleSize(linePos)]
  <2>1. ConsoleSize(linePos) \in 0 .. MaxRecordSize
    <3>1. linePos \in 1 .. LineBufferSize
      BY <1>2, ConstantTypes DEF Inv, TypeOK
    <3> QED BY <3>1, ConsoleSizeType
  <2>2. m \in Locals /\ ~ m.ok /\ m.out # "inUse"
    BY <1>1, <2>1 DEF Locals
  <2>3. Local(c, m) /\ Goto(c, "place")
    BY <1>2 DEF FlushConsoleBuffer
  <2> HIDE DEF m
  <2>4. TypeOK'
    BY <2>2, <2>3
    DEF FlushConsoleBuffer, Inv, TypeOK, Labels, sram, Goto, Local
  <2>5. BufferExclusive'
    BY <1>0, <2>3, KeepIsExclusive DEF HoldingLabels, Inv
  <2> QED BY <1>0, <2>2, <2>3, <2>4, <2>5, StepKeepsInv
<1>3. CASE ~ (setup /\ linePos > 0)
  <2> DEFINE m == [loc[c] EXCEPT !.ok = setup]
  <2>1. m \in Locals /\ m.ok = setup /\ m.out # "inUse"
    BY <1>1 DEF Locals, Inv, TypeOK
  <2>2. Local(c, m) /\ Goto(c, "flushed")
    BY <1>3 DEF FlushConsoleBuffer
  <2> HIDE DEF m
  <2>3. TypeOK'
    BY <2>1, <2>2
    DEF FlushConsoleBuffer, Inv, TypeOK, Labels, sram, Goto, Local
  <2>4. BufferExclusive'
    BY <1>0, <2>2, KeepIsExclusive DEF HoldingLabels, Inv
  <2>5. setup => linePos' = 0
    BY <1>0, <1>3, ConstantTypes DEF Inv, TypeOK
  <2> QED BY <1>0, <2>1, <2>2, <2>3, <2>4, <2>5, StepKeepsInv
<1> QED BY <1>2, <1>3

LEMMA FlushedKeepsInv ==
  ASSUME Inv, NEW c \in Contexts, Flushed(c)
  PROVE  Inv'
<1> DEFINE unwritten ==
             IF loc[c].ok THEN 0
             ELSE IF loc[c].at = "prepare" THEN loc[c].length
             ELSE IF loc[c].op = "string"
               THEN loc[c].length - (loc[c].written - 1)
             ELSE 0
           more == \/ loc[c].at = "prepare"
                   \/ loc[c].at = "loop" /\ loc[c].written < loc[c].length
           refused == loc[c].at = "prepare" /\ ~ loc[c].ok
           l == IF refused THEN "return"
                ELSE IF loc[c].ok /\ more THEN "store" ELSE "release"
           m == [loc[c] EXCEPT !.counted = unwritten, !.ok = FALSE]
<1>0. Executes(c) /\ Holds(c) /\ linePos' = linePos
  BY DEF Flushed, At, Holds, HoldingLabels
<1>1. loc[c].out # "inUse" /\ loc[c] \in Locals
  BY <1>0, AtWork
<1>2. unwritten \in Int
  BY <1>1 DEF Locals
<1>3. /\ Local(c, m) /\ Goto(c, l)
      /\ inUse' = IF refused THEN 0 ELSE inUse
      /\ droppedBytes' = Count(droppedBytes, unwritten)
  BY DEF Flushed
<1>4. l = "store" => linePos' < LineBufferSize
  BY <1>0, ConstantTypes DEF Inv, FlushedIsEmpty
<1>5. IF refused THEN l = "return" ELSE l \in {"store", "release"}
  OBVIOUS
<1> HIDE DEF unwritten, l, refused
<1>6. m \in Locals /\ ~ m.ok /\ m.out # "inUse"
  BY <1>1, <1>2 DEF Locals
<1> HIDE DEF m
<1>7. TypeOK'
  BY <1>2, <1>3, <1>5, <1>6, CountType
  DEF Flushed, Inv, TypeOK, Labels, sram, Goto, Local
<1>8. BufferExclusive'
  <2>1. CASE refused
    BY <1>0, <1>3, <1>5, <2>1, GiveBackIsExclusive DEF HoldingLabels, Inv
  <2>2. CASE ~ refused
    BY <1>0, <1>3, <1>5, <2>2, KeepIsExclusive DEF HoldingLabels, Inv
  <2> QED BY <2>1, <2>2
<1> QED BY <1>0, <1>3, <1>4, <1>6, <1>7, <1>8, StepKeepsInv

LEMMA PlaceKeepsInv ==
  ASSUME Inv, NEW c \in Contexts, Place(c)
  PROVE  Inv'
<1> DEFINE read == IF overwriteMode THEN oldest ELSE readCursor
           place == ItemFitsInBuffer(read, writeCursor, loc[c].size)
           l == IF place.fits THEN IF place.wrap THEN "fill" ELSE "write"
                ELSE IF overwriteMode THEN "evict" ELSE "full"
           deficit == IF l = "evict" THEN Deficit(writeCursor, loc[c].size)
                                     ELSE 0
           m == [loc[c] EXCEPT !.write = writeCursor, !.place = place,
                               !.deficit = deficit]
<1>0. /\ Executes(c) /\ Holds(c) /\ pc[c] = "place"
      /\ inUse' = inUse /\ linePos' = linePos
  BY DEF Place, At, Holds, HoldingLabels
<1>1. ~ loc[c].ok /\ loc[c].out # "inUse" /\ loc[c] \in Locals
  BY <1>0, AtWork DEF Inv, FlushedIsEmpty
<1>2. loc[c].size \in 0 .. MaxRecordSize
  BY <1>1 DEF Locals
<1>3. writeCursor \in Cursors /\ read \in Cursors
  BY DEF Inv, TypeOK
<1>4. place \in Places
  BY <1>2, <1>3, ItemFitsType
<1>5. deficit \in Int
  BY <1>2, <1>3, DeficitType DEF Inv
<1>6. l \in {"fill", "write", "evict", "full"}
  OBVIOUS
<1>7. Local(c, m) /\ Goto(c, l) /\ asserted' \in BOOLEAN
  BY DEF Place, Assert
<1> HIDE DEF place, deficit, l
<1>8. m \in Locals /\ ~ m.ok /\ m.out # "inUse"
  BY <1>1, <1>3, <1>4, <1>5 DEF Locals
<1> HIDE DEF m
<1>9. TypeOK'
  BY <1>6, <1>7, <1>8 DEF Place, Inv, TypeOK, Labels, sram, Goto, Local
<1>10. BufferExclusive'
  BY <1>0, <1>6, <1>7, KeepIsExclusive DEF HoldingLabels, Inv
<1> QED BY <1>0, <1>6, <1>7, <1>8, <1>9, <1>10, StepKeepsInv

LEMMA EvictKeepsInv ==
  ASSUME Inv, NEW c \in Contexts, Evict(c)
  PROVE  Inv'
<1> DEFINE evicted == EvictOldestRecord(loc[c].write)
           m == [loc[c] EXCEPT !.freed = @ + evicted.freed, !.count = @ + 1]
<1>0. /\ Executes(c) /\ Holds(c) /\ pc[c] = "evict"
      /\ inUse' = inUse /\ linePos' = linePos
  BY DEF Evict, At, Holds, HoldingLabels
<1>1. ~ loc[c].ok /\ loc[c].out # "inUse" /\ loc[c] \in Locals
  BY <1>0, AtWork DEF Inv, FlushedIsEmpty
<1>2. evicted.oldest \in Cursors /\ evicted.freed \in Nat
  BY <1>1, EvictType DEF Inv, Locals
<1>3. Local(c, m) /\ oldest' = evicted.oldest /\ asserted' \in BOOLEAN
  BY DEF Evict, Assert
<1>4. Goto(c, "evict")
  BY <1>0 DEF Evict, Goto, Inv, TypeOK
<1> HIDE DEF evicted
<1>5. m \in Locals /\ ~ m.ok /\ m.out # "inUse"
  <2>1. loc[c].freed + evicted.freed \in Nat /\ loc[c].count + 1 \in Nat
    BY <1>1, <1>2 DEF Locals
  <2> QED BY <1>1, <2>1 DEF Locals
<1> HIDE DEF m
<1>6. TypeOK'
  BY <1>2, <1>3, <1>4, <1>5
  DEF Evict, Inv, TypeOK, Labels, sram, Goto, Local
<1>7. BufferExclusive'
  BY <1>0, <1>4, KeepIsExclusive DEF HoldingLabels, Inv
<1> QED BY <1>0, <1>3, <1>4, <1>5, <1>6, <1>7, StepKeepsInv

LEMMA EvictedKeepsInv ==
  ASSUME Inv, NEW c \in Contexts, Evicted(c)
  PROVE  Inv'
<1> DEFINE place == ItemFitsInBuffer(oldest, loc[c].write, loc[c].size)
           l == IF place.fits THEN IF place.wrap THEN "fill" ELSE "write"
                ELSE "full"
           m == [loc[c] EXCEPT !.place = place, !.deficit = 0, !.freed = 0,
                               !.count = 0]
<1>0. /\ Executes(c) /\ Holds(c) /\ pc[c] = "evict"
      /\ inUse' = inUse /\ linePos' = linePos
  BY DEF Evicted, At, Holds, HoldingLabels
<1>1. ~ loc[c].ok /\ loc[c].out # "inUse" /\ loc[c] \in Locals
  BY <1>0, AtWork DEF Inv, FlushedIsEmpty
<1>2. place \in Places
  BY <1>1, ItemFitsType DEF Inv, TypeOK, Locals
<1>3. l \in {"fill", "write", "full"}
  OBVIOUS
<1>4. Local(c, m) /\ Goto(c, l)
  BY DEF Evicted
<1> HIDE DEF place, l
<1>5. m \in Locals /\ ~ m.ok /\ m.out # "inUse"
  <2> DEFINE zero == 0
             n == [loc[c] EXCEPT !.place = place, !.deficit = zero,
                                 !.freed = zero, !.count = zero]
  <2>1. zero \in Nat /\ zero \in Int /\ m = n
    OBVIOUS
  <2> HIDE DEF zero, m
  <2>2. n \in Locals /\ ~ n.ok /\ n.out # "inUse"
    BY <1>1, <1>2, <2>1 DEF Locals
  <2> QED BY <2>1, <2>2
<1> HIDE DEF m
<1>6. TypeOK'
  BY <1>3, <1>4, <1>5 DEF Evicted, Inv, TypeOK, Labels, sram, Goto, Local
<1>7. BufferExclusive'
  BY <1>0, <1>3, <1>4, KeepIsExclusive DEF HoldingLabels, Inv
<1> QED BY <1>0, <1>3, <1>4, <1>5, <1>6, <1>7, StepKeepsInv

LEMMA FullKeepsInv ==
  ASSUME Inv, NEW c \in Contexts, Full(c)
  PROVE  Inv'
<1> DEFINE isLog == loc[c].op = "log"
           l == IF isLog THEN "release" ELSE "flushed"
           m == [loc[c] EXCEPT !.out = IF isLog THEN "counted" ELSE @]
<1>0. /\ Executes(c) /\ Holds(c) /\ pc[c] = "full"
      /\ inUse' = inUse /\ linePos' = linePos
  BY DEF Full, At, Holds, HoldingLabels
<1>1. ~ loc[c].ok /\ loc[c].out # "inUse" /\ loc[c] \in Locals
  BY <1>0, AtWork DEF Inv, FlushedIsEmpty
<1>2. l \in {"release", "flushed"}
  OBVIOUS
<1>3. Local(c, m) /\ Goto(c, l)
  BY DEF Full
<1>4. m \in Locals /\ ~ m.ok /\ m.out # "inUse"
  BY <1>1 DEF Locals
<1>5. droppedEvents' \in 0 .. CounterSize - 1
  BY CountType DEF Full, Inv, TypeOK
<1> HIDE DEF m, l
<1>6. TypeOK'
  BY <1>2, <1>3, <1>4, <1>5
  DEF Full, Inv, TypeOK, Labels, sram, Goto, Local
<1>7. BufferExclusive'
  BY <1>0, <1>2, <1>3, KeepIsExclusive DEF HoldingLabels, Inv
<1> QED BY <1>0, <1>2, <1>3, <1>4, <1>6, <1>7, StepKeepsInv

LEMMA FillKeepsInv ==
  ASSUME Inv, NEW c \in Contexts, FillWraparoundRegion(c)
  PROVE  Inv'
<1>0. /\ Executes(c) /\ Holds(c) /\ pc[c] = "fill"
      /\ inUse' = inUse /\ linePos' = linePos /\ Goto(c, "write")
  BY DEF FillWraparoundRegion, At, Holds, HoldingLabels
<1>1. ~ loc[c].ok /\ loc[c].out # "inUse" /\ Local(c, loc[c])
  BY <1>0, AtWork
  DEF Inv, FlushedIsEmpty, FillWraparoundRegion, Local, TypeOK
<1>2. data' \in [Offsets -> Word]
  <2>1. Filler \in Word
    BY ConstantTypes DEF Filler, Word, Ids
  <2> QED BY <2>1 DEF FillWraparoundRegion, Inv, TypeOK
<1>3. TypeOK'
  BY <1>0, <1>2 DEF FillWraparoundRegion, Inv, TypeOK, Labels, sram, Goto
<1>4. BufferExclusive'
  BY <1>0, KeepIsExclusive DEF HoldingLabels, Inv
<1> QED BY <1>0, <1>1, <1>3, <1>4, StepKeepsInv

LEMMA WriteRecordKeepsInv ==
  ASSUME Inv, NEW c \in Contexts, WriteRecord(c)
  PROVE  Inv'
<1>0. /\ Executes(c) /\ Holds(c) /\ pc[c] = "write"
      /\ inUse' = inUse /\ linePos' = linePos /\ Goto(c, "publish")
  BY DEF WriteRecord, At, Holds, HoldingLabels
<1>1. ~ loc[c].ok /\ loc[c].out # "inUse" /\ Local(c, loc[c])
  BY <1>0, AtWork DEF Inv, FlushedIsEmpty, WriteRecord, Local, TypeOK
<1>2. nextId' \in Ids /\ asserted' \in BOOLEAN
  BY ConstantTypes DEF WriteRecord, Inv, TypeOK, Ids, Assert
<1>3. data' \in [Offsets -> Word]
  <2>1. loc[c].size \in 0 .. MaxRecordSize
    BY DEF Inv, TypeOK, Locals
  <2>2. Header(loc[c].size, nextId) \in Word /\ Body(nextId) \in Word
    BY <2>1, ConstantTypes DEF Header, Body, Word, Inv, TypeOK
  <2> QED BY <2>2 DEF WriteRecord, Inv, TypeOK
<1>4. TypeOK'
  BY <1>0, <1>2, <1>3 DEF WriteRecord, Inv, TypeOK, Labels, sram, Goto
<1>5. BufferExclusive'
  BY <1>0, KeepIsExclusive DEF HoldingLabels, Inv
<1> QED BY <1>0, <1>1, <1>4, <1>5, StepKeepsInv

LEMMA PublishKeepsInv ==
  ASSUME Inv, NEW c \in Contexts, Publish(c)
  PROVE  Inv'
<1> DEFINE isLog == loc[c].op = "log"
           l == IF isLog THEN "release" ELSE "flushed"
           m == [loc[c] EXCEPT !.out = IF isLog THEN "stored" ELSE @,
                               !.ok = ~ isLog, !.size = 0, !.write = 0,
                               !.place = NoFit]
<1>0. /\ Executes(c) /\ Holds(c) /\ pc[c] = "publish" /\ inUse' = inUse
  BY DEF Publish, At, Holds, HoldingLabels
<1>1. ~ loc[c].ok /\ loc[c].out # "inUse" /\ loc[c] \in Locals
  BY <1>0, AtWork DEF Inv, FlushedIsEmpty
<1>2. l \in {"release", "flushed"} /\ (~ isLog => l = "flushed")
  OBVIOUS
<1>3. /\ Local(c, m) /\ Goto(c, l)
      /\ linePos' = IF isLog THEN linePos ELSE 0
      /\ writeCursor' = loc[c].place.next
  BY DEF Publish
<1>4. m \in Locals /\ (m.ok <=> ~ isLog) /\ m.out # "inUse"
  <2> DEFINE zero == 0
             n == [loc[c] EXCEPT !.out = IF isLog THEN "stored" ELSE @,
                                 !.ok = ~ isLog, !.size = zero, !.write = zero,
                                 !.place = NoFit]
  <2>1. /\ zero \in Cursors /\ zero \in 0 .. MaxRecordSize /\ m = n
        /\ NoFit \in Places
    BY ConstantTypes DEF NoFit, Offsets, Cursors, Places
  <2>2. isLog \in BOOLEAN
    OBVIOUS
  <2> HIDE DEF zero, m, isLog
  <2>3. n \in Locals /\ (n.ok <=> ~ isLog) /\ n.out # "inUse"
    BY <1>1, <2>1, <2>2 DEF Locals
  <2> QED BY <2>1, <2>3
<1>5. linePos' \in 0 .. LineBufferSize /\ writeCursor' \in Cursors
  BY <1>1, <1>3, ConstantTypes DEF Inv, TypeOK, Locals, Places
<1> HIDE DEF m, l, isLog
<1>6. TypeOK'
  BY <1>2, <1>3, <1>4, <1>5
  DEF Publish, Inv, TypeOK, Labels, sram, Goto, Local
<1>7. BufferExclusive'
  BY <1>0, <1>2, <1>3, KeepIsExclusive DEF HoldingLabels, Inv
<1> QED BY <1>0, <1>2, <1>3, <1>4, <1>6, <1>7, StepKeepsInv

LEMMA ReleaseKeepsInv ==
  ASSUME Inv, NEW c \in Contexts, Release(c)
  PROVE  Inv'
<1> DEFINE l == IF loc[c].fatal /\ loc[c].out = "stored"
                THEN "announce" ELSE "return"
<1>0. /\ Executes(c) /\ Holds(c) /\ pc[c] = "release"
      /\ inUse' = 0 /\ linePos' = linePos /\ Goto(c, l)
  BY DEF Release, At, Holds, HoldingLabels
<1>1. ~ loc[c].ok /\ loc[c].out # "inUse" /\ Local(c, loc[c])
  BY <1>0, AtWork DEF Inv, FlushedIsEmpty, Release, Local, TypeOK
<1>2. l \in {"announce", "return"}
  OBVIOUS
<1> HIDE DEF l
<1>3. TypeOK'
  BY <1>0, <1>2 DEF Release, Inv, TypeOK, Labels, sram, Goto
<1>4. BufferExclusive'
  BY <1>0, <1>2, GiveBackIsExclusive DEF HoldingLabels, Inv
<1> QED BY <1>0, <1>1, <1>2, <1>3, <1>4, StepKeepsInv

LEMMA AnnounceKeepsInv ==
  ASSUME Inv, NEW c \in Contexts, Announce(c)
  PROVE  Inv'
<1> DEFINE m == [loc[c] EXCEPT !.out = "announced"]
<1>0. /\ Executes(c) /\ ~ Holds(c) /\ pc[c] = "announce"
      /\ inUse' = inUse /\ linePos' = linePos
      /\ Local(c, m) /\ Goto(c, "return")
  BY DEF Announce, At, Holds, HoldingLabels
<1>1. ~ loc[c].ok /\ loc[c] \in Locals
  BY <1>0 DEF Inv, FlushedIsEmpty, TypeOK
<1>2. m \in Locals /\ ~ m.ok /\ m.out # "inUse"
  BY <1>1 DEF Locals
<1> HIDE DEF m
<1>3. TypeOK'
  BY <1>0, <1>2 DEF Announce, Inv, TypeOK, Labels, sram, Goto, Local
<1>4. BufferExclusive'
  BY <1>0, OutsideIsExclusive DEF HoldingLabels, Inv
<1> QED BY <1>0, <1>2, <1>3, <1>4, StepKeepsInv

LEMMA NoLocalsType ==
  NoLocals \in Locals /\ ~ NoLocals.ok /\ NoLocals.out # "inUse"
<1> DEFINE zero == 0
<1>1. /\ zero \in Nat /\ zero \in Int /\ zero \in 0 .. MaxRecordSize
      /\ zero \in Cursors /\ NoFit \in Places
  BY ConstantTypes DEF NoFit, Places, Offsets, Cursors
<1>2. NoLocals = [op |-> "none", fatal |-> FALSE, length |-> zero,
                  written |-> zero, counted |-> zero, at |-> "none",
                  ok |-> FALSE, out |-> "none", size |-> zero,
                  write |-> zero, place |-> NoFit, deficit |-> zero,
                  freed |-> zero, count |-> zero]
  BY DEF NoLocals
<1> HIDE DEF zero
<1> QED BY <1>1, <1>2 DEF Locals

LEMMA ReturnKeepsInv ==
  ASSUME Inv, NEW c \in Contexts, Return(c)
  PROVE  Inv'
<1>0. /\ Executes(c) /\ ~ Holds(c) /\ pc[c] = "return"
      /\ inUse' = inUse /\ linePos' = linePos
      /\ Local(c, NoLocals) /\ Goto(c, "idle")
  BY DEF Return, At, Holds, HoldingLabels
<1>1. TypeOK'
  BY <1>0, NoLocalsType DEF Return, Inv, TypeOK, Labels, sram, Goto, Local
<1>2. BufferExclusive'
  BY <1>0, OutsideIsExclusive DEF HoldingLabels, Inv
<1> QED BY <1>0, <1>1, <1>2, NoLocalsType, StepKeepsInv

-----------------------------------------------------------------------------
(***************************************************************************)
(* Run_handler.  The exchange of the main loop finds the buffer free: with *)
(* nothing above it active and itself not holding, nobody holds it.        *)
(***************************************************************************)

\* What the steps of Run_handler have in common.
LEMMA RunStepKeepsInv ==
  ASSUME Inv, NEW l \in Labels \ {"store", "return"}, Executes(Main),
         ~ loc[Main].ok, loc[Main].out # "inUse",
         Goto(Main, l), UNCHANGED <<loc, linePos>>, TypeOK', BufferExclusive'
  PROVE  Inv'
<1>1. Local(Main, loc[Main])
  BY ConstantTypes DEF Inv, TypeOK, Local
<1> QED BY <1>1, ConstantTypes, StepKeepsInv

LEMMA NobodyHolds ==
  ASSUME Inv, Executes(Main), ~ Holds(Main)
  PROVE  inUse = 0
<1>1. ASSUME NEW d \in Contexts PROVE ~ Holds(d)
  <2>1. CASE d = Main
    BY <2>1
  <2>2. CASE d # Main
    <3>1. d > Main
      BY <2>2 DEF Contexts, Main
    <3> QED BY <3>1 DEF Executes, Holds, HoldingLabels
  <2> QED BY <2>1, <2>2
<1> QED BY <1>1 DEF Inv, TypeOK, BufferExclusive

LEMMA RunKeepsInv ==
  ASSUME Inv, Run
  PROVE  Inv'
<1>0. Main \in Contexts
  BY ConstantTypes
<1>1. CASE RunHandler
  <2> DEFINE l == IF overwriteMode /\ attachRequest THEN "runAcquire"
                                                     ELSE "runCommand"
  <2>1. /\ Executes(Main) /\ pc[Main] = "idle" /\ Goto(Main, l)
        /\ UNCHANGED <<loc, linePos, inUse>>
    BY <1>1 DEF RunHandler, At
  <2>2. l \in {"runAcquire", "runCommand"}
    OBVIOUS
  <2> HIDE DEF l
  <2>3. TypeOK'
    BY <1>1, <2>1, <2>2 DEF RunHandler, Inv, TypeOK, Labels, sram, Goto
  <2>4. BufferExclusive'
    BY <1>0, <2>1, <2>2, AtRest, OutsideIsExclusive DEF HoldingLabels, Inv
  <2> QED
    BY <1>0, <2>1, <2>2, <2>3, <2>4, AtRest, RunStepKeepsInv DEF Labels
<1>2. CASE RunAcquire
  <2>1. /\ Executes(Main) /\ pc[Main] = "runAcquire" /\ inUse' = 1
        /\ Goto(Main, "runCursor") /\ UNCHANGED <<loc, linePos>>
    BY <1>2 DEF RunAcquire, At
  <2>2. ~ loc[Main].ok /\ loc[Main].out # "inUse"
    BY <1>0, <2>1 DEF Inv, FlushedIsEmpty, RefusedReturns
  <2>3. TypeOK'
    BY <1>2, <2>1 DEF RunAcquire, Assert, Inv, TypeOK, Labels, sram, Goto
  <2>4. inUse = 0
    BY <2>1, NobodyHolds DEF Holds, HoldingLabels
  <2>5. BufferExclusive'
    BY <1>0, <2>1, <2>4, TakeIsExclusive DEF HoldingLabels, Inv
  <2> QED BY <2>1, <2>2, <2>3, <2>5, RunStepKeepsInv DEF Labels
<1>3. CASE RunHandOverCursor
  <2>1. /\ Executes(Main) /\ pc[Main] = "runCursor"
        /\ Goto(Main, "runMode") /\ UNCHANGED <<loc, linePos, inUse>>
    BY <1>3 DEF RunHandOverCursor, At
  <2>2. ~ loc[Main].ok /\ loc[Main].out # "inUse" /\ Holds(Main)
    BY <1>0, <2>1
    DEF Inv, FlushedIsEmpty, RefusedReturns, Holds, HoldingLabels
  <2>3. TypeOK'
    BY <1>3, <2>1 DEF RunHandOverCursor, Inv, TypeOK, Labels, sram, Goto
  <2>4. BufferExclusive'
    BY <1>0, <2>1, <2>2, KeepIsExclusive DEF HoldingLabels, Inv
  <2> QED BY <2>1, <2>2, <2>3, <2>4, RunStepKeepsInv DEF Labels
<1>4. CASE RunLeaveOverwriteMode
  <2>1. /\ Executes(Main) /\ pc[Main] = "runMode"
        /\ Goto(Main, "runRelease") /\ UNCHANGED <<loc, linePos, inUse>>
    BY <1>4 DEF RunLeaveOverwriteMode, At
  <2>2. ~ loc[Main].ok /\ loc[Main].out # "inUse" /\ Holds(Main)
    BY <1>0, <2>1
    DEF Inv, FlushedIsEmpty, RefusedReturns, Holds, HoldingLabels
  <2>3. TypeOK'
    BY <1>4, <2>1 DEF RunLeaveOverwriteMode, Inv, TypeOK, Labels, sram, Goto
  <2>4. BufferExclusive'
    BY <1>0, <2>1, <2>2, KeepIsExclusive DEF HoldingLabels, Inv
  <2> QED BY <2>1, <2>2, <2>3, <2>4, RunStepKeepsInv DEF Labels
<1>5. CASE RunRelease
  <2>1. /\ Executes(Main) /\ pc[Main] = "runRelease" /\ inUse' = 0
        /\ Goto(Main, "runCommand") /\ UNCHANGED <<loc, linePos>>
    BY <1>5 DEF RunRelease, At
  <2>2. ~ loc[Main].ok /\ loc[Main].out # "inUse" /\ Holds(Main)
    BY <1>0, <2>1
    DEF Inv, FlushedIsEmpty, RefusedReturns, Holds, HoldingLabels
  <2>3. TypeOK'
    BY <1>5, <2>1 DEF RunRelease, Inv, TypeOK, Labels, sram, Goto
  <2>4. BufferExclusive'
    BY <1>0, <2>1, <2>2, GiveBackIsExclusive DEF HoldingLabels, Inv
  <2> QED BY <2>1, <2>2, <2>3, <2>4, RunStepKeepsInv DEF Labels
<1>6. CASE CheckCommandBuffer
  <2>1. /\ Executes(Main) /\ pc[Main] = "runCommand"
        /\ Goto(Main, "idle") /\ UNCHANGED <<loc, linePos, inUse>>
    BY <1>6 DEF CheckCommandBuffer, At
  <2>2. ~ loc[Main].ok /\ loc[Main].out # "inUse" /\ ~ Holds(Main)
    BY <1>0, <2>1
    DEF Inv, FlushedIsEmpty, RefusedReturns, Holds, HoldingLabels
  <2>3. TypeOK'
    BY <1>6, <2>1
    DEF CheckCommandBuffer, Assert, Inv, TypeOK, Labels, sram, Goto
  <2>4. BufferExclusive'
    BY <1>0, <2>1, <2>2, OutsideIsExclusive DEF HoldingLabels, Inv
  <2> QED BY <2>1, <2>2, <2>3, <2>4, RunStepKeepsInv DEF Labels
<1>7. CASE CommandDone
  <2>1. TypeOK'
    BY <1>7 DEF CommandDone, Inv, TypeOK
  <2> QED BY <1>7, <2>1, QuietStepKeepsInv DEF CommandDone
<1> QED BY <1>1, <1>2, <1>3, <1>4, <1>5, <1>6, <1>7 DEF Run

-----------------------------------------------------------------------------
(***************************************************************************)
(* Setup, the GDS, and a reset.                                            *)
(***************************************************************************)

LEMMA ZeroTypes ==
  /\ 0 \in Cursors /\ 0 \in Ids
  /\ 0 \in 0 .. CounterSize - 1 /\ 0 \in 0 .. LineBufferSize
  /\ 0 \in {0, 1} /\ 0 \in CommandLengths \cup {0}
BY ConstantTypes DEF Cursors, Ids

LEMMA SetupKeepsInv ==
  ASSUME Inv, Setup
  PROVE  Inv'
<1>1. TypeOK'
  BY ZeroTypes DEF Setup, Inv, TypeOK, sram
<1> QED BY <1>1, QuietStepKeepsInv DEF Setup

LEMMA GdsKeepsInv ==
  ASSUME Inv, Gds
  PROVE  Inv'
<1>1. CASE GdsAttach
  <2>1. TypeOK'
    BY <1>1 DEF GdsAttach, Inv, TypeOK
  <2> QED BY <1>1, <2>1, QuietStepKeepsInv DEF GdsAttach
<1>2. CASE GdsRead
  <2> DEFINE word == data[Rel(readCursor)]
  <2>1. word \in Word
    BY RelType DEF Inv, TypeOK
  <2>2. SizeOf(word) \in 0 .. DataSize
    BY <2>1, SizeOfType, ConstantTypes
  <2>3. Forward(readCursor, SizeOf(word)) \in Cursors
    BY <2>2, ForwardType DEF Inv, TypeOK
  <2>4. gds' \in [pc : {"idle", "acknowledge", "stale"}, cursor : Cursors,
                  word : Word]
    BY <1>2, <2>1, <2>3 DEF GdsRead
  <2>5. TypeOK'
    BY <1>2, <2>4 DEF GdsRead, Inv, TypeOK, sram
  <2> QED BY <1>2, <2>5, QuietStepKeepsInv DEF GdsRead
<1>3. CASE GdsAcknowledge
  <2>1. Blank \in Word
    BY ConstantTypes DEF Blank, Word, Ids
  <2>2. gds' \in [pc : {"idle", "acknowledge", "stale"}, cursor : Cursors,
                  word : Word]
    BY <1>3, <2>1, ConstantTypes DEF GdsAcknowledge, GdsIdle, Cursors
  <2>3. TypeOK'
    BY <1>3, <2>2 DEF GdsAcknowledge, Inv, TypeOK
  <2> QED BY <1>3, <2>3, QuietStepKeepsInv DEF GdsAcknowledge
<1>4. CASE \E length \in CommandLengths : GdsCommand(length)
  <2>1. TypeOK'
    BY <1>4 DEF GdsCommand, Inv, TypeOK
  <2> QED BY <1>4, <2>1, QuietStepKeepsInv DEF GdsCommand
<1> QED BY <1>1, <1>2, <1>3, <1>4 DEF Gds

LEMMA InitInv == Init => Inv
<1> SUFFICES ASSUME Init PROVE Inv
  OBVIOUS
<1>1. \A c \in Contexts : pc[c] = "idle" /\ loc[c] = NoLocals
  BY DEF Init
<1>2. Blank \in Word
  BY ConstantTypes DEF Blank, Word, Ids
<1>3. TypeOK
  <2>1. data \in [Offsets -> Word]
    BY <1>2 DEF Init
  <2>2. pc \in [Contexts -> Labels] /\ loc \in [Contexts -> Locals]
    BY NoLocalsType DEF Init, Labels
  <2>3. gds \in [pc : {"idle", "acknowledge", "stale"}, cursor : Cursors,
                 word : Word]
    BY <1>2, ZeroTypes DEF Init, GdsIdle
  <2> QED BY <2>1, <2>2, <2>3, ZeroTypes DEF Init, TypeOK
<1>4. \A c \in Contexts : ~ Holds(c)
  BY <1>1 DEF Holds, HoldingLabels
<1> QED
  BY <1>1, <1>3, <1>4, NoLocalsType
  DEF Init, Inv, BufferExclusive, LineBufferInBounds, FlushedIsEmpty,
      RefusedReturns, OnlyInterruptersRefused

LEMMA ResetKeepsInv ==
  ASSUME Inv, Reset
  PROVE  Inv'
<1>1. \A c \in Contexts : pc'[c] = "idle" /\ loc'[c] = NoLocals
  BY DEF Reset
<1>2. gds' \in [pc : {"idle", "acknowledge", "stale"}, cursor : Cursors,
                word : Word]
  BY DEF Reset, Inv, TypeOK
<1>3. TypeOK'
  <2>1. pc' \in [Contexts -> Labels] /\ loc' \in [Contexts -> Locals]
    BY NoLocalsType DEF Reset, Labels
  <2> QED BY <1>2, <2>1, ZeroTypes DEF Reset, Inv, TypeOK, sram
<1>4. \A c \in Contexts : ~ Holds(c)'
  BY <1>1 DEF Holds, HoldingLabels
<1> QED
  BY <1>1, <1>3, <1>4, NoLocalsType
  DEF Reset, Inv, BufferExclusive, LineBufferInBounds, FlushedIsEmpty,
      RefusedReturns, OnlyInterruptersRefused

-----------------------------------------------------------------------------
LEMMA ProceedKeepsInv ==
  ASSUME Inv, NEW c \in Contexts, Proceed(c)
  PROVE  Inv'
BY StoreCharKeepsInv, FlushConsoleBufferKeepsInv, FlushedKeepsInv,
   PlaceKeepsInv, EvictKeepsInv, EvictedKeepsInv, FullKeepsInv, FillKeepsInv,
   WriteRecordKeepsInv, PublishKeepsInv, ReleaseKeepsInv, AnnounceKeepsInv,
   ReturnKeepsInv
DEF Proceed

LEMMA CallKeepsInv ==
  ASSUME Inv, NEW c \in Contexts, Call(c)
  PROVE  Inv'
<1>1. 1 \in Nat /\ StringLengths \subseteq Nat
  BY ActorsAssumption
<1> QED
  BY <1>1, LogRecvKeepsInv, ConsoleWriteKeepsInv, FlushConsoleKeepsInv DEF Call

LEMMA NextKeepsInv == Inv /\ [Next]_vars => Inv'
<1> SUFFICES ASSUME Inv, [Next]_vars PROVE Inv'
  OBVIOUS
<1>1. CASE Setup
  BY <1>1, SetupKeepsInv
<1>2. CASE \E c \in Contexts : Call(c) \/ Proceed(c)
  BY <1>2, CallKeepsInv, ProceedKeepsInv
<1>3. CASE Run
  BY <1>3, RunKeepsInv
<1>4. CASE Gds
  BY <1>4, GdsKeepsInv
<1>5. CASE Reset
  BY <1>5, ResetKeepsInv
<1>6. CASE UNCHANGED vars
  <2>1. TypeOK'
    BY <1>6 DEF vars, Inv, TypeOK, sram
  <2> QED BY <1>6, <2>1, QuietStepKeepsInv DEF vars
<1> QED BY <1>1, <1>2, <1>3, <1>4, <1>5, <1>6 DEF Next

\* Every behaviour of the component keeps Inv.
THEOREM Invariance == Spec => []Inv
BY InitInv, NextKeepsInv, PTL DEF Spec

\* No cursor, counter or line position leaves its range, whatever the sizes of
\* the buffers: every mask and every bound of the code is where it must be.
THEOREM TypeCorrect == Spec => []TypeOK
<1>1. Inv => TypeOK
  BY DEF Inv
<1> QED BY <1>1, Invariance, PTL

\* m_eventBufferInUse excludes: never are two contexts, among the main loop
\* and any number of nested interrupt handlers, inside the event buffer.
THEOREM Exclusion == Spec => []BufferExclusive
<1>1. Inv => BufferExclusive
  BY DEF Inv
<1> QED BY <1>1, Invariance, PTL

\* Only a handler that interrupted the holder is ever refused: what the main
\* loop reports outside of an interrupt always reaches the buffer's code.
THEOREM Refusals == Spec => []OnlyInterruptersRefused
<1>1. Inv => OnlyInterruptersRefused
  BY DEF Inv
<1> QED BY <1>1, Invariance, PTL

\* No sequence of console writes, flushes and failures overruns m_lineBuffer.
THEOREM LineBuffer == Spec => []LineBufferInBounds
<1>1. Inv => LineBufferInBounds
  BY DEF Inv
<1> QED BY <1>1, Invariance, PTL

-----------------------------------------------------------------------------
(***************************************************************************)
(* What becomes of the characters of a console write.                      *)
(***************************************************************************)
FlushLabels == {"flush", "flushed", "place", "evict", "full", "fill", "write",
                "publish"}
RestLabels == {"idle", "runAcquire", "runCursor", "runMode", "runRelease",
               "runCommand"}

\* What a context with these locals has done of its write where it is: nothing
\* counted before it is over; a flush before the first character, or after one.
Accounted(l, at) ==
  /\ at \in RestLabels => l.written = 0 /\ l.counted = 0
  /\ l.op \in {"char", "string"} =>
       /\ l.length >= 1 /\ (l.op = "char" => l.length = 1)
       /\ at \in FlushLabels \cup {"store"} =>
            l.counted = 0 /\ l.at \in {"prepare", "loop"}
       /\ at = "store" => l.written < l.length
       /\ at \in FlushLabels =>
            IF l.at = "prepare" THEN l.written = 0
            ELSE l.written >= 1 /\ l.written <= l.length
       /\ at \in {"release", "announce", "return"} =>
            l.written + l.counted >= l.length

Accounts == \A c \in Contexts : Accounted(loc[c], pc[c])

\* Only the account of the context that steps may change.
LEMMA StepKeepsAccounts ==
  ASSUME Inv, Accounts, NEW c \in Contexts, NEW l, NEW m, Goto(c, l),
         Local(c, m) \/ (loc' = loc /\ m = loc[c]), Accounted(m, l)
  PROVE  Accounts'
<1>1. pc'[c] = l /\ \A d \in Contexts : d # c => pc'[d] = pc[d]
  BY DEF Inv, TypeOK, Goto
<1>2. loc'[c] = m /\ \A d \in Contexts : d # c => loc'[d] = loc[d]
  BY DEF Inv, TypeOK, Local
<1> QED
  BY <1>1, <1>2 DEF Accounts

\* A step of the flush that leaves the write's locals alone.
LEMMA FlushKeepsAccount ==
  ASSUME NEW m, NEW n, NEW a \in FlushLabels, NEW b \in FlushLabels,
         Accounted(m, a), n.op = m.op, n.length = m.length, n.written = m.written,
         n.counted = m.counted, n.at = m.at
  PROVE  Accounted(n, b)
BY DEF Accounted, FlushLabels, RestLabels

\* What is neither at rest nor of a console write has no account.
LEMMA OthersNotAccounted ==
  ASSUME NEW m, NEW a, a \notin RestLabels, m.op \notin {"char", "string"}
  PROVE  Accounted(m, a)
BY DEF Accounted

\* A log or an explicit flush begins.
LEMMA LogRecvAccounts ==
  ASSUME Inv, Accounts, NEW c \in Contexts, NEW size \in EventSizes,
         NEW fatal \in Fatals, LogRecv(c, size, fatal)
  PROVE  Accounts'
<1>1. loc[c] \in Locals
  BY AtRest DEF LogRecv, At
<1>2. PICK l \in {"return", "place"},
           m \in {[loc[c] EXCEPT !.op = "log", !.fatal = fatal, !.out = "counted"],
                  [loc[c] EXCEPT !.op = "log", !.fatal = fatal, !.out = "inUse"],
                  [loc[c] EXCEPT !.op = "log", !.fatal = fatal, !.size = size]} :
        Goto(c, l) /\ Local(c, m)
  BY Zenon DEF LogRecv
<1>3. m.op = "log"
  BY <1>1, <1>2 DEF Locals
<1>4. Accounted(m, l)
  BY <1>2, <1>3, OthersNotAccounted DEF RestLabels
<1> QED
  BY <1>2, <1>4, StepKeepsAccounts

\* An explicit flush writes no characters of its own.
LEMMA FlushConsoleAccounts ==
  ASSUME Inv, Accounts, NEW c \in Contexts, FlushConsole(c)
  PROVE  Accounts'
<1>1. loc[c] \in Locals
  BY AtRest DEF FlushConsole, At
<1>2. PICK l \in {"return", "flush"},
           m \in {[loc[c] EXCEPT !.op = "flush", !.out = "inUse"],
                  [loc[c] EXCEPT !.op = "flush", !.at = "explicit"]} :
        Goto(c, l) /\ Local(c, m)
  BY Zenon DEF FlushConsole
<1>3. m.op = "flush"
  BY <1>1, <1>2 DEF Locals
<1>4. Accounted(m, l)
  BY <1>2, <1>3, OthersNotAccounted DEF RestLabels
<1> QED
  BY <1>2, <1>4, StepKeepsAccounts

\* A write begins with nothing written and nothing counted, or all of it counted.
LEMMA ConsoleWriteAccounts ==
  ASSUME Inv, Accounts, NEW c \in Contexts, NEW op \in {"char", "string"},
         NEW length \in Nat \ {0}, op = "char" => length = 1,
         ConsoleWrite(c, op, length)
  PROVE  Accounts'
<1>1. loc[c] \in Locals /\ pc[c] = "idle"
  BY AtRest DEF ConsoleWrite, At
<1>2. loc[c].written = 0 /\ loc[c].counted = 0
  BY <1>1 DEF Accounts, Accounted, RestLabels
<1>3. CASE inUse = 1
  <2> DEFINE m == [loc[c] EXCEPT !.op = op, !.length = length, !.counted = length,
                                 !.out = "inUse"]
  <2>1. Goto(c, "return") /\ Local(c, m)
    BY <1>3 DEF ConsoleWrite
  <2>2. /\ m.op = op /\ m.length = length /\ m.counted = length
        /\ m.written = 0
    BY <1>1, <1>2 DEF Locals
  <2> HIDE DEF m
  <2>3. Accounted(m, "return")
    BY <2>2 DEF Accounted, RestLabels, FlushLabels
  <2> QED
    BY <2>1, <2>3, StepKeepsAccounts
<1>4. CASE inUse # 1
  <2> DEFINE m == [loc[c] EXCEPT !.op = op, !.length = length, !.at = "prepare"]
             l == IF linePos = LineBufferSize THEN "flush" ELSE "store"
  <2>1. Goto(c, l) /\ Local(c, m)
    BY <1>4 DEF ConsoleWrite
  <2>2. /\ m.op = op /\ m.length = length /\ m.counted = 0 /\ m.written = 0
        /\ m.at = "prepare"
    BY <1>1, <1>2 DEF Locals
  <2>3. l \in {"flush", "store"}
    OBVIOUS
  <2> HIDE DEF m, l
  <2>4. Accounted(m, l)
    BY <2>2, <2>3 DEF Accounted, RestLabels, FlushLabels
  <2> QED
    BY <2>1, <2>4, StepKeepsAccounts
<1> QED
  BY <1>3, <1>4

\* A character is stored, and counts for itself.
LEMMA StoreCharAccounts ==
  ASSUME Inv, Accounts, NEW c \in Contexts, NEW newline \in BOOLEAN,
         StoreChar(c, newline)
  PROVE  Accounts'
<1> DEFINE last == loc[c].written + 1 = loc[c].length
           l == IF newline \/ linePos + 1 = LineBufferSize THEN "flush"
                ELSE IF last THEN "release" ELSE "store"
           m == [loc[c] EXCEPT !.written = @ + 1, !.at = "loop"]
<1>1. Goto(c, l) /\ Local(c, m) /\ pc[c] = "store"
  BY DEF StoreChar, At
<1>2. loc[c] \in Locals /\ Accounted(loc[c], "store")
  BY <1>1 DEF Inv, TypeOK, Accounts
<1>3. /\ m.op = loc[c].op /\ m.length = loc[c].length
      /\ m.counted = loc[c].counted /\ m.written = loc[c].written + 1
      /\ m.at = "loop"
      /\ loc[c].written \in Nat /\ loc[c].length \in Nat
  BY <1>2 DEF Locals
<1>4. l \in {"flush", "release", "store"} /\ (l = "store" => ~ last)
      /\ (l = "release" => last)
  OBVIOUS
<1> HIDE DEF m, l
<1>5. Accounted(m, l)
  BY <1>2, <1>3, <1>4 DEF Accounted, RestLabels, FlushLabels
<1> QED
  BY <1>1, <1>5, StepKeepsAccounts

\* A write that has failed to flush counts what it has not written.
LEMMA FlushedAccounts ==
  ASSUME Inv, Accounts, NEW c \in Contexts, Flushed(c)
  PROVE  Accounts'
<1> DEFINE unwritten ==
             IF loc[c].ok THEN 0
             ELSE IF loc[c].at = "prepare" THEN loc[c].length
             ELSE IF loc[c].op = "string"
               THEN loc[c].length - (loc[c].written - 1)
             ELSE 0
           more == \/ loc[c].at = "prepare"
                   \/ loc[c].at = "loop" /\ loc[c].written < loc[c].length
           refused == loc[c].at = "prepare" /\ ~ loc[c].ok
           l == IF refused THEN "return"
                ELSE IF loc[c].ok /\ more THEN "store" ELSE "release"
           m == [loc[c] EXCEPT !.counted = unwritten, !.ok = FALSE]
<1>1. Goto(c, l) /\ Local(c, m) /\ pc[c] = "flushed"
  BY DEF Flushed, At
<1>2. loc[c] \in Locals /\ Accounted(loc[c], "flushed")
  BY <1>1 DEF Inv, TypeOK, Accounts
<1>3. /\ m.op = loc[c].op /\ m.length = loc[c].length /\ m.counted = unwritten
      /\ m.written = loc[c].written /\ m.at = loc[c].at
      /\ loc[c].written \in Nat /\ loc[c].length \in Nat
  BY <1>2 DEF Locals
<1>4. l \in {"return", "store", "release"}
  OBVIOUS
<1>5. CASE loc[c].op \notin {"char", "string"}
  <2>1. Accounted(m, l)
    BY <1>3, <1>4, <1>5, OthersNotAccounted DEF RestLabels
  <2> QED
    BY <1>1, <2>1, StepKeepsAccounts
<1>6. CASE loc[c].op \in {"char", "string"}
  <2>1. /\ loc[c].length >= 1 /\ (loc[c].op = "char" => loc[c].length = 1)
        /\ loc[c].at \in {"prepare", "loop"}
        /\ IF loc[c].at = "prepare" THEN loc[c].written = 0
           ELSE loc[c].written >= 1 /\ loc[c].written <= loc[c].length
    BY <1>2, <1>6 DEF Accounted, FlushLabels
  <2>2. l = "store" =>
          unwritten = 0 /\ loc[c].written < loc[c].length
    BY <1>3, <2>1
  <2>3. l \in {"return", "release"} => loc[c].written + unwritten >= loc[c].length
    BY <1>3, <1>6, <2>1
  <2> HIDE DEF l, m, unwritten
  <2>4. Accounted(m, l)
    BY <1>3, <1>4, <2>1, <2>2, <2>3 DEF Accounted, RestLabels, FlushLabels
  <2> QED
    BY <1>1, <2>4, StepKeepsAccounts
<1> QED
  BY <1>5, <1>6

\* Where the flush finds room, and the eviction before it, are no concern of the
\* account.
LEMMA FlushStepAccounts ==
  ASSUME Inv, Accounts, NEW c \in Contexts,
         \/ FlushConsoleBuffer(c) \/ Place(c) \/ Evict(c) \/ Evicted(c)
         \/ FillWraparoundRegion(c) \/ WriteRecord(c)
  PROVE  Accounts'
<1>1. ASSUME NEW a \in FlushLabels, NEW b \in FlushLabels, NEW m, pc[c] = a,
             Goto(c, b), Local(c, m), m.op = loc[c].op, m.length = loc[c].length,
             m.written = loc[c].written, m.counted = loc[c].counted,
             m.at = loc[c].at
      PROVE  Accounts'
  <2>1. Accounted(loc[c], a)
    BY <1>1 DEF Accounts
  <2>2. Accounted(m, b)
    BY <1>1, <2>1, FlushKeepsAccount
  <2> QED
    BY <1>1, <2>2, StepKeepsAccounts
<1>2. ASSUME NEW a \in FlushLabels, NEW b \in FlushLabels, pc[c] = a, Goto(c, b),
             loc' = loc
      PROVE  Accounts'
  <2>1. Accounted(loc[c], a)
    BY <1>2 DEF Accounts
  <2>2. Accounted(loc[c], b)
    BY <1>2, <2>1, FlushKeepsAccount
  <2> QED
    BY <1>2, <2>2, StepKeepsAccounts
<1>3. loc[c] \in Locals
  BY DEF Inv, TypeOK
<1>4. CASE FlushConsoleBuffer(c)
  <2>1. PICK b \in {"place", "flushed"},
             m \in {[loc[c] EXCEPT !.size = ConsoleSize(linePos)],
                    [loc[c] EXCEPT !.ok = setup]} :
          Goto(c, b) /\ Local(c, m)
    BY <1>4, Zenon DEF FlushConsoleBuffer
  <2>2. /\ m.op = loc[c].op /\ m.length = loc[c].length /\ m.at = loc[c].at
        /\ m.written = loc[c].written /\ m.counted = loc[c].counted
    BY <1>3, <2>1 DEF Locals
  <2>3. pc[c] = "flush" /\ "flush" \in FlushLabels /\ b \in FlushLabels
    BY <1>4 DEF FlushConsoleBuffer, At, FlushLabels
  <2> QED
    BY <1>1, <2>1, <2>2, <2>3
<1>5. CASE Place(c)
  <2> DEFINE read == IF overwriteMode THEN oldest ELSE readCursor
             place == ItemFitsInBuffer(read, writeCursor, loc[c].size)
             b == IF place.fits THEN IF place.wrap THEN "fill" ELSE "write"
                  ELSE IF overwriteMode THEN "evict" ELSE "full"
             deficit == IF b = "evict" THEN Deficit(writeCursor, loc[c].size)
                                       ELSE 0
             m == [loc[c] EXCEPT !.write = writeCursor, !.place = place,
                                 !.deficit = deficit]
  <2>1. Goto(c, b) /\ Local(c, m) /\ pc[c] = "place"
    BY <1>5 DEF Place, At
  <2>2. b \in FlushLabels /\ "place" \in FlushLabels
    BY DEF FlushLabels
  <2> HIDE DEF b, place, deficit
  <2>3. /\ m.op = loc[c].op /\ m.length = loc[c].length /\ m.at = loc[c].at
        /\ m.written = loc[c].written /\ m.counted = loc[c].counted
    BY <1>3 DEF Locals
  <2> HIDE DEF m
  <2> QED
    BY <1>1, <2>1, <2>2, <2>3
<1>6. CASE Evict(c)
  <2> DEFINE evicted == EvictOldestRecord(loc[c].write)
             m == [loc[c] EXCEPT !.freed = @ + evicted.freed, !.count = @ + 1]
  <2>1. Local(c, m) /\ pc[c] = "evict" /\ pc' = pc
    BY <1>6 DEF Evict, At
  <2>2. Goto(c, "evict")
    BY <2>1 DEF Goto, Inv, TypeOK
  <2> HIDE DEF evicted
  <2>3. /\ m.op = loc[c].op /\ m.length = loc[c].length /\ m.at = loc[c].at
        /\ m.written = loc[c].written /\ m.counted = loc[c].counted
    BY <1>3 DEF Locals
  <2>4. "evict" \in FlushLabels
    BY DEF FlushLabels
  <2> HIDE DEF m
  <2> QED
    BY <1>1, <2>1, <2>2, <2>3, <2>4
<1>7. CASE Evicted(c)
  <2> DEFINE place == ItemFitsInBuffer(oldest, loc[c].write, loc[c].size)
             b == IF place.fits THEN IF place.wrap THEN "fill" ELSE "write"
                  ELSE "full"
             m == [loc[c] EXCEPT !.place = place, !.deficit = 0, !.freed = 0,
                                 !.count = 0]
  <2>1. Goto(c, b) /\ Local(c, m) /\ pc[c] = "evict"
    BY <1>7 DEF Evicted, At
  <2>2. b \in FlushLabels /\ "evict" \in FlushLabels
    BY DEF FlushLabels
  <2> HIDE DEF b, place
  <2>3. /\ m.op = loc[c].op /\ m.length = loc[c].length /\ m.at = loc[c].at
        /\ m.written = loc[c].written /\ m.counted = loc[c].counted
    BY <1>3 DEF Locals
  <2> HIDE DEF m
  <2> QED
    BY <1>1, <2>1, <2>2, <2>3
<1>8. CASE FillWraparoundRegion(c)
  <2>1. Goto(c, "write") /\ loc' = loc /\ pc[c] = "fill"
    BY <1>8 DEF FillWraparoundRegion, At
  <2>2. "fill" \in FlushLabels /\ "write" \in FlushLabels
    BY DEF FlushLabels
  <2> QED
    BY <1>2, <2>1, <2>2
<1>9. CASE WriteRecord(c)
  <2>1. Goto(c, "publish") /\ loc' = loc /\ pc[c] = "write"
    BY <1>9 DEF WriteRecord, At
  <2>2. "publish" \in FlushLabels /\ "write" \in FlushLabels
    BY DEF FlushLabels
  <2> QED
    BY <1>2, <2>1, <2>2
<1> QED
  BY <1>4, <1>5, <1>6, <1>7, <1>8, <1>9

\* The end of a flush, stored or not; a log ends elsewhere.
LEMMA FlushEndAccounts ==
  ASSUME Inv, Accounts, NEW c \in Contexts, Full(c) \/ Publish(c)
  PROVE  Accounts'
<1> DEFINE isLog == loc[c].op = "log"
           b == IF isLog THEN "release" ELSE "flushed"
<1>1. /\ loc[c] \in Locals /\ Goto(c, b) /\ pc[c] \in FlushLabels
      /\ Accounted(loc[c], pc[c])
  BY DEF Inv, TypeOK, Accounts, Full, Publish, At, FlushLabels
<1>2. PICK m : /\ Local(c, m) /\ m.op = loc[c].op /\ m.length = loc[c].length
               /\ m.written = loc[c].written /\ m.counted = loc[c].counted
               /\ m.at = loc[c].at
  <2>1. CASE Full(c)
    <3> DEFINE m == [loc[c] EXCEPT !.out = IF isLog THEN "counted" ELSE @]
    <3>1. Local(c, m)
      BY <2>1 DEF Full
    <3>2. /\ m.op = loc[c].op /\ m.length = loc[c].length /\ m.at = loc[c].at
          /\ m.written = loc[c].written /\ m.counted = loc[c].counted
      BY <1>1 DEF Locals
    <3> QED
      BY <3>1, <3>2
  <2>2. CASE Publish(c)
    <3> DEFINE m == [loc[c] EXCEPT !.out = IF isLog THEN "stored" ELSE @,
                                   !.ok = ~ isLog, !.size = 0, !.write = 0,
                                   !.place = NoFit]
    <3>1. Local(c, m)
      BY <2>2 DEF Publish
    <3>2. /\ m.op = loc[c].op /\ m.length = loc[c].length /\ m.at = loc[c].at
          /\ m.written = loc[c].written /\ m.counted = loc[c].counted
      BY <1>1 DEF Locals
    <3> HIDE DEF m
    <3> QED
      BY <3>1, <3>2
  <2> QED
    BY <2>1, <2>2
<1>3. CASE isLog
  <2>1. m.op \notin {"char", "string"} /\ b \notin RestLabels
    BY <1>2, <1>3 DEF RestLabels
  <2>2. Accounted(m, b)
    BY <2>1, OthersNotAccounted
  <2> QED
    BY <1>1, <1>2, <2>2, StepKeepsAccounts
<1>4. CASE ~ isLog
  <2>1. b \in FlushLabels
    BY <1>4 DEF FlushLabels
  <2>2. Accounted(m, b)
    BY <1>1, <1>2, <2>1, FlushKeepsAccount
  <2> QED
    BY <1>1, <1>2, <2>2, StepKeepsAccounts
<1> QED
  BY <1>3, <1>4

\* A call that is over has its account.
LEMMA ReleaseAccounts ==
  ASSUME Inv, Accounts, NEW c \in Contexts, Release(c) \/ Announce(c) \/ Return(c)
  PROVE  Accounts'
<1>1. CASE Release(c)
  <2>1. PICK b \in {"announce", "return"} : Goto(c, b) /\ loc' = loc
    BY <1>1 DEF Release
  <2>2. Accounted(loc[c], "release")
    BY <1>1 DEF Accounts, Release, At
  <2>3. Accounted(loc[c], b)
    BY <2>1, <2>2 DEF Accounted, RestLabels, FlushLabels
  <2> QED
    BY <2>1, <2>3, StepKeepsAccounts
<1>2. CASE Announce(c)
  <2> DEFINE m == [loc[c] EXCEPT !.out = "announced"]
  <2>1. Goto(c, "return") /\ Local(c, m) /\ pc[c] = "announce"
    BY <1>2 DEF Announce, At
  <2>2. Accounted(loc[c], "announce") /\ loc[c] \in Locals
    BY <2>1 DEF Accounts, Inv, TypeOK
  <2>3. /\ m.op = loc[c].op /\ m.length = loc[c].length /\ m.at = loc[c].at
        /\ m.written = loc[c].written /\ m.counted = loc[c].counted
    BY <2>2 DEF Locals
  <2> HIDE DEF m
  <2>4. Accounted(m, "return")
    BY <2>2, <2>3 DEF Accounted, RestLabels, FlushLabels
  <2> QED
    BY <2>1, <2>4, StepKeepsAccounts
<1>3. CASE Return(c)
  <2>1. Goto(c, "idle") /\ Local(c, NoLocals)
    BY <1>3 DEF Return
  <2>2. Accounted(NoLocals, "idle")
    BY DEF Accounted, NoLocals, RestLabels, FlushLabels
  <2> QED
    BY <2>1, <2>2, StepKeepsAccounts
<1> QED
  BY <1>1, <1>2, <1>3

\* The cycle of the main loop runs between calls.
LEMMA RunAccounts ==
  ASSUME Inv, Accounts, Run
  PROVE  Accounts'
<1>1. loc' = loc /\ Main \in Contexts
  BY ConstantTypes
  DEF Run, RunHandler, RunAcquire, RunHandOverCursor, RunLeaveOverwriteMode,
      RunRelease, CheckCommandBuffer, CommandDone
<1>2. CASE CommandDone
  BY <1>1, <1>2 DEF CommandDone, Accounts
<1>3. CASE ~ CommandDone
  <2>1. pc[Main] \in RestLabels /\ \E b \in RestLabels : Goto(Main, b)
    BY <1>3
    DEF Run, RunHandler, RunAcquire, RunHandOverCursor, RunLeaveOverwriteMode,
        RunRelease, CheckCommandBuffer, At, RestLabels
  <2>2. PICK b \in RestLabels : Goto(Main, b)
    BY <2>1
  <2>3. Accounted(loc[Main], pc[Main])
    BY <1>1 DEF Accounts
  <2>4. Accounted(loc[Main], b)
    BY <2>1, <2>3 DEF Accounted, RestLabels, FlushLabels
  <2> QED
    BY <1>1, <2>2, <2>4, StepKeepsAccounts
<1> QED
  BY <1>2, <1>3

\* At the start and after a reset no call is in progress.
LEMMA AtStartAccounts ==
  /\ Init => Accounts
  /\ Reset => Accounts'
<1>1. Accounted(NoLocals, "idle")
  BY DEF Accounted, NoLocals, RestLabels, FlushLabels
<1> QED
  BY <1>1 DEF Accounts, Init, Reset

\* Every step keeps the accounts.
LEMMA NextKeepsAccounts == ASSUME Inv, Accounts, [Next]_vars PROVE Accounts'
<1>1. CASE Setup \/ Gds \/ UNCHANGED vars
  <2>1. UNCHANGED <<pc, loc>>
    BY <1>1
    DEF Setup, Gds, GdsAttach, GdsRead, GdsAcknowledge, GdsCommand, vars
  <2> QED
    BY <2>1 DEF Accounts
<1>2. ASSUME NEW c \in Contexts, Call(c) PROVE Accounts'
  <2>1. StringLengths \subseteq Nat \ {0} /\ 1 \in Nat \ {0}
    BY ActorsAssumption
  <2>2. CASE \E size \in EventSizes, fatal \in Fatals : LogRecv(c, size, fatal)
    BY <2>2, LogRecvAccounts
  <2>3. CASE ConsoleWrite(c, "char", 1)
    BY <2>1, <2>3, ConsoleWriteAccounts
  <2>4. CASE \E length \in StringLengths : ConsoleWrite(c, "string", length)
    BY <2>1, <2>4, ConsoleWriteAccounts
  <2>5. CASE FlushConsole(c)
    BY <2>5, FlushConsoleAccounts
  <2> QED
    BY <1>2, <2>2, <2>3, <2>4, <2>5 DEF Call
<1>3. ASSUME NEW c \in Contexts, Proceed(c) PROVE Accounts'
  BY <1>3, StoreCharAccounts, FlushedAccounts, FlushStepAccounts, FlushEndAccounts,
     ReleaseAccounts
  DEF Proceed
<1> QED
  BY <1>1, <1>2, <1>3, RunAccounts, AtStartAccounts DEF Next

\* No character is stored past the line buffer, and when writeChar or writeString
\* returns, each of its characters was stored or counted in m_droppedConsoleBytes,
\* whatever became of the flushes and whoever interrupted.
THEOREM ConsoleAccounted == Spec => []ConsoleOutputAccounted
<1>1. Inv /\ Accounts => ConsoleOutputAccounted
  BY DEF Inv, Accounts, Accounted, ConsoleOutputAccounted
<1>2. Spec => [](Inv /\ Accounts)
  BY InitInv, NextKeepsInv, AtStartAccounts, NextKeepsAccounts, PTL DEF Spec
<1> QED
  BY <1>1, <1>2, PTL

-----------------------------------------------------------------------------
(***************************************************************************)
(* The records in the ring.  From the oldest record on, each stride of the *)
(* eviction ends where another begins, and the last at the write cursor.   *)
(* The operators take the words d, the oldest cursor o and the write       *)
(* cursor w as parameters.                                                 *)
(***************************************************************************)
SizeAt(d, b) == SizeOf(d[Rel(b)])
After(d, b) == Forward(b, SizeAt(d, b))

\* The filler behind the record at b.
Skip(d, b, w) ==
  LET after == After(d, b)
  IN  IF /\ Rel(after) > FillerRegionStart
         /\ after # w
         /\ d[Rel(after)].kind = "filler"
      THEN DataSize - Rel(after) ELSE 0

Following(d, b, w) == Forward(After(d, b), Skip(d, b, w))

\* B holds the cursors at which the strides from o to w begin, and w.
Chain(d, o, w, B) ==
  /\ B \subseteq Cursors /\ o \in B /\ w \in B
  /\ \A b \in B : Distance(b, w) <= Distance(o, w)
  /\ \A b \in B \ {w} :
       /\ SizeAt(d, b) >= 1
       /\ SizeAt(d, b) + Skip(d, b, w) <= Distance(b, w)
       /\ Following(d, b, w) \in B

Chained(d, o, w) ==
  /\ Distance(o, w) <= DataSize
  /\ \E B \in SUBSET Cursors : Chain(d, o, w, B)

\* What evictUntilFits must have free for a record of this size at w.
Needed(w, size) ==
  IF size <= DataSize - Rel(w) THEN size ELSE DataSize - Rel(w) + size

WritingLabels == {"fill", "write", "publish"}
PlacingLabels == {"place", "evict"} \cup WritingLabels

\* A record on its way is not empty, and goes inside the buffer.
Placing(l, at) ==
  /\ at # "evict" => l.freed = 0
  /\ at \in PlacingLabels => setup /\ l.size >= 1
  /\ at \in {"evict"} \cup WritingLabels => l.write = writeCursor
  /\ at \in WritingLabels => l.place.addr + l.size <= DataSize

\* The eviction knows what is still to be freed.
Evicting(l, at) ==
  at = "evict" =>
    /\ overwriteMode
    /\ l.deficit - l.freed =
         Needed(writeCursor, l.size) + Distance(oldest, writeCursor) - DataSize

\* In overwrite mode a record is written to where nothing is, filler before it
\* and its header first, and published then.
Writing(l, at) ==
  overwriteMode /\ at \in WritingLabels =>
    /\ l.place = ItemFitsInBuffer(oldest, writeCursor, l.size)
    /\ l.place.fits
    /\ at = "fill" => l.place.wrap
    /\ at \in {"write", "publish"} /\ l.place.wrap =>
         \A i \in Offsets : i >= Rel(writeCursor) => data[i] = Filler
    /\ at = "publish" => /\ data[l.place.addr].kind = "header"
                         /\ data[l.place.addr].size = l.size

\* What is so of a context with these locals where it is.
Underway(l, at) == Placing(l, at) /\ Evicting(l, at) /\ Writing(l, at)

\* The length that checkCommandBuffer does not accept.
CommandTooLong == command # 0 /\ ~ (command + (command % 2) < ComBufferMax)

RingInv ==
  /\ asserted => CommandTooLong
  /\ setup /\ overwriteMode => Chained(data, oldest, writeCursor)
  /\ \A c \in Contexts : Underway(loc[c], pc[c])

-----------------------------------------------------------------------------
(***************************************************************************)
(* Where a record goes.                                                    *)
(***************************************************************************)

\* The ring is twice as large as the buffer, and the filler region is no more than
\* the half of it.
LEMMA RingSizes ==
  /\ DataSize \in Nat /\ MaxRecordSize \in Nat /\ MaxRecordSize >= 1
  /\ 2 * MaxRecordSize <= DataSize
  /\ FillerRegionStart = DataSize - MaxRecordSize
BY ConstantTypes DEF FillerRegionStart

\* What a distance may be.
LEMMA DistanceType ==
  ASSUME NEW a \in Cursors, NEW b \in Cursors
  PROVE  /\ Distance(a, b) \in Nat /\ Distance(a, b) < 2 * DataSize
         /\ Distance(a, b) = 0 <=> a = b
BY RingSizes DEF Distance, Cursors

\* A step forward comes closer by its length.
LEMMA ForwardComesCloser ==
  ASSUME NEW b \in Cursors, NEW w \in Cursors, NEW n \in 0 .. DataSize,
         n <= Distance(b, w)
  PROVE  /\ Forward(b, n) \in Cursors
         /\ Distance(Forward(b, n), w) = Distance(b, w) - n
BY RingSizes DEF Distance, Forward, Cursors

\* When the write cursor goes forward everything behind it is farther away.
LEMMA ForwardGoesAway ==
  ASSUME NEW b \in Cursors, NEW w \in Cursors, NEW n \in 0 .. DataSize,
         Distance(b, w) + n <= DataSize
  PROVE  /\ Forward(w, n) \in Cursors
         /\ Distance(b, Forward(w, n)) = Distance(b, w) + n
BY RingSizes DEF Distance, Forward, Cursors

\* How much a record needs.
LEMMA NeededType ==
  ASSUME NEW w \in Cursors, NEW size \in 1 .. MaxRecordSize
  PROVE  /\ Needed(w, size) \in 1 .. DataSize /\ Needed(w, size) >= size
         /\ Rel(w) \in Nat /\ Rel(w) < DataSize
BY RingSizes DEF Needed, Rel, Cursors

\* itemFitsInBuffer finds room exactly when there is as much as is needed, and the
\* write cursor then goes past what is needed.
LEMMA FitsWhenFree ==
  ASSUME NEW o \in Cursors, NEW w \in Cursors, NEW size \in 1 .. MaxRecordSize,
         Distance(o, w) <= DataSize
  PROVE  LET p == ItemFitsInBuffer(o, w, size)
         IN  /\ p.fits <=> Needed(w, size) + Distance(o, w) <= DataSize
             /\ p.fits => /\ p.wrap <=> size > DataSize - Rel(w)
                          /\ p.addr = IF p.wrap THEN 0 ELSE Rel(w)
                          /\ p.next = Forward(w, Needed(w, size))
<1> DEFINE here == [fits |-> TRUE, addr |-> Rel(w),
                    next |-> Forward(w, size), wrap |-> FALSE]
           atStart == [fits |-> TRUE, addr |-> 0,
                       next |-> IF w > DataSize THEN size ELSE DataSize + size,
                       wrap |-> TRUE]
           beforeEdge == size <= DataSize - Rel(w)
           n == Needed(w, size)
           room == n + Distance(o, w) <= DataSize
           p == ItemFitsInBuffer(o, w, size)
<1>1. p = IF o = w THEN IF beforeEdge THEN here ELSE atStart
          ELSE IF Rel(o) > Rel(w)
            THEN IF size <= Rel(o) - Rel(w) THEN here ELSE NoFit
          ELSE IF Rel(w) > Rel(o)
            THEN IF beforeEdge THEN here
                 ELSE IF size <= Rel(o) THEN atStart ELSE NoFit
          ELSE NoFit
  BY DEF ItemFitsInBuffer
<1>2. /\ beforeEdge => n = size
      /\ ~ beforeEdge => n = DataSize - Rel(w) + size
  BY DEF Needed
<1>3. ~ beforeEdge =>
        (IF w > DataSize THEN size ELSE DataSize + size) = Forward(w, n)
  BY <1>2, RingSizes DEF Forward, Cursors, Rel
<1>4. /\ o = w => room
      /\ Rel(o) > Rel(w) => (room <=> size <= Rel(o) - Rel(w))
      /\ Rel(o) > Rel(w) /\ size <= Rel(o) - Rel(w) => beforeEdge
      /\ Rel(w) > Rel(o) /\ beforeEdge => room
      /\ Rel(w) > Rel(o) /\ ~ beforeEdge => (room <=> size <= Rel(o))
      /\ o # w /\ Rel(o) = Rel(w) => ~ room
  <2>1. o = w => room
    BY <1>2, RingSizes DEF Distance, Cursors, Rel
  <2>2. Rel(o) > Rel(w) => Distance(o, w) = DataSize - (Rel(o) - Rel(w))
    BY RingSizes DEF Distance, Cursors, Rel
  <2>3. Rel(w) > Rel(o) => Distance(o, w) = Rel(w) - Rel(o)
    BY RingSizes DEF Distance, Cursors, Rel
  <2>4. o # w /\ Rel(o) = Rel(w) => Distance(o, w) = DataSize
    BY RingSizes DEF Distance, Cursors, Rel
  <2>5. /\ Rel(o) \in Nat /\ Rel(o) < DataSize /\ Rel(w) \in Nat /\ Rel(w) < DataSize
        /\ n \in 1 .. DataSize
    BY NeededType
  <2> QED
    BY <1>2, <2>1, <2>2, <2>3, <2>4, <2>5, RingSizes
<1>5. /\ here.fits /\ ~ here.wrap /\ here.addr = Rel(w)
      /\ here.next = Forward(w, size)
      /\ atStart.fits /\ atStart.wrap /\ atStart.addr = 0
      /\ atStart.next = IF w > DataSize THEN size ELSE DataSize + size
      /\ ~ NoFit.fits
  BY DEF NoFit
<1>6. Rel(o) \in Nat /\ Rel(w) \in Nat
  BY NeededType
<1>7. /\ (p = here /\ room /\ beforeEdge) \/ (p = atStart /\ room /\ ~ beforeEdge)
           \/ (p = NoFit /\ ~ room)
  <2> HIDE DEF here, atStart, room, p
  <2> QED
    BY <1>1, <1>4, <1>6, RingSizes
<1>8. beforeEdge <=> ~ (size > DataSize - Rel(w))
  BY <1>6, RingSizes
<1> HIDE DEF here, atStart, room, p, n, beforeEdge
<1>9. CASE p = here /\ room /\ beforeEdge
  BY <1>2, <1>5, <1>8, <1>9 DEF p, room, n
<1>10. CASE p = atStart /\ room /\ ~ beforeEdge
  BY <1>3, <1>5, <1>8, <1>10 DEF p, room, n
<1>11. CASE p = NoFit /\ ~ room
  BY <1>5, <1>11 DEF p, room, n
<1> QED
  BY <1>7, <1>9, <1>10, <1>11

\* A record goes inside the buffer, whatever cursor the GDS has written.
LEMMA PlaceIsInside ==
  ASSUME NEW read \in Cursors, NEW w \in Cursors, NEW size \in 1 .. MaxRecordSize,
         ItemFitsInBuffer(read, w, size).fits
  PROVE  ItemFitsInBuffer(read, w, size).addr + size <= DataSize
<1> DEFINE here == [fits |-> TRUE, addr |-> Rel(w),
                    next |-> Forward(w, size), wrap |-> FALSE]
           atStart == [fits |-> TRUE, addr |-> 0,
                       next |-> IF w > DataSize THEN size ELSE DataSize + size,
                       wrap |-> TRUE]
           p == ItemFitsInBuffer(read, w, size)
<1>1. /\ Rel(w) \in Nat /\ Rel(w) < DataSize
      /\ Rel(read) \in Nat /\ Rel(read) < DataSize
  BY NeededType
<1>2. (p = here /\ size <= DataSize - Rel(w)) \/ p = atStart \/ p = NoFit
  BY <1>1, RingSizes DEF ItemFitsInBuffer
<1>3. here.addr = Rel(w) /\ atStart.addr = 0 /\ ~ NoFit.fits
  BY DEF NoFit
<1> HIDE DEF here, atStart
<1> QED
  BY <1>1, <1>2, <1>3, RingSizes

\* Nothing from the oldest record to the write cursor is where the record goes, or
\* where the filler before it goes.
LEMMA PlaceIsFree ==
  ASSUME NEW o \in Cursors, NEW w \in Cursors, NEW size \in 1 .. MaxRecordSize,
         Distance(o, w) <= DataSize, ItemFitsInBuffer(o, w, size).fits,
         NEW x \in Cursors, x # w, Distance(x, w) <= Distance(o, w)
  PROVE  LET p == ItemFitsInBuffer(o, w, size)
         IN  /\ Rel(x) < p.addr \/ Rel(x) >= p.addr + size
             /\ p.wrap => Rel(x) < Rel(w)
<1> DEFINE p == ItemFitsInBuffer(o, w, size)
           a == p.addr
<1>1. /\ Needed(w, size) + Distance(o, w) <= DataSize
      /\ p.wrap <=> size > DataSize - Rel(w)
      /\ a = IF p.wrap THEN 0 ELSE Rel(w)
  BY FitsWhenFree
<1>2. /\ Rel(w) \in Nat /\ Rel(w) < DataSize
      /\ Rel(x) \in Nat /\ Rel(x) < DataSize
  BY NeededType
<1>3. /\ Distance(x, w) >= 1 /\ Distance(x, w) + Needed(w, size) <= DataSize
      /\ Distance(x, w) \in Nat
  <2>1. /\ Distance(x, w) \in Nat /\ Distance(x, w) # 0
        /\ Distance(o, w) \in Nat
    BY DistanceType
  <2>2. Needed(w, size) \in 1 .. DataSize
    BY NeededType
  <2>3. Needed(w, size) + Distance(o, w) <= DataSize
    BY <1>1
  <2> QED
    BY <2>1, <2>2, <2>3, RingSizes
<1>4. \/ Rel(x) < Rel(w) /\ Distance(x, w) = Rel(w) - Rel(x)
      \/ Rel(x) >= Rel(w) /\ Distance(x, w) = DataSize - (Rel(x) - Rel(w))
  BY <1>3, RingSizes DEF Distance, Cursors, Rel
<1>5. /\ p.wrap => Needed(w, size) = DataSize - Rel(w) + size
      /\ ~ p.wrap => Needed(w, size) = size
  BY <1>1, <1>2, RingSizes DEF Needed
<1> HIDE DEF p, a
<1>6. (Rel(x) < a \/ Rel(x) >= a + size) /\ (p.wrap => Rel(x) < Rel(w))
  <2>1. CASE p.wrap
    BY <1>1, <1>2, <1>3, <1>4, <1>5, <2>1, RingSizes
  <2>2. CASE ~ p.wrap
    BY <1>1, <1>2, <1>3, <1>4, <1>5, <2>2, RingSizes
  <2> QED
    BY <2>1, <2>2
<1> QED
  BY <1>6 DEF p, a

-----------------------------------------------------------------------------
(***************************************************************************)
(* What becomes of the chain.                                              *)
(***************************************************************************)

\* What the words of the buffer say of a stride.
LEMMA StrideTypes ==
  ASSUME NEW d \in [Offsets -> Word], NEW b \in Cursors, NEW w \in Cursors
  PROVE  /\ Rel(b) \in Offsets /\ SizeAt(d, b) \in 0 .. MaxRecordSize
         /\ After(d, b) \in Cursors /\ Rel(After(d, b)) \in Offsets
         /\ Skip(d, b, w) \in 0 .. DataSize
<1>1. Rel(b) \in Offsets
  BY RelType
<1>2. SizeAt(d, b) \in 0 .. MaxRecordSize
  BY <1>1, SizeOfType DEF SizeAt
<1>3. SizeAt(d, b) \in 0 .. DataSize
  BY <1>2, RingSizes
<1>4. After(d, b) \in Cursors
  BY <1>3, ForwardType DEF After
<1>5. Rel(After(d, b)) \in Offsets
  BY <1>4, RelType
<1>6. Skip(d, b, w) \in 0 .. DataSize
  BY <1>5, RingSizes DEF Skip, Offsets
<1> QED
  BY <1>1, <1>2, <1>4, <1>5, <1>6

\* A stride that stays behind the write cursor comes closer to it by its length.
LEMMA StrideComesCloser ==
  ASSUME NEW d \in [Offsets -> Word], NEW b \in Cursors, NEW w \in Cursors,
         SizeAt(d, b) + Skip(d, b, w) <= Distance(b, w)
  PROVE  /\ Distance(After(d, b), w) = Distance(b, w) - SizeAt(d, b)
         /\ Following(d, b, w) \in Cursors
         /\ Distance(Following(d, b, w), w)
              = Distance(b, w) - (SizeAt(d, b) + Skip(d, b, w))
<1> DEFINE n == SizeAt(d, b)
           skip == Skip(d, b, w)
<1>1. n \in 0 .. MaxRecordSize /\ skip \in 0 .. DataSize /\ Distance(b, w) \in Nat
      /\ After(d, b) \in Cursors
  BY StrideTypes, DistanceType
<1>2. After(d, b) = Forward(b, n) /\ Following(d, b, w) = Forward(After(d, b), skip)
  BY DEF After, Following
<1>3. n + skip <= Distance(b, w)
  OBVIOUS
<1> HIDE DEF n, skip
<1>4. n \in 0 .. DataSize /\ n <= Distance(b, w)
  BY <1>1, <1>3, RingSizes
<1>5. Distance(After(d, b), w) = Distance(b, w) - n
  BY <1>2, <1>4, ForwardComesCloser
<1>6. skip <= Distance(After(d, b), w)
  BY <1>1, <1>3, <1>4, <1>5
<1>7. /\ Following(d, b, w) \in Cursors
      /\ Distance(Following(d, b, w), w) = Distance(After(d, b), w) - skip
  BY <1>1, <1>2, <1>6, ForwardComesCloser
<1>8. Distance(Following(d, b, w), w) = Distance(b, w) - (n + skip)
  BY <1>1, <1>5, <1>7
<1> QED
  BY <1>5, <1>7, <1>8 DEF n, skip

\* Words that are not in the ring do not matter to it.
LEMMA ChainKept ==
  ASSUME NEW d \in [Offsets -> Word], NEW e \in [Offsets -> Word],
         NEW o \in Cursors, NEW w \in Cursors, Chained(d, o, w),
         \A x \in Cursors :
           x # w /\ Distance(x, w) <= Distance(o, w) => e[Rel(x)] = d[Rel(x)]
  PROVE  Chained(e, o, w)
<1>1. PICK B \in SUBSET Cursors : Chain(d, o, w, B)
  BY DEF Chained
<1>2. ASSUME NEW b \in B \ {w}
      PROVE  /\ SizeAt(e, b) = SizeAt(d, b) /\ Skip(e, b, w) = Skip(d, b, w)
             /\ Following(e, b, w) = Following(d, b, w)
  <2>1. /\ b \in Cursors /\ b # w /\ Distance(b, w) <= Distance(o, w)
        /\ SizeAt(d, b) >= 1
        /\ SizeAt(d, b) + Skip(d, b, w) <= Distance(b, w)
    BY <1>1, <1>2 DEF Chain
  <2>2. SizeAt(e, b) = SizeAt(d, b)
    BY <2>1 DEF SizeAt
  <2>3. After(e, b) = After(d, b)
    BY <2>2 DEF After
  <2>4. /\ After(d, b) \in Cursors
        /\ Distance(After(d, b), w) = Distance(b, w) - SizeAt(d, b)
        /\ SizeAt(d, b) \in Nat
    BY <2>1, StrideTypes, StrideComesCloser
  <2>5. Distance(After(d, b), w) <= Distance(o, w)
    BY <2>1, <2>4, DistanceType
  <2>6. After(d, b) # w => e[Rel(After(d, b))] = d[Rel(After(d, b))]
    BY <2>4, <2>5
  <2>7. Skip(e, b, w) = Skip(d, b, w)
    BY <2>3, <2>6 DEF Skip
  <2> QED
    BY <2>2, <2>3, <2>7 DEF Following
<1>3. Chain(e, o, w, B)
  BY <1>1, <1>2 DEF Chain
<1> QED
  BY <1>3 DEF Chained

\* The ring without its oldest record.
LEMMA ChainShrinks ==
  ASSUME NEW d \in [Offsets -> Word], NEW o \in Cursors, NEW w \in Cursors,
         Chained(d, o, w), o # w
  PROVE  /\ Following(d, o, w) \in Cursors /\ Chained(d, Following(d, o, w), w)
         /\ SizeAt(d, o) + Skip(d, o, w) >= 1
         /\ Distance(Following(d, o, w), w)
              = Distance(o, w) - (SizeAt(d, o) + Skip(d, o, w))
         /\ Skip(d, o, w) <= Distance(After(d, o), w)
<1> DEFINE f == Following(d, o, w)
           n == SizeAt(d, o)
           skip == Skip(d, o, w)
<1>1. PICK B \in SUBSET Cursors : Chain(d, o, w, B)
  BY DEF Chained
<1>2. n >= 1 /\ n + skip <= Distance(o, w) /\ f \in B
  BY <1>1 DEF Chain
<1>3. /\ Distance(After(d, o), w) = Distance(o, w) - n
      /\ f \in Cursors /\ Distance(f, w) = Distance(o, w) - (n + skip)
  BY <1>2, StrideComesCloser
<1>4. n \in Nat /\ skip \in Nat /\ Distance(o, w) \in Nat /\ Distance(o, w) <= DataSize
  BY StrideTypes, DistanceType DEF Chained
<1> DEFINE C == {b \in B : Distance(b, w) <= Distance(f, w)}
<1>5. Chain(d, f, w, C)
  <2>1. C \subseteq Cursors /\ f \in C /\ \A b \in C : Distance(b, w) <= Distance(f, w)
    BY <1>2, <1>3, DistanceType
  <2>2. w \in C
    <3>1. w \in B /\ Distance(w, w) = 0 /\ Distance(f, w) \in Nat
      BY <1>1, <1>3, DistanceType DEF Chain
    <3> QED
      BY <3>1
  <2>3. ASSUME NEW b \in C \ {w}
        PROVE  /\ SizeAt(d, b) >= 1
               /\ SizeAt(d, b) + Skip(d, b, w) <= Distance(b, w)
               /\ Following(d, b, w) \in C
    <3>1. /\ SizeAt(d, b) >= 1
          /\ SizeAt(d, b) + Skip(d, b, w) <= Distance(b, w)
          /\ Following(d, b, w) \in B /\ b \in Cursors
      BY <1>1, <2>3 DEF Chain
    <3>2. Distance(Following(d, b, w), w)
            = Distance(b, w) - (SizeAt(d, b) + Skip(d, b, w))
      BY <3>1, StrideComesCloser
    <3>3. /\ SizeAt(d, b) \in Nat /\ Skip(d, b, w) \in Nat
          /\ Distance(b, w) \in Nat /\ Distance(f, w) \in Nat
          /\ Distance(b, w) <= Distance(f, w)
      BY <1>3, <2>3, <3>1, StrideTypes, DistanceType
    <3>4. Distance(Following(d, b, w), w) <= Distance(f, w)
      BY <3>2, <3>3
    <3> QED
      BY <3>1, <3>4
  <2> HIDE DEF C, f
  <2> QED
    BY <2>1, <2>2, <2>3 DEF Chain
<1> HIDE DEF C, f, n, skip
<1>6. /\ n + skip >= 1 /\ skip <= Distance(After(d, o), w)
      /\ Distance(f, w) <= DataSize
  BY <1>2, <1>3, <1>4, RingSizes
<1>7. C \in SUBSET Cursors
  BY <1>5 DEF Chain
<1>8. Chained(d, f, w)
  BY <1>5, <1>6, <1>7 DEF Chained
<1> QED
  BY <1>3, <1>6, <1>8 DEF f, n, skip

\* Two cursors at the same distance are the same.
LEMMA SameDistance ==
  ASSUME NEW a \in Cursors, NEW b \in Cursors, NEW w \in Cursors,
         Distance(a, w) = Distance(b, w)
  PROVE  a = b
BY RingSizes DEF Distance, Cursors

\* The stride that ended at the write cursor, when a record is written behind it:
\* it ends there still, or at the edge when the record has left filler.
LEMMA LastStride ==
  ASSUME NEW d \in [Offsets -> Word], NEW o \in Cursors, NEW w \in Cursors,
         NEW size \in 1 .. MaxRecordSize, Distance(o, w) <= DataSize,
         ItemFitsInBuffer(o, w, size).fits,
         ItemFitsInBuffer(o, w, size).wrap =>
           \A i \in Offsets : i >= Rel(w) => d[i] = Filler,
         d[ItemFitsInBuffer(o, w, size).addr].kind = "header",
         NEW b \in Cursors, After(d, b) = w
  PROVE  LET p == ItemFitsInBuffer(o, w, size)
         IN  Skip(d, b, p.next) = IF p.wrap THEN DataSize - Rel(w) ELSE 0
<1> DEFINE p == ItemFitsInBuffer(o, w, size)
<1>1. /\ p.wrap <=> size > DataSize - Rel(w)
      /\ p.addr = IF p.wrap THEN 0 ELSE Rel(w)
      /\ p.next = Forward(w, Needed(w, size))
  BY FitsWhenFree
<1>2. Needed(w, size) \in 1 .. DataSize /\ Rel(w) \in Nat /\ Rel(w) < DataSize
  BY NeededType
<1>3. w # p.next
  BY <1>1, <1>2, RingSizes DEF Forward, Cursors
<1>4. CASE p.wrap
  <2>1. Rel(w) > FillerRegionStart /\ Rel(w) \in Offsets
    BY <1>1, <1>2, <1>4, RingSizes DEF Offsets
  <2>2. d[Rel(w)] = Filler
    BY <1>2, <1>4, <2>1 DEF p
  <2>3. d[Rel(w)].kind = "filler"
    BY <2>2 DEF Filler
  <2> QED
    BY <1>3, <1>4, <2>1, <2>3 DEF Skip, p
<1>5. CASE ~ p.wrap
  <2>1. d[Rel(w)].kind = "header"
    BY <1>1, <1>5 DEF p
  <2> QED
    BY <1>5, <2>1 DEF Skip, p
<1> QED
  BY <1>4, <1>5

\* The stride at the old write cursor is the record just written, or the filler
\* before it, one word of it and then the rest.
LEMMA StrideAtWriteCursor ==
  ASSUME NEW d \in [Offsets -> Word], NEW o \in Cursors, NEW w \in Cursors,
         NEW size \in 1 .. MaxRecordSize, Distance(o, w) <= DataSize,
         ItemFitsInBuffer(o, w, size).fits,
         ItemFitsInBuffer(o, w, size).wrap =>
           \A i \in Offsets : i >= Rel(w) => d[i] = Filler,
         d[ItemFitsInBuffer(o, w, size).addr].kind = "header",
         d[ItemFitsInBuffer(o, w, size).addr].size = size
  PROVE  LET p == ItemFitsInBuffer(o, w, size)
             skip == Skip(d, w, p.next)
         IN  /\ SizeAt(d, w) >= 1
             /\ SizeAt(d, w) + skip = IF p.wrap THEN DataSize - Rel(w) ELSE size
<1> DEFINE p == ItemFitsInBuffer(o, w, size)
<1>1. /\ p.wrap <=> size > DataSize - Rel(w)
      /\ p.addr = IF p.wrap THEN 0 ELSE Rel(w)
      /\ p.next = Forward(w, Needed(w, size))
  BY FitsWhenFree
<1>2. Needed(w, size) \in 1 .. DataSize /\ Rel(w) \in Nat /\ Rel(w) < DataSize
  BY NeededType
<1>3. CASE p.wrap
  <2>1. SizeAt(d, w) = 1
    <3>1. Rel(w) \in Offsets /\ Rel(w) >= Rel(w)
      BY <1>2, RelType
    <3>2. d[Rel(w)] = Filler
      BY <1>3, <3>1 DEF p
    <3> QED
      BY <3>2 DEF SizeAt, SizeOf, Filler, ConsoleSize
  <2>2. After(d, w) = Forward(w, 1)
    BY <2>1 DEF After
  <2>3. /\ Rel(w) + 1 = DataSize => Rel(Forward(w, 1)) = 0
        /\ Rel(w) + 1 < DataSize => Rel(Forward(w, 1)) = Rel(w) + 1
    BY RingSizes DEF Forward, Rel, Cursors
  <2>4. Needed(w, size) = DataSize - Rel(w) + size
    BY <1>1, <1>2, <1>3, RingSizes DEF Needed
  <2>5. Forward(w, 1) # p.next
    BY <1>1, <1>2, <2>4, RingSizes DEF Forward, Cursors
  <2>6. CASE Rel(w) + 1 = DataSize
    <3>1. ~ (Rel(After(d, w)) > FillerRegionStart)
      BY <2>2, <2>3, <2>6, RingSizes
    <3>2. Skip(d, w, p.next) = 0
      BY <3>1 DEF Skip
    <3> HIDE DEF p
    <3>3. SizeAt(d, w) + Skip(d, w, p.next) = DataSize - Rel(w)
      BY <1>2, <2>1, <2>6, <3>2, RingSizes
    <3> QED
      BY <1>3, <2>1, <3>3 DEF p
  <2>7. CASE Rel(w) + 1 < DataSize
    <3>1. /\ Rel(After(d, w)) = Rel(w) + 1
          /\ Rel(After(d, w)) > FillerRegionStart
          /\ Rel(w) + 1 \in Offsets
      BY <1>1, <1>2, <1>3, <2>2, <2>3, <2>7, RingSizes DEF Offsets
    <3>2. d[Rel(After(d, w))] = Filler
      BY <1>2, <1>3, <3>1 DEF p
    <3>3. d[Rel(After(d, w))].kind = "filler"
      BY <3>2 DEF Filler
    <3>4. Skip(d, w, p.next) = DataSize - (Rel(w) + 1)
      BY <2>2, <2>5, <3>1, <3>3 DEF Skip
    <3> HIDE DEF p
    <3>5. SizeAt(d, w) + Skip(d, w, p.next) = DataSize - Rel(w)
      BY <1>2, <2>1, <3>4, RingSizes
    <3> QED
      BY <1>3, <2>1, <3>5 DEF p
  <2> QED
    BY <1>2, <2>6, <2>7, RingSizes
<1>4. CASE ~ p.wrap
  <2>1. SizeAt(d, w) = size
    BY <1>1, <1>4 DEF SizeAt, SizeOf, p
  <2>2. After(d, w) = p.next
    BY <1>1, <1>2, <1>4, <2>1, RingSizes DEF After, Needed
  <2>3. Skip(d, w, p.next) = 0
    BY <2>2 DEF Skip
  <2> QED
    BY <1>4, <2>1, <2>3 DEF p
<1> QED
  BY <1>3, <1>4

\* The ring with the record that has been written at the write cursor.
LEMMA ChainGrows ==
  ASSUME NEW d \in [Offsets -> Word], NEW o \in Cursors, NEW w \in Cursors,
         NEW size \in 1 .. MaxRecordSize, Chained(d, o, w),
         ItemFitsInBuffer(o, w, size).fits,
         ItemFitsInBuffer(o, w, size).wrap =>
           \A i \in Offsets : i >= Rel(w) => d[i] = Filler,
         d[ItemFitsInBuffer(o, w, size).addr].kind = "header",
         d[ItemFitsInBuffer(o, w, size).addr].size = size
  PROVE  Chained(d, o, ItemFitsInBuffer(o, w, size).next)
<1> DEFINE p == ItemFitsInBuffer(o, w, size)
           v == p.next
           n == Needed(w, size)
           tail == DataSize - Rel(w)
           edge == Forward(w, tail)
<1>1. PICK B \in SUBSET Cursors : Chain(d, o, w, B)
  BY DEF Chained
<1>2. /\ Distance(o, w) <= DataSize /\ Distance(o, w) \in Nat
      /\ w \in B /\ o \in B
  BY <1>1, DistanceType DEF Chained, Chain
<1>3. /\ n + Distance(o, w) <= DataSize
      /\ p.wrap <=> size > tail
      /\ p.addr = IF p.wrap THEN 0 ELSE Rel(w)
      /\ v = Forward(w, n)
  BY <1>2, FitsWhenFree
<1>4. /\ n \in 1 .. DataSize /\ n >= size /\ tail \in 1 .. DataSize
      /\ Rel(w) \in Nat /\ Rel(w) < DataSize
  BY NeededType, RingSizes
<1>5. p.wrap => n = tail + size
  BY <1>3, <1>4, RingSizes DEF Needed
<1>6. ~ p.wrap => n = size
  BY <1>3, <1>4, RingSizes DEF Needed
<1>7. /\ SizeAt(d, w) >= 1
      /\ \A b \in Cursors : SizeAt(d, b) \in 0 .. MaxRecordSize
      /\ \A b \in Cursors : After(d, b) = w =>
           Skip(d, b, v) = IF p.wrap THEN tail ELSE 0
      /\ SizeAt(d, w) + Skip(d, w, v) = IF p.wrap THEN tail ELSE size
      /\ \A b \in Cursors : Skip(d, b, v) \in 0 .. DataSize
  <2>1. \A b \in Cursors : After(d, b) = w =>
          Skip(d, b, v) = IF p.wrap THEN tail ELSE 0
    BY <1>2, LastStride
  <2>2. /\ SizeAt(d, w) >= 1
        /\ SizeAt(d, w) + Skip(d, w, v) = IF p.wrap THEN tail ELSE size
    BY <1>2, StrideAtWriteCursor
  <2>3. v \in Cursors
    BY <1>2, <1>3, <1>4, ForwardGoesAway
  <2>4. \A b \in Cursors : /\ SizeAt(d, b) \in 0 .. MaxRecordSize
                           /\ Skip(d, b, v) \in 0 .. DataSize
    BY <2>3, StrideTypes
  <2> QED
    BY <2>1, <2>2, <2>4
<1>8. /\ p.wrap => d[0].kind = "header" /\ d[0].size = size
      /\ p.wrap \in BOOLEAN
  <2>1. size \in 0 .. MaxRecordSize
    BY RingSizes
  <2>2. p \in Places
    BY <2>1, ItemFitsType
  <2>3. d[p.addr].kind = "header" /\ d[p.addr].size = size
    OBVIOUS
  <2> HIDE DEF p
  <2>4. p.wrap \in BOOLEAN
    BY <2>2 DEF Places
  <2>5. p.wrap => p.addr = 0
    BY <1>3
  <2> QED
    BY <2>3, <2>4, <2>5
<1> HIDE DEF p, v, n, tail
<1>9. \A b \in Cursors : Distance(b, w) <= Distance(o, w) =>
        /\ Distance(b, v) = Distance(b, w) + n
        /\ Distance(b, v) <= Distance(o, v)
        /\ Distance(b, v) >= 1
  <2>1. ASSUME NEW b \in Cursors, Distance(b, w) <= Distance(o, w)
        PROVE  Distance(b, v) = Distance(b, w) + n /\ Distance(b, w) \in Nat
    <3>1. Distance(b, w) \in Nat
      BY DistanceType
    <3>2. n \in 0 .. DataSize /\ Distance(b, w) + n <= DataSize
      BY <1>2, <1>3, <1>4, <2>1, <3>1, RingSizes
    <3> QED
      BY <1>3, <3>1, <3>2, ForwardGoesAway
  <2>2. Distance(o, v) = Distance(o, w) + n
    BY <1>2, <2>1
  <2> QED
    BY <1>2, <1>4, <2>1, <2>2
<1>10. /\ v \in Cursors /\ edge \in Cursors
       /\ Distance(v, v) = 0 /\ Distance(w, v) = n
       /\ p.wrap => Distance(edge, v) = size
  <2>1. v \in Cursors
    BY <1>2, <1>3, <1>4, ForwardGoesAway
  <2>2. edge \in Cursors
    BY <1>4, ForwardType, RingSizes
  <2>3. Distance(v, v) = 0 /\ Distance(w, w) = 0
    BY <2>1, DistanceType
  <2>4. Distance(w, v) = n
    BY <1>2, <1>4, <1>9, <2>3
  <2>5. p.wrap => tail \in 0 .. DataSize /\ tail <= Distance(w, v)
    BY <1>4, <1>5, <2>4, RingSizes
  <2>6. p.wrap => Distance(edge, v) = n - tail
    BY <2>1, <2>4, <2>5, ForwardComesCloser
  <2> QED
    BY <1>4, <1>5, <2>1, <2>2, <2>3, <2>4, <2>6, RingSizes
<1> DEFINE C == B \cup {v} \cup (IF p.wrap THEN {edge} ELSE {})
<1>11. /\ C \in SUBSET Cursors /\ o \in C /\ v \in C
       /\ \A b \in C : Distance(b, v) <= Distance(o, v)
  <2>1. C \in SUBSET Cursors /\ o \in C /\ v \in C
    BY <1>2, <1>10
  <2>2. \A b \in B : Distance(b, v) <= Distance(o, v)
    BY <1>1, <1>9 DEF Chain
  <2>3. Distance(o, v) = Distance(o, w) + n
    BY <1>2, <1>9
  <2>4. /\ Distance(v, v) <= Distance(o, v)
        /\ p.wrap => Distance(edge, v) <= Distance(o, v)
    BY <1>2, <1>4, <1>10, <2>3, RingSizes
  <2> QED
    BY <2>1, <2>2, <2>4
<1>12. ASSUME NEW b \in B \ {w}
       PROVE  /\ SizeAt(d, b) >= 1
              /\ SizeAt(d, b) + Skip(d, b, v) <= Distance(b, v)
              /\ Following(d, b, v) \in C
  <2>1. /\ b \in Cursors /\ SizeAt(d, b) >= 1
        /\ SizeAt(d, b) + Skip(d, b, w) <= Distance(b, w)
        /\ Following(d, b, w) \in B
        /\ Distance(b, w) <= Distance(o, w)
    BY <1>1, <1>12 DEF Chain
  <2>2. /\ After(d, b) \in Cursors
        /\ Distance(After(d, b), w) = Distance(b, w) - SizeAt(d, b)
        /\ SizeAt(d, b) \in Nat /\ Skip(d, b, w) \in Nat /\ Distance(b, w) \in Nat
    BY <2>1, StrideTypes, StrideComesCloser, DistanceType
  <2>3. Distance(After(d, b), w) <= Distance(o, w)
    BY <1>2, <2>1, <2>2
  <2>4. After(d, b) # v
    BY <1>9, <1>10, <2>2, <2>3
  <2>5. Distance(b, v) = Distance(b, w) + n
    BY <1>9, <2>1
  <2>6. CASE After(d, b) = w
    <3>1. SizeAt(d, b) = Distance(b, w)
      BY <2>2, <2>6, DistanceType
    <3>2. Skip(d, b, v) = IF p.wrap THEN tail ELSE 0
      BY <1>7, <2>1, <2>6
    <3>3. SizeAt(d, b) + Skip(d, b, v) <= Distance(b, v)
      BY <1>4, <1>5, <2>2, <2>5, <3>1, <3>2, RingSizes
    <3>4. Following(d, b, v) = IF p.wrap THEN edge ELSE w
      BY <2>6, <3>2, RingSizes DEF Following, Forward, Cursors
    <3> QED
      BY <1>2, <2>1, <3>3, <3>4
  <2>7. CASE After(d, b) # w
    <3>1. Skip(d, b, v) = Skip(d, b, w)
      BY <2>4, <2>7 DEF Skip
    <3>2. SizeAt(d, b) + Skip(d, b, v) <= Distance(b, v)
      BY <1>4, <2>1, <2>2, <2>5, <3>1
    <3> QED
      BY <2>1, <3>1, <3>2 DEF Following
  <2> QED
    BY <2>6, <2>7
<1>13. /\ SizeAt(d, w) >= 1
       /\ SizeAt(d, w) + Skip(d, w, v) <= Distance(w, v)
       /\ Following(d, w, v) \in C
  <2>1. SizeAt(d, w) + Skip(d, w, v) <= Distance(w, v)
    BY <1>4, <1>5, <1>6, <1>7, <1>10, RingSizes
  <2>2. /\ Following(d, w, v) \in Cursors
        /\ Distance(Following(d, w, v), v)
             = Distance(w, v) - (SizeAt(d, w) + Skip(d, w, v))
    BY <1>10, <2>1, StrideComesCloser
  <2>3. CASE p.wrap
    <3>1. Distance(Following(d, w, v), v) = size
      BY <1>4, <1>5, <1>7, <1>10, <2>2, <2>3, RingSizes
    <3>2. Following(d, w, v) = edge
      BY <1>10, <2>2, <2>3, <3>1, SameDistance
    <3> QED
      BY <1>7, <2>1, <2>3, <3>2
  <2>4. CASE ~ p.wrap
    <3>1. Distance(Following(d, w, v), v) = 0
      BY <1>4, <1>6, <1>7, <1>10, <2>2, <2>4, RingSizes
    <3>2. Following(d, w, v) = v
      BY <1>10, <2>2, <3>1, DistanceType
    <3> QED
      BY <1>7, <2>1, <3>2
  <2> QED
    BY <2>3, <2>4
<1>14. ASSUME p.wrap
       PROVE  /\ SizeAt(d, edge) >= 1
              /\ SizeAt(d, edge) + Skip(d, edge, v) <= Distance(edge, v)
              /\ Following(d, edge, v) \in C
  <2>1. Rel(edge) = 0
    BY RingSizes DEF Rel, Forward, Cursors, tail
  <2>2. SizeAt(d, edge) = size
    BY <1>8, <1>14, <2>1 DEF SizeAt, SizeOf
  <2>3. /\ After(d, edge) \in Cursors /\ Distance(After(d, edge), v) = 0
    <3>1. size \in 0 .. DataSize /\ size <= Distance(edge, v)
      BY <1>10, <1>14, RingSizes
    <3>2. /\ Forward(edge, size) \in Cursors
          /\ Distance(Forward(edge, size), v) = Distance(edge, v) - size
      BY <1>10, <3>1, ForwardComesCloser
    <3> QED
      BY <1>10, <1>14, <2>2, <3>2 DEF After
  <2>4. After(d, edge) = v
    BY <1>10, <2>3, DistanceType
  <2>5. Skip(d, edge, v) = 0
    BY <2>4 DEF Skip
  <2>6. Following(d, edge, v) = v
    BY <1>10, <2>4, <2>5, RingSizes DEF Following, Forward, Cursors
  <2> QED
    BY <1>10, <1>14, <2>2, <2>5, <2>6
<1>15. Chain(d, o, v, C)
  <2>1. \A b \in C \ {v} : b \in B \ {w} \/ b = w \/ (p.wrap /\ b = edge)
    OBVIOUS
  <2> HIDE DEF C
  <2>2. \A b \in C \ {v} : /\ SizeAt(d, b) >= 1
                            /\ SizeAt(d, b) + Skip(d, b, v) <= Distance(b, v)
                            /\ Following(d, b, v) \in C
    BY <1>12, <1>13, <1>14, <2>1
  <2> QED
    BY <1>11, <2>2 DEF Chain
<1>16. Distance(o, v) <= DataSize
  BY <1>2, <1>3, <1>4, <1>9, RingSizes
<1> HIDE DEF C
<1>17. Chained(d, o, v)
  BY <1>11, <1>15, <1>16 DEF Chained
<1> QED
  BY <1>17 DEF v, p

-----------------------------------------------------------------------------
(***************************************************************************)
(* Every step keeps the ring. Most steps leave its cursors and its words   *)
(* alone; the others are steps of the context that holds the buffer.       *)
(***************************************************************************)
ring == <<setup, overwriteMode, oldest, data, writeCursor>>

\* A context that places no record.
LEMMA NotPlacing ==
  ASSUME NEW m, NEW l, l \notin PlacingLabels, m.freed = 0
  PROVE  Underway(m, l) /\ Underway(m, l)'
BY DEF Underway, Placing, Evicting, Writing, PlacingLabels, WritingLabels

\* Nobody places a record but who holds the buffer.
LEMMA OthersNotPlacing ==
  ASSUME Inv, RingInv, NEW c \in Contexts, Holds(c), NEW d \in Contexts, d # c
  PROVE  pc[d] \notin PlacingLabels /\ loc[d].freed = 0
<1>1. ~ Holds(d)
  BY DEF Inv, BufferExclusive
<1>2. pc[d] \notin PlacingLabels
  BY <1>1 DEF Holds, HoldingLabels, PlacingLabels, WritingLabels
<1>3. pc[d] # "evict"
  BY <1>2 DEF PlacingLabels
<1> QED
  BY <1>2, <1>3 DEF RingInv, Underway, Placing

\* What is left to show of a step that leaves the ring alone.
LEMMA QuietStepKeepsRing ==
  ASSUME Inv, RingInv, NEW c \in Contexts, NEW l, NEW m, Goto(c, l),
         Local(c, m) \/ (loc' = loc /\ m = loc[c]), Underway(m, l),
         UNCHANGED ring, asserted' => CommandTooLong'
  PROVE  RingInv'
<1>1. pc'[c] = l /\ \A d \in Contexts : d # c => pc'[d] = pc[d]
  BY DEF Inv, TypeOK, Goto
<1>2. loc'[c] = m /\ \A d \in Contexts : d # c => loc'[d] = loc[d]
  BY DEF Inv, TypeOK, Local
<1>3. \A k, a : Underway(k, a)' <=> Underway(k, a)
  BY DEF ring, Underway, Placing, Evicting, Writing
<1>4. \A d \in Contexts : Underway(loc'[d], pc'[d])
  BY <1>1, <1>2 DEF RingInv
<1>5. \A d \in Contexts : Underway(loc[d], pc[d])'
  BY <1>4 DEF ring, Underway, Placing, Evicting, Writing
<1>6. (setup /\ overwriteMode => Chained(data, oldest, writeCursor))'
  BY DEF ring, RingInv
<1> QED
  BY <1>5, <1>6 DEF RingInv

\* What is left to show of a step that changes the ring.
LEMMA HolderKeepsRing ==
  ASSUME Inv, RingInv, NEW c \in Contexts, Holds(c),
         \A d \in Contexts : d # c => pc'[d] = pc[d] /\ loc'[d] = loc[d],
         asserted' => CommandTooLong',
         setup' /\ overwriteMode' => Chained(data', oldest', writeCursor'),
         Underway(loc[c], pc[c])'
  PROVE  RingInv'
<1>1. ASSUME NEW d \in Contexts, d # c PROVE Underway(loc[d], pc[d])'
  <2>1. pc'[d] \notin PlacingLabels /\ loc'[d].freed = 0
    BY <1>1, OthersNotPlacing
  <2> QED
    BY <2>1 DEF Underway, Placing, Evicting, Writing, PlacingLabels, WritingLabels
<1>2. \A d \in Contexts : Underway(loc[d], pc[d])'
  BY <1>1
<1>3. (setup /\ overwriteMode => Chained(data, oldest, writeCursor))'
  BY DEF Chained, Chain, SizeAt, Following, After, Skip
<1> QED
  BY <1>2, <1>3 DEF RingInv

\* The types of what a record on its way is placed with.
LEMMA RecordTypes ==
  ASSUME Inv, RingInv, NEW c \in Contexts, pc[c] \in PlacingLabels
  PROVE  /\ loc[c] \in Locals /\ loc[c].size \in 1 .. MaxRecordSize
         /\ loc[c].place \in Places /\ setup
         /\ oldest \in Cursors /\ writeCursor \in Cursors /\ readCursor \in Cursors
         /\ data \in [Offsets -> Word]
         /\ overwriteMode => /\ Chained(data, oldest, writeCursor)
                             /\ Distance(oldest, writeCursor) <= DataSize
<1>1. loc[c] \in Locals
  BY DEF Inv, TypeOK
<1>2. loc[c].size >= 1 /\ setup
  BY DEF RingInv, Underway, Placing
<1>3. loc[c].size \in 0 .. MaxRecordSize /\ loc[c].place \in Places
  BY <1>1 DEF Locals
<1>4. loc[c].size \in 1 .. MaxRecordSize
  BY <1>2, <1>3, RingSizes
<1> QED
  BY <1>1, <1>2, <1>3, <1>4 DEF Inv, TypeOK, RingInv, Chained

-----------------------------------------------------------------------------
(***************************************************************************)
(* The steps that leave the ring alone.                                    *)
(***************************************************************************)

\* A record, or a flush, begins.
LEMMA LogRecvKeepsRing ==
  ASSUME Inv, RingInv, NEW c \in Contexts, NEW size \in EventSizes,
         NEW fatal \in Fatals, LogRecv(c, size, fatal)
  PROVE  RingInv'
<1>1. /\ loc[c] \in Locals /\ loc[c].freed = 0 /\ ~ asserted' /\ UNCHANGED ring
      /\ size >= 1
  BY AtRest, SizesAssumption
  DEF LogRecv, At, Executes, ring, sram, RingInv, Underway, Placing
<1>2. CASE Goto(c, "return")
  <2>1. PICK m \in {[loc[c] EXCEPT !.op = "log", !.fatal = fatal, !.out = "counted"],
                    [loc[c] EXCEPT !.op = "log", !.fatal = fatal, !.out = "inUse"],
                    [loc[c] EXCEPT !.op = "log", !.fatal = fatal, !.size = size]} :
          Local(c, m)
    BY Zenon DEF LogRecv
  <2>2. m.freed = 0
    BY <1>1, <2>1 DEF Locals
  <2>3. Underway(m, "return")
    BY <2>2, NotPlacing DEF PlacingLabels, WritingLabels
  <2> QED
    BY <1>1, <1>2, <2>1, <2>3, QuietStepKeepsRing
<1>3. CASE ~ Goto(c, "return")
  <2> DEFINE m == [loc[c] EXCEPT !.op = "log", !.fatal = fatal, !.size = size]
  <2>1. Goto(c, "place") /\ Local(c, m) /\ setup
    BY <1>3, Zenon DEF LogRecv
  <2>2. m.freed = 0 /\ m.size = size
    BY <1>1 DEF Locals
  <2> HIDE DEF m
  <2>3. Underway(m, "place")
    BY <1>1, <2>1, <2>2 DEF Underway, Placing, Evicting, Writing, WritingLabels
  <2> QED
    BY <1>1, <2>1, <2>3, QuietStepKeepsRing
<1> QED
  BY <1>2, <1>3

\* The flush of a line that is not empty places a record that is not empty.
LEMMA FlushConsoleBufferKeepsRing ==
  ASSUME Inv, RingInv, NEW c \in Contexts, FlushConsoleBuffer(c)
  PROVE  RingInv'
<1>1. /\ loc[c] \in Locals /\ loc[c].freed = 0 /\ ~ asserted' /\ UNCHANGED ring
  <2>1. pc[c] = "flush" /\ ~ asserted /\ asserted' = asserted /\ UNCHANGED ring
    BY DEF FlushConsoleBuffer, At, Executes, ring, sram
  <2> QED
    BY <2>1 DEF Inv, TypeOK, RingInv, Underway, Placing
<1>2. CASE setup /\ linePos > 0
  <2> DEFINE m == [loc[c] EXCEPT !.size = ConsoleSize(linePos)]
  <2>1. Goto(c, "place") /\ Local(c, m)
    BY <1>2 DEF FlushConsoleBuffer
  <2>2. ConsoleSize(linePos) >= 1
    BY <1>2, ConstantTypes DEF Inv, TypeOK, ConsoleSize
  <2>3. m.freed = 0 /\ m.size = ConsoleSize(linePos)
    BY <1>1 DEF Locals
  <2> HIDE DEF m
  <2>4. Underway(m, "place")
    BY <1>2, <2>2, <2>3 DEF Underway, Placing, Evicting, Writing, WritingLabels
  <2> QED
    BY <1>1, <2>1, <2>4, QuietStepKeepsRing
<1>3. CASE ~ (setup /\ linePos > 0)
  <2> DEFINE m == [loc[c] EXCEPT !.ok = setup]
  <2>1. Goto(c, "flushed") /\ Local(c, m)
    BY <1>3 DEF FlushConsoleBuffer
  <2>2. m.freed = 0
    BY <1>1 DEF Locals
  <2> HIDE DEF m
  <2>3. Underway(m, "flushed")
    BY <2>2, NotPlacing DEF PlacingLabels, WritingLabels
  <2> QED
    BY <1>1, <2>1, <2>3, QuietStepKeepsRing
<1> QED
  BY <1>2, <1>3

\* The steps of a call that place nothing.
LEMMA CallKeepsRing ==
  ASSUME Inv, RingInv, NEW c \in Contexts,
         \/ \E op \in {"char", "string"}, length \in Nat : ConsoleWrite(c, op, length)
         \/ FlushConsole(c)
         \/ \E newline \in BOOLEAN : StoreChar(c, newline)
         \/ Flushed(c) \/ Full(c) \/ Release(c) \/ Announce(c) \/ Return(c)
  PROVE  RingInv'
<1>1. /\ loc[c] \in Locals /\ ~ asserted' /\ UNCHANGED ring /\ pc[c] # "evict"
  <2>1. UNCHANGED <<asserted, ring>>
    BY DEF ConsoleWrite, FlushConsole, StoreChar, Flushed, Full, Release, Announce,
           Return, ring, sram
  <2>2. pc[c] \in {"idle", "store", "flushed", "full", "release", "announce", "return"}
    BY DEF ConsoleWrite, FlushConsole, StoreChar, Flushed, Full, Release, Announce,
           Return, At
  <2>3. ~ asserted
    BY DEF ConsoleWrite, FlushConsole, StoreChar, Flushed, Full, Release, Announce,
           Return, At, Executes
  <2>4. loc[c] \in Locals
    BY DEF Inv, TypeOK
  <2> QED
    BY <2>1, <2>2, <2>3, <2>4
<1>2. loc[c].freed = 0
  BY <1>1 DEF RingInv, Underway, Placing
<1>3. ASSUME NEW m, NEW l, Goto(c, l), Local(c, m) \/ (loc' = loc /\ m = loc[c]),
             m.freed = 0, l \notin PlacingLabels
      PROVE  RingInv'
  <2>1. Underway(m, l)
    BY <1>3, NotPlacing
  <2> QED
    BY <1>1, <1>3, <2>1, QuietStepKeepsRing
<1>4. ASSUME NEW op, NEW length, ConsoleWrite(c, op, length) PROVE RingInv'
  <2>1. PICK l \in {"return", "flush", "store"},
             m \in {[loc[c] EXCEPT !.op = op, !.length = length, !.counted = length,
                                   !.out = "inUse"],
                    [loc[c] EXCEPT !.op = op, !.length = length, !.at = "prepare"]} :
          Goto(c, l) /\ Local(c, m)
    BY <1>4, Zenon DEF ConsoleWrite
  <2>2. m.freed = 0 /\ l \notin PlacingLabels
    BY <1>1, <1>2, <2>1 DEF Locals, PlacingLabels, WritingLabels
  <2> QED
    BY <1>3, <2>1, <2>2
<1>5. CASE FlushConsole(c)
  <2>1. PICK l \in {"return", "flush"},
             m \in {[loc[c] EXCEPT !.op = "flush", !.out = "inUse"],
                    [loc[c] EXCEPT !.op = "flush", !.at = "explicit"]} :
          Goto(c, l) /\ Local(c, m)
    BY <1>5, Zenon DEF FlushConsole
  <2>2. m.freed = 0 /\ l \notin PlacingLabels
    BY <1>1, <1>2, <2>1 DEF Locals, PlacingLabels, WritingLabels
  <2> QED
    BY <1>3, <2>1, <2>2
<1>6. ASSUME NEW newline \in BOOLEAN, StoreChar(c, newline) PROVE RingInv'
  <2> DEFINE m == [loc[c] EXCEPT !.written = @ + 1, !.at = "loop"]
  <2>1. PICK l \in {"flush", "release", "store"} : Goto(c, l)
    BY <1>6 DEF StoreChar
  <2>2. Local(c, m)
    BY <1>6 DEF StoreChar
  <2>3. m.freed = 0 /\ l \notin PlacingLabels
    BY <1>1, <1>2, <2>1 DEF Locals, PlacingLabels, WritingLabels
  <2> QED
    BY <1>3, <2>1, <2>2, <2>3
<1>7. CASE Flushed(c)
  <2>1. PICK l \in {"return", "release", "store"} : Goto(c, l)
    BY <1>7 DEF Flushed
  <2>2. PICK n : Local(c, [loc[c] EXCEPT !.counted = n, !.ok = FALSE])
    BY <1>7 DEF Flushed
  <2> DEFINE m == [loc[c] EXCEPT !.counted = n, !.ok = FALSE]
  <2>3. m.freed = 0 /\ l \notin PlacingLabels
    BY <1>1, <1>2, <2>1 DEF Locals, PlacingLabels, WritingLabels
  <2> QED
    BY <1>3, <2>1, <2>2, <2>3
<1>8. CASE Full(c)
  <2>1. PICK l \in {"release", "flushed"} : Goto(c, l)
    BY <1>8 DEF Full
  <2> DEFINE m == [loc[c] EXCEPT !.out = IF loc[c].op = "log" THEN "counted" ELSE @]
  <2>2. Local(c, m)
    BY <1>8 DEF Full
  <2>3. m.freed = 0 /\ l \notin PlacingLabels
    BY <1>1, <1>2, <2>1 DEF Locals, PlacingLabels, WritingLabels
  <2> QED
    BY <1>3, <2>1, <2>2, <2>3
<1>9. CASE Release(c)
  <2>1. PICK l \in {"announce", "return"} : Goto(c, l) /\ loc' = loc
    BY <1>9 DEF Release
  <2>2. l \notin PlacingLabels
    BY <2>1 DEF PlacingLabels, WritingLabels
  <2> QED
    BY <1>2, <1>3, <2>1, <2>2
<1>10. CASE Announce(c)
  <2> DEFINE m == [loc[c] EXCEPT !.out = "announced"]
  <2>1. Goto(c, "return") /\ Local(c, m)
    BY <1>10 DEF Announce
  <2>2. m.freed = 0 /\ "return" \notin PlacingLabels
    BY <1>1, <1>2 DEF Locals, PlacingLabels, WritingLabels
  <2> QED
    BY <1>3, <2>1, <2>2
<1>11. CASE Return(c)
  <2>1. Goto(c, "idle") /\ Local(c, NoLocals)
    BY <1>11 DEF Return
  <2>2. NoLocals.freed = 0 /\ "idle" \notin PlacingLabels
    BY DEF NoLocals, PlacingLabels, WritingLabels
  <2> QED
    BY <1>3, <2>1, <2>2
<1> QED
  BY <1>4, <1>5, <1>6, <1>7, <1>8, <1>9, <1>10, <1>11

\* The record goes where there is room. In overwrite mode the eviction begins when
\* there is none, knowing what it has to free; and the distance that it asserts is
\* that of the chain.
LEMMA PlaceKeepsRing ==
  ASSUME Inv, RingInv, NEW c \in Contexts, Place(c)
  PROVE  RingInv'
<1> DEFINE size == loc[c].size
           read == IF overwriteMode THEN oldest ELSE readCursor
           place == ItemFitsInBuffer(read, writeCursor, size)
           l == IF place.fits THEN IF place.wrap THEN "fill" ELSE "write"
                ELSE IF overwriteMode THEN "evict" ELSE "full"
           deficit == IF l = "evict" THEN Deficit(writeCursor, size) ELSE 0
           m == [loc[c] EXCEPT !.write = writeCursor, !.place = place,
                               !.deficit = deficit]
           span == Distance(oldest, writeCursor)
           n == Needed(writeCursor, size)
<1>1. /\ pc[c] = "place" /\ Goto(c, l) /\ Local(c, m) /\ UNCHANGED ring
      /\ asserted' = ~ (l = "evict" => span <= DataSize)
  BY DEF Place, At, Assert, ring, sram
<1>2. /\ loc[c] \in Locals /\ size \in 1 .. MaxRecordSize /\ setup
      /\ oldest \in Cursors /\ writeCursor \in Cursors /\ readCursor \in Cursors
      /\ overwriteMode => span <= DataSize
  BY <1>1, RecordTypes DEF PlacingLabels
<1>3. loc[c].freed = 0
  BY <1>1 DEF RingInv, Underway, Placing
<1>4. l = "evict" => overwriteMode /\ ~ ItemFitsInBuffer(oldest, writeCursor, size).fits
  OBVIOUS
<1>5. l = "evict" => deficit = n + span - DataSize
  <2>1. overwriteMode => (ItemFitsInBuffer(oldest, writeCursor, size).fits
                           <=> n + span <= DataSize)
    BY <1>2, FitsWhenFree
  <2>2. n \in Nat /\ span \in Nat /\ DataSize \in Nat
    BY <1>2, NeededType, DistanceType, RingSizes
  <2>3. Deficit(writeCursor, size)
          = IF n > DataSize - span THEN n - (DataSize - span) ELSE 0
    BY DEF Deficit, Needed
  <2> HIDE DEF n, span, size, l
  <2> QED
    BY <1>2, <1>4, <2>1, <2>2, <2>3 DEF deficit
<1>6. l \in {"fill", "write"} =>
        /\ place.fits /\ (l = "fill" <=> place.wrap)
        /\ place.addr + size <= DataSize
        /\ overwriteMode => place = ItemFitsInBuffer(oldest, writeCursor, size)
  <2>1. read \in Cursors
    BY <1>2
  <2>2. place.fits => place.addr + size <= DataSize
    BY <1>2, <2>1, PlaceIsInside
  <2> QED
    BY <2>2
<1>7. l \in {"fill", "write", "evict", "full"}
  OBVIOUS
<1>8. ~ asserted'
  BY <1>1, <1>2, <1>4
<1> HIDE DEF place, deficit, l, n, span, size
<1>9. /\ m.freed = 0 /\ m.size = size /\ m.write = writeCursor /\ m.place = place
      /\ m.deficit = deficit
  BY <1>2, <1>3 DEF Locals, size
<1> HIDE DEF m
<1>10. CASE l = "full"
  <2>1. Underway(m, l)
    BY <1>9, <1>10, NotPlacing DEF PlacingLabels, WritingLabels
  <2> QED
    BY <1>1, <1>8, <2>1, QuietStepKeepsRing
<1>11. CASE l = "evict"
  <2>1. Placing(m, l) /\ Writing(m, l)
    BY <1>2, <1>9, <1>11 DEF Placing, Writing, WritingLabels
  <2>2. deficit - 0 = n + span - DataSize
    BY <1>2, <1>5, <1>11, NeededType, DistanceType, RingSizes DEF n, span
  <2>3. Evicting(m, l)
    BY <1>4, <1>9, <1>11, <2>2 DEF Evicting, n, span
  <2> QED
    BY <1>1, <1>8, <2>1, <2>3, QuietStepKeepsRing DEF Underway
<1>12. CASE l \in {"fill", "write"}
  <2>1. Placing(m, l) /\ Evicting(m, l)
    BY <1>2, <1>6, <1>9, <1>12 DEF Placing, Evicting, WritingLabels
  <2>2. Writing(m, l)
    BY <1>6, <1>9, <1>12 DEF Writing, WritingLabels
  <2> QED
    BY <1>1, <1>8, <2>1, <2>2, QuietStepKeepsRing DEF Underway
<1> QED
  BY <1>7, <1>10, <1>11, <1>12

\* When the eviction ends, it is looked again whether there is room.
LEMMA EvictedKeepsRing ==
  ASSUME Inv, RingInv, NEW c \in Contexts, Evicted(c)
  PROVE  RingInv'
<1> DEFINE size == loc[c].size
           place == ItemFitsInBuffer(oldest, loc[c].write, size)
           l == IF place.fits THEN IF place.wrap THEN "fill" ELSE "write"
                ELSE "full"
           m == [loc[c] EXCEPT !.place = place, !.deficit = 0, !.freed = 0,
                               !.count = 0]
<1>1. pc[c] = "evict" /\ Goto(c, l) /\ Local(c, m) /\ UNCHANGED ring /\ ~ asserted'
  BY DEF Evicted, At, Executes, ring, sram
<1>2. /\ loc[c] \in Locals /\ size \in 1 .. MaxRecordSize /\ setup
      /\ oldest \in Cursors /\ writeCursor \in Cursors
  BY <1>1, RecordTypes DEF PlacingLabels
<1>3. loc[c].write = writeCursor
  BY <1>1 DEF RingInv, Underway, Placing
<1>4. place = ItemFitsInBuffer(oldest, writeCursor, size)
  BY <1>3
<1>5. l \in {"fill", "write"} =>
        /\ place.fits /\ (l = "fill" <=> place.wrap)
        /\ place.addr + size <= DataSize
  <2>1. place.fits => place.addr + size <= DataSize
    BY <1>2, <1>4, PlaceIsInside
  <2> QED
    BY <2>1
<1>6. l \in {"fill", "write", "full"}
  OBVIOUS
<1> HIDE DEF place, l, size
<1>7. m.freed = 0 /\ m.size = size /\ m.write = writeCursor /\ m.place = place
  BY <1>2, <1>3 DEF Locals, size
<1> HIDE DEF m
<1>8. CASE l = "full"
  <2>1. Underway(m, l)
    BY <1>7, <1>8, NotPlacing DEF PlacingLabels, WritingLabels
  <2> QED
    BY <1>1, <2>1, QuietStepKeepsRing
<1>9. CASE l \in {"fill", "write"}
  <2>1. Placing(m, l) /\ Evicting(m, l)
    BY <1>2, <1>5, <1>7, <1>9 DEF Placing, Evicting, WritingLabels
  <2>2. Writing(m, l)
    BY <1>4, <1>5, <1>7, <1>9 DEF Writing, WritingLabels
  <2> QED
    BY <1>1, <2>1, <2>2, QuietStepKeepsRing DEF Underway
<1> QED
  BY <1>6, <1>8, <1>9

\* The main loop's own steps place nothing. It never finds the buffer in use, and
\* asserts only that a command fits the buffer that it is copied to.
LEMMA RunKeepsRing ==
  ASSUME Inv, RingInv, Run
  PROVE  RingInv'
<1>1. Main \in Contexts /\ loc' = loc
  BY ConstantTypes
  DEF Run, RunHandler, RunAcquire, RunHandOverCursor, RunLeaveOverwriteMode,
      RunRelease, CheckCommandBuffer, CommandDone
<1>2. ~ asserted
  BY DEF Run, RunHandler, RunAcquire, RunHandOverCursor, RunLeaveOverwriteMode,
         RunRelease, CheckCommandBuffer, CommandDone, At, Executes
<1>3. ASSUME NEW l, l \notin PlacingLabels, pc[Main] # "evict", Goto(Main, l),
             UNCHANGED ring, asserted' => CommandTooLong'
      PROVE  RingInv'
  <2>1. loc[Main].freed = 0
    BY <1>1, <1>3 DEF RingInv, Underway, Placing
  <2>2. Underway(loc[Main], l)
    BY <1>3, <2>1, NotPlacing
  <2> QED
    BY <1>1, <1>3, <2>2, QuietStepKeepsRing
<1>4. CASE RunHandler
  <2>1. PICK l \in {"runAcquire", "runCommand"} : Goto(Main, l)
    BY <1>4 DEF RunHandler
  <2>2. pc[Main] # "evict" /\ UNCHANGED ring /\ ~ asserted'
    BY <1>2, <1>4 DEF RunHandler, At, ring, sram
  <2> QED
    BY <1>3, <2>1, <2>2 DEF PlacingLabels, WritingLabels
<1>5. CASE RunAcquire
  <2>1. /\ pc[Main] = "runAcquire" /\ Executes(Main) /\ Goto(Main, "runCursor")
        /\ UNCHANGED ring
    BY <1>5 DEF RunAcquire, At, ring, sram
  <2>2. inUse = 0
    <3>1. ~ Holds(Main)
      BY <2>1 DEF Holds, HoldingLabels
    <3>2. \A d \in Contexts : ~ (d < Main)
      BY ConstantTypes DEF Main
    <3>3. inUse # 1
      BY <1>1, <2>1, <3>1, <3>2, RefusedBelow DEF Inv
    <3> QED
      BY <3>3 DEF Inv, TypeOK
  <2>3. ~ asserted'
    BY <1>5, <2>2 DEF RunAcquire, Assert
  <2> QED
    BY <1>3, <2>1, <2>3 DEF PlacingLabels, WritingLabels
<1>6. CASE RunHandOverCursor
  <2>1. /\ pc[Main] = "runCursor" /\ Goto(Main, "runMode") /\ UNCHANGED ring
        /\ ~ asserted'
    BY <1>2, <1>6 DEF RunHandOverCursor, At, ring, sram
  <2> QED
    BY <1>3, <2>1 DEF PlacingLabels, WritingLabels
<1>7. CASE RunLeaveOverwriteMode
  <2>1. /\ pc[Main] = "runMode" /\ Goto(Main, "runRelease") /\ ~ asserted'
        /\ overwriteMode' = FALSE
    BY <1>2, <1>7 DEF RunLeaveOverwriteMode, At
  <2>2. Holds(Main)
    BY <2>1 DEF Holds, HoldingLabels
  <2>3. /\ pc'[Main] = "runRelease" /\ loc'[Main].freed = 0
        /\ \A d \in Contexts : d # Main => pc'[d] = pc[d] /\ loc'[d] = loc[d]
    BY <1>1, <2>1 DEF Goto, Inv, TypeOK, RingInv, Underway, Placing
  <2>4. Underway(loc[Main], pc[Main])'
    BY <2>3 DEF Underway, Placing, Evicting, Writing, PlacingLabels, WritingLabels
  <2> QED
    BY <1>1, <2>1, <2>2, <2>3, <2>4, HolderKeepsRing
<1>8. CASE RunRelease
  <2>1. /\ pc[Main] = "runRelease" /\ Goto(Main, "runCommand") /\ UNCHANGED ring
        /\ ~ asserted'
    BY <1>2, <1>8 DEF RunRelease, At, ring, sram
  <2> QED
    BY <1>3, <2>1 DEF PlacingLabels, WritingLabels
<1>9. CASE CheckCommandBuffer
  <2>1. /\ pc[Main] = "runCommand" /\ Goto(Main, "idle") /\ UNCHANGED ring
    BY <1>9 DEF CheckCommandBuffer, At, ring, sram
  <2>2. asserted' => CommandTooLong
    BY <1>9 DEF CheckCommandBuffer, Assert, CommandTooLong
  <2>3. CommandTooLong' <=> CommandTooLong
    BY <1>9 DEF CheckCommandBuffer, CommandTooLong, sram
  <2> QED
    BY <1>3, <2>1, <2>2, <2>3 DEF PlacingLabels, WritingLabels
<1>10. CASE CommandDone
  BY <1>2, <1>10
  DEF CommandDone, RingInv, Underway, Placing, Evicting, Writing, ring
<1> QED
  BY <1>4, <1>5, <1>6, <1>7, <1>8, <1>9, <1>10 DEF Run

\* A command stays in its buffer until the component has freed it.
LEMMA CommandStays ==
  ASSUME Gds \/ UNCHANGED vars, CommandTooLong
  PROVE  CommandTooLong'
BY DEF Gds, GdsAttach, GdsRead, GdsAcknowledge, GdsCommand, CommandTooLong, vars, sram

\* The GDS writes no word of the ring, and neither the oldest nor the write cursor.
LEMMA GdsKeepsRing ==
  ASSUME RingInv, Gds \/ UNCHANGED vars
  PROVE  RingInv'
<1>1. UNCHANGED <<ring, asserted, pc, loc>>
  BY DEF Gds, GdsAttach, GdsRead, GdsAcknowledge, GdsCommand, vars, ring, sram
<1>2. asserted => CommandTooLong
  BY DEF RingInv
<1> QED
  BY <1>1, <1>2, CommandStays DEF RingInv, Underway, Placing, Evicting, Writing, ring

-----------------------------------------------------------------------------
(***************************************************************************)
(* The steps that change the ring.                                         *)
(***************************************************************************)

\* evictOldestRecord is a stride.
LEMMA EvictIsStride ==
  ASSUME NEW w
  PROVE  LET evicted == EvictOldestRecord(w)
         IN  /\ evicted.oldest = Following(data, oldest, w)
             /\ evicted.freed = SizeAt(data, oldest) + Skip(data, oldest, w)
             /\ evicted.sound <=>
                  Skip(data, oldest, w) <= Distance(After(data, oldest), w)
BY DEF EvictOldestRecord, Following, SizeAt, Skip, After

\* While words are still to be freed there is a record to evict; what it frees is
\* what the distance loses, and its filler ends before the write cursor.
LEMMA EvictKeepsRing ==
  ASSUME Inv, RingInv, NEW c \in Contexts, Evict(c)
  PROVE  RingInv'
<1> DEFINE size == loc[c].size
           w == writeCursor
           stride == SizeAt(data, oldest) + Skip(data, oldest, w)
           evicted == EvictOldestRecord(loc[c].write)
           m == [loc[c] EXCEPT !.freed = @ + evicted.freed, !.count = @ + 1]
<1>1. /\ pc[c] = "evict" /\ pc' = pc /\ Local(c, m) /\ oldest' = evicted.oldest
      /\ loc[c].freed < loc[c].deficit /\ asserted' = ~ evicted.sound
      /\ UNCHANGED <<setup, overwriteMode, data, writeCursor>>
  BY DEF Evict, At, Assert, sram
<1>2. /\ loc[c] \in Locals /\ size \in 1 .. MaxRecordSize /\ setup
      /\ oldest \in Cursors /\ w \in Cursors /\ data \in [Offsets -> Word]
  BY <1>1, RecordTypes DEF PlacingLabels
<1>3. /\ loc[c].write = w /\ overwriteMode
      /\ loc[c].deficit - loc[c].freed
           = Needed(w, size) + Distance(oldest, w) - DataSize
  BY <1>1 DEF RingInv, Underway, Placing, Evicting
<1>4. Chained(data, oldest, w)
  BY <1>2, <1>3 DEF RingInv
<1>5. oldest # w
  <2>1. oldest = w => Distance(oldest, w) = 0
    BY <1>2, DistanceType
  <2>2. Needed(w, size) \in 1 .. DataSize
    BY <1>2, NeededType
  <2>3. loc[c].deficit \in Int /\ loc[c].freed \in Nat
    BY <1>2 DEF Locals
  <2> QED
    BY <1>1, <1>3, <2>1, <2>2, <2>3, RingSizes
<1>6. /\ oldest' \in Cursors /\ Chained(data, oldest', w)
      /\ Distance(oldest', w) = Distance(oldest, w) - stride
      /\ ~ asserted' /\ evicted.freed = stride
  <2>1. /\ oldest' = Following(data, oldest, w) /\ evicted.freed = stride
        /\ evicted.sound <=> Skip(data, oldest, w) <= Distance(After(data, oldest), w)
    BY <1>1, <1>3, EvictIsStride
  <2> QED
    BY <1>1, <1>2, <1>4, <1>5, <2>1, ChainShrinks
<1>7. /\ m.freed = loc[c].freed + stride /\ m.deficit = loc[c].deficit
      /\ m.size = size /\ m.write = w
  <2> HIDE DEF evicted
  <2> QED
    BY <1>2, <1>3, <1>6 DEF Locals
<1>8. stride \in Nat
  BY <1>2, StrideTypes
<1> HIDE DEF m, stride, evicted
<1>9. loc'[c] = m /\ \A d \in Contexts : d # c => loc'[d] = loc[d]
  BY <1>1 DEF Local, Inv, TypeOK
<1>10. Placing(loc[c], pc[c])' /\ Writing(loc[c], pc[c])'
  BY <1>1, <1>2, <1>7, <1>9 DEF Placing, Writing, WritingLabels
<1>11. m.deficit - m.freed = Needed(w, size) + Distance(oldest', w) - DataSize
  <2>1. loc[c].deficit \in Int /\ loc[c].freed \in Nat
    BY <1>2 DEF Locals
  <2>2. /\ Distance(oldest, w) \in Nat /\ Distance(oldest', w) \in Nat
        /\ Needed(w, size) \in Nat
    BY <1>2, <1>6, DistanceType, NeededType
  <2> QED
    BY <1>3, <1>6, <1>7, <1>8, <2>1, <2>2, RingSizes, SMTT(40)
<1>12. Evicting(loc[c], pc[c])'
  BY <1>1, <1>3, <1>7, <1>9, <1>11 DEF Evicting
<1>13. Holds(c)
  BY <1>1 DEF Holds, HoldingLabels
<1>14. Chained(data', oldest', writeCursor')
  BY <1>1, <1>6
<1>15. Underway(loc[c], pc[c])'
  BY <1>10, <1>12 DEF Underway
<1> QED
  BY <1>1, <1>6, <1>9, <1>13, <1>14, <1>15, HolderKeepsRing

\* The filler goes where no record is.
LEMMA FillKeepsRing ==
  ASSUME Inv, RingInv, NEW c \in Contexts, FillWraparoundRegion(c)
  PROVE  RingInv'
<1> DEFINE size == loc[c].size
           w == writeCursor
           p == loc[c].place
<1>1. /\ pc[c] = "fill" /\ Goto(c, "write") /\ loc' = loc /\ ~ asserted'
      /\ UNCHANGED <<setup, overwriteMode, oldest, writeCursor>>
      /\ data' = [i \in Offsets |-> IF i >= Rel(loc[c].write) THEN Filler ELSE data[i]]
  BY DEF FillWraparoundRegion, At, Executes
<1>2. /\ loc[c] \in Locals /\ size \in 1 .. MaxRecordSize /\ setup
      /\ oldest \in Cursors /\ w \in Cursors /\ data \in [Offsets -> Word]
      /\ overwriteMode => Chained(data, oldest, w) /\ Distance(oldest, w) <= DataSize
  BY <1>1, RecordTypes DEF PlacingLabels, WritingLabels
<1>3. /\ loc[c].write = w /\ loc[c].freed = 0 /\ size >= 1 /\ p.addr + size <= DataSize
      /\ overwriteMode => /\ p = ItemFitsInBuffer(oldest, w, size)
                          /\ p.fits /\ p.wrap
  BY <1>1 DEF RingInv, Underway, Placing, Writing, PlacingLabels, WritingLabels
<1>4. data' \in [Offsets -> Word]
  <2>1. Filler \in Word
    BY ConstantTypes DEF Filler, Word, Ids
  <2> QED
    BY <1>1, <1>2, <2>1
<1>5. overwriteMode => Chained(data', oldest, w)
  <2>1. ASSUME overwriteMode, NEW x \in Cursors, x # w,
               Distance(x, w) <= Distance(oldest, w)
        PROVE  data'[Rel(x)] = data[Rel(x)]
    <3>1. Rel(x) < Rel(w)
      BY <1>2, <1>3, <2>1, PlaceIsFree
    <3>2. Rel(x) \in Offsets /\ Rel(w) \in Offsets
      BY <1>2, RelType
    <3> QED
      BY <1>1, <1>3, <3>1, <3>2, RingSizes DEF Offsets
  <2> QED
    BY <1>2, <1>4, <2>1, ChainKept
<1>6. /\ pc'[c] = "write" /\ \A d \in Contexts : d # c => pc'[d] = pc[d]
  BY <1>1 DEF Goto, Inv, TypeOK
<1>7. \A i \in Offsets : i >= Rel(w) => data'[i] = Filler
  BY <1>1, <1>3
<1>8. Placing(loc[c], pc[c])' /\ Evicting(loc[c], pc[c])'
  BY <1>1, <1>2, <1>3, <1>6 DEF Placing, Evicting, WritingLabels
<1>9. Writing(loc[c], pc[c])'
  BY <1>1, <1>3, <1>6, <1>7 DEF Writing, WritingLabels
<1>10. Holds(c)
  BY <1>1 DEF Holds, HoldingLabels
<1>11. overwriteMode' => Chained(data', oldest', writeCursor')
  BY <1>1, <1>5
<1>12. Underway(loc[c], pc[c])'
  BY <1>8, <1>9 DEF Underway
<1> QED
  BY <1>1, <1>6, <1>10, <1>11, <1>12, HolderKeepsRing

\* The record goes where no record is, nor the filler before it, and no farther
\* than the end of the buffer.
LEMMA WriteRecordKeepsRing ==
  ASSUME Inv, RingInv, NEW c \in Contexts, WriteRecord(c)
  PROVE  RingInv'
<1> DEFINE size == loc[c].size
           w == writeCursor
           p == loc[c].place
           beyond == p.addr + size
<1>1. /\ pc[c] = "write" /\ Goto(c, "publish") /\ loc' = loc
      /\ UNCHANGED <<setup, overwriteMode, oldest, writeCursor>>
      /\ asserted' = ~ (beyond <= DataSize)
      /\ data' = [i \in Offsets |->
                    IF i = p.addr THEN Header(size, nextId)
                    ELSE IF i > p.addr /\ i < beyond THEN Body(nextId)
                    ELSE data[i]]
  BY DEF WriteRecord, At, Assert
<1>2. /\ loc[c] \in Locals /\ size \in 1 .. MaxRecordSize /\ setup /\ p \in Places
      /\ oldest \in Cursors /\ w \in Cursors /\ data \in [Offsets -> Word]
      /\ overwriteMode => Chained(data, oldest, w) /\ Distance(oldest, w) <= DataSize
  BY <1>1, RecordTypes DEF PlacingLabels, WritingLabels
<1>3. /\ loc[c].write = w /\ loc[c].freed = 0 /\ size >= 1 /\ beyond <= DataSize
      /\ overwriteMode => /\ p = ItemFitsInBuffer(oldest, w, size)
                          /\ p.fits
                          /\ p.wrap =>
                               \A i \in Offsets : i >= Rel(w) => data[i] = Filler
  BY <1>1 DEF RingInv, Underway, Placing, Writing, PlacingLabels, WritingLabels
<1>4. data' \in [Offsets -> Word]
  <2>1. nextId \in Ids /\ size \in 0 .. MaxRecordSize
    BY <1>2, RingSizes DEF Inv, TypeOK
  <2>2. Header(size, nextId) \in Word
    BY <2>1 DEF Header, Word
  <2>3. Body(nextId) \in Word
    BY <2>1, RingSizes DEF Body, Word
  <2> QED
    BY <1>1, <1>2, <2>2, <2>3
<1>5. p.addr \in Offsets
  BY <1>2 DEF Places
<1>6. overwriteMode => Chained(data', oldest, w)
  <2>1. ASSUME overwriteMode, NEW x \in Cursors, x # w,
               Distance(x, w) <= Distance(oldest, w)
        PROVE  data'[Rel(x)] = data[Rel(x)]
    <3>1. Rel(x) < p.addr \/ Rel(x) >= beyond
      BY <1>2, <1>3, <2>1, PlaceIsFree
    <3>2. Rel(x) \in Offsets
      BY RelType
    <3> HIDE DEF p, size
    <3>3. Rel(x) # p.addr /\ ~ (Rel(x) > p.addr /\ Rel(x) < beyond)
      BY <1>2, <1>5, <3>1, <3>2, RingSizes DEF Offsets
    <3> QED
      BY <1>1, <3>2, <3>3
  <2> QED
    BY <1>2, <1>4, <2>1, ChainKept
<1>7. /\ pc'[c] = "publish" /\ \A d \in Contexts : d # c => pc'[d] = pc[d]
  BY <1>1 DEF Goto, Inv, TypeOK
<1>8. data'[p.addr] = Header(size, nextId)
  BY <1>1, <1>5
<1>9. data'[p.addr].kind = "header" /\ data'[p.addr].size = size
  BY <1>8 DEF Header
<1>10. overwriteMode /\ p.wrap => \A i \in Offsets : i >= Rel(w) => data'[i] = Filler
  <2>1. ASSUME overwriteMode, p.wrap PROVE p.addr = 0 /\ size <= Rel(w)
    <3>1. /\ Needed(w, size) + Distance(oldest, w) <= DataSize
          /\ p.addr = 0 /\ size > DataSize - Rel(w)
      BY <1>2, <1>3, <2>1, FitsWhenFree
    <3>2. Distance(oldest, w) \in Nat /\ Rel(w) \in Nat
      BY <1>2, DistanceType, NeededType
    <3>3. Needed(w, size) = DataSize - Rel(w) + size
      BY <1>2, <3>1, <3>2, RingSizes DEF Needed
    <3> QED
      BY <1>2, <3>1, <3>2, <3>3, RingSizes
  <2>2. ASSUME overwriteMode, p.wrap, NEW i \in Offsets, i >= Rel(w)
        PROVE  data'[i] = Filler
    <3>1. i # p.addr /\ ~ (i < beyond)
      BY <1>2, <2>1, <2>2, RelType, RingSizes DEF Offsets
    <3> QED
      BY <1>1, <1>3, <2>2, <3>1
  <2> QED
    BY <2>2
<1>11. Placing(loc[c], pc[c])' /\ Evicting(loc[c], pc[c])'
  BY <1>1, <1>2, <1>3, <1>7 DEF Placing, Evicting, WritingLabels
<1>12. Writing(loc[c], pc[c])'
  BY <1>1, <1>3, <1>7, <1>9, <1>10 DEF Writing, WritingLabels
<1>13. Holds(c) /\ ~ asserted'
  BY <1>1, <1>3 DEF Holds, HoldingLabels
<1>14. overwriteMode' => Chained(data', oldest', writeCursor')
  BY <1>1, <1>6
<1>15. Underway(loc[c], pc[c])'
  BY <1>11, <1>12 DEF Underway
<1> QED
  BY <1>1, <1>7, <1>13, <1>14, <1>15, HolderKeepsRing

\* The new write cursor takes the record into the ring.
LEMMA PublishKeepsRing ==
  ASSUME Inv, RingInv, NEW c \in Contexts, Publish(c)
  PROVE  RingInv'
<1> DEFINE size == loc[c].size
           w == writeCursor
           p == loc[c].place
           isLog == loc[c].op = "log"
           l == IF isLog THEN "release" ELSE "flushed"
           m == [loc[c] EXCEPT !.out = IF isLog THEN "stored" ELSE @,
                               !.ok = ~ isLog, !.size = 0, !.write = 0,
                               !.place = NoFit]
<1>1. /\ pc[c] = "publish" /\ Goto(c, l) /\ Local(c, m) /\ ~ asserted'
      /\ UNCHANGED <<setup, overwriteMode, oldest, data>>
      /\ writeCursor' = p.next
  BY DEF Publish, At, Executes
<1>2. /\ loc[c] \in Locals /\ size \in 1 .. MaxRecordSize /\ setup
      /\ oldest \in Cursors /\ w \in Cursors /\ data \in [Offsets -> Word]
      /\ overwriteMode => Chained(data, oldest, w)
  BY <1>1, RecordTypes DEF PlacingLabels, WritingLabels
<1>3. /\ loc[c].freed = 0
      /\ overwriteMode => /\ p = ItemFitsInBuffer(oldest, w, size)
                          /\ p.fits
                          /\ p.wrap =>
                               \A i \in Offsets : i >= Rel(w) => data[i] = Filler
                          /\ data[p.addr].kind = "header" /\ data[p.addr].size = size
  BY <1>1 DEF RingInv, Underway, Placing, Writing, PlacingLabels, WritingLabels
<1>4. overwriteMode' => Chained(data', oldest', writeCursor')
  BY <1>1, <1>2, <1>3, ChainGrows
<1>5. m.freed = 0 /\ l \in {"release", "flushed"}
  BY <1>2, <1>3 DEF Locals
<1> HIDE DEF m, l
<1>6. /\ pc'[c] = l /\ loc'[c] = m
      /\ \A d \in Contexts : d # c => pc'[d] = pc[d] /\ loc'[d] = loc[d]
  BY <1>1 DEF Goto, Local, Inv, TypeOK
<1>7. Underway(loc[c], pc[c])'
  BY <1>5, <1>6
  DEF Underway, Placing, Evicting, Writing, PlacingLabels, WritingLabels
<1>8. Holds(c)
  BY <1>1 DEF Holds, HoldingLabels
<1> QED
  BY <1>1, <1>4, <1>6, <1>7, <1>8, HolderKeepsRing

\* The empty ring, for the words that SRAM holds from before.
LEMMA EmptyRing ==
  ASSUME NEW d
  PROVE  Chained(d, 0, 0)
<1>1. 0 \in Cursors /\ Distance(0, 0) = 0
  BY RingSizes DEF Cursors, Distance
<1>2. Chain(d, 0, 0, {0})
  BY <1>1 DEF Chain
<1> QED
  BY <1>1, <1>2, RingSizes DEF Chained

\* Setup starts the ring over; nobody is placing a record then.
LEMMA SetupKeepsRing ==
  ASSUME Inv, RingInv, Setup
  PROVE  RingInv'
<1>1. /\ pc[Main] = "idle" /\ Executes(Main) /\ UNCHANGED <<pc, loc, asserted>>
      /\ ~ asserted
      /\ oldest' = 0 /\ writeCursor' = 0
  BY DEF Setup, At, Executes
<1>2. ASSUME NEW c \in Contexts PROVE Underway(loc[c], pc[c])'
  <2>1. pc[c] = "idle"
    BY <1>1, ConstantTypes DEF Executes, Contexts, Main
  <2>2. loc[c].freed = 0
    BY <2>1 DEF RingInv, Underway, Placing
  <2> QED
    BY <1>1, <2>1, <2>2
    DEF Underway, Placing, Evicting, Writing, PlacingLabels, WritingLabels
<1>3. Chained(data', 0, 0)
  BY EmptyRing
<1>4. Chained(data, oldest, writeCursor)'
  BY <1>1, <1>3
<1> QED
  BY <1>1, <1>2, <1>4 DEF RingInv

\* At the start and after a reset nothing is set up.
LEMMA AtStartRing ==
  /\ Init => RingInv
  /\ Reset => RingInv'
<1>1. NoLocals.freed = 0 /\ "idle" \notin PlacingLabels /\ "idle" # "evict"
  BY DEF NoLocals, PlacingLabels, WritingLabels
<1>2. ASSUME Init PROVE RingInv
  <2>1. \A c \in Contexts : Underway(loc[c], pc[c])
    BY <1>1, <1>2, NotPlacing DEF Init
  <2> QED
    BY <1>2, <2>1 DEF Init, RingInv
<1>3. ASSUME Reset PROVE RingInv'
  <2>1. \A c \in Contexts : pc'[c] = "idle" /\ loc'[c] = NoLocals
    BY <1>3 DEF Reset
  <2>2. \A c \in Contexts : Underway(loc[c], pc[c])'
    BY <1>1, <2>1
    DEF Underway, Placing, Evicting, Writing, PlacingLabels, WritingLabels
  <2> QED
    BY <1>3, <2>2 DEF Reset, RingInv
<1> QED
  BY <1>2, <1>3

\* Every step keeps the ring.
LEMMA NextKeepsRing ==
  ASSUME Inv, RingInv, [Next]_vars
  PROVE  RingInv'
<1>1. ASSUME NEW c \in Contexts, Call(c) PROVE RingInv'
  <2>1. StringLengths \subseteq Nat /\ 1 \in Nat
    BY ActorsAssumption
  <2>2. CASE \E size \in EventSizes, fatal \in Fatals : LogRecv(c, size, fatal)
    BY <2>2, LogRecvKeepsRing
  <2>3. CASE ConsoleWrite(c, "char", 1)
    BY <2>1, <2>3, CallKeepsRing
  <2>4. CASE \E length \in StringLengths : ConsoleWrite(c, "string", length)
    BY <2>1, <2>4, CallKeepsRing
  <2>5. CASE FlushConsole(c)
    BY <2>5, CallKeepsRing
  <2> QED
    BY <1>1, <2>2, <2>3, <2>4, <2>5 DEF Call
<1>2. ASSUME NEW c \in Contexts, Proceed(c) PROVE RingInv'
  <2>1. CASE \/ \E newline \in BOOLEAN : StoreChar(c, newline)
             \/ Flushed(c) \/ Full(c) \/ Release(c) \/ Announce(c) \/ Return(c)
    BY <2>1, CallKeepsRing
  <2>2. CASE FlushConsoleBuffer(c) \/ Place(c) \/ Evict(c) \/ Evicted(c)
    BY <2>2, FlushConsoleBufferKeepsRing, PlaceKeepsRing, EvictKeepsRing,
       EvictedKeepsRing
  <2>3. CASE FillWraparoundRegion(c) \/ WriteRecord(c) \/ Publish(c)
    BY <2>3, FillKeepsRing, WriteRecordKeepsRing, PublishKeepsRing
  <2> QED
    BY <1>2, <2>1, <2>2, <2>3 DEF Proceed
<1> QED
  BY <1>1, <1>2, SetupKeepsRing, RunKeepsRing, GdsKeepsRing, AtStartRing DEF Next

\* The invariant behind the two theorems that follow: in overwrite mode the records
\* from the oldest cursor on are strung together up to the write cursor, by strides
\* that are those of evictOldestRecord.
THEOREM RingInvariance == Spec => [](Inv /\ RingInv)
<1>1. Init => Inv /\ RingInv
  BY InitInv, AtStartRing
<1>2. Inv /\ RingInv /\ [Next]_vars => (Inv /\ RingInv)'
  BY NextKeepsInv, NextKeepsRing
<1> QED
  BY <1>1, <1>2, PTL DEF Spec

\* No FW_ASSERT of the component fails: the main loop never finds the buffer in use
\* in Run_handler, eviction never skips filler past the write cursor, and no record
\* is written past the end of the buffer, provided that the GDS sends no command
\* that checkCommandBuffer asserts to be shorter, rounded up to a word.
THEOREM NothingAsserts ==
  ASSUME \A n \in CommandLengths : n + (n % 2) < ComBufferMax
  PROVE  Spec => []NoAssertion
<1>1. Inv /\ RingInv => NoAssertion
  BY DEF RingInv, NoAssertion, CommandTooLong, Inv, TypeOK
<1> QED
  BY <1>1, RingInvariance, PTL

\* The amount that evictUntilFits frees is exact: when the eviction loop has
\* covered its deficit, the record fits.
THEOREM EvictionIsEnough == Spec => []EvictionSuffices
<1>1. ASSUME Inv, RingInv, NEW c \in Contexts, pc[c] = "evict",
             loc[c].freed >= loc[c].deficit
      PROVE  ItemFitsInBuffer(oldest, loc[c].write, loc[c].size).fits
  <2> DEFINE size == loc[c].size
             w == writeCursor
  <2>1. /\ loc[c] \in Locals /\ size \in 1 .. MaxRecordSize /\ setup
        /\ oldest \in Cursors /\ w \in Cursors
        /\ overwriteMode => Distance(oldest, w) <= DataSize
    BY <1>1, RecordTypes DEF PlacingLabels
  <2>2. /\ loc[c].write = w /\ overwriteMode
        /\ loc[c].deficit - loc[c].freed
             = Needed(w, size) + Distance(oldest, w) - DataSize
    BY <1>1 DEF RingInv, Underway, Placing, Evicting
  <2>3. Needed(w, size) + Distance(oldest, w) <= DataSize
    <3>1. loc[c].deficit \in Int /\ loc[c].freed \in Nat
      BY <2>1 DEF Locals
    <3>2. Needed(w, size) \in Nat /\ Distance(oldest, w) \in Nat
      BY <2>1, NeededType, DistanceType
    <3> QED
      BY <1>1, <2>2, <3>1, <3>2, RingSizes
  <2> QED
    BY <2>1, <2>2, <2>3, FitsWhenFree
<1>2. Inv /\ RingInv => EvictionSuffices
  BY <1>1 DEF EvictionSuffices
<1> QED
  BY <1>2, RingInvariance, PTL

-----------------------------------------------------------------------------
(***************************************************************************)
(* The refinement of RecordLog. Where the reader of GdsStreamRefinement    *)
(* starts, in either mode, records and filler follow one another word by   *)
(* word up to the write cursor.                                            *)
(***************************************************************************)
WholeIn(d, offset) ==
  LET header == d[offset]
  IN  /\ header.kind = "header"
      /\ offset + header.size <= DataSize
      /\ \A i \in offset + 1 .. offset + header.size - 1 : d[i] = Body(header.id)

\* The record at b, as the log has it.
RecordAt(d, b) == [size |-> d[Rel(b)].size, id |-> d[Rel(b)].id]

\* Walk, of the words d and the write cursor w.
WalkStep(d, w, f, n) ==
  IF n = 0 THEN <<>>
  ELSE LET offset == Rel(Forward(w, 2 * DataSize - n))
           word == d[offset]
       IN  IF word.kind = "filler" THEN f[n - 1]
           ELSE IF WholeIn(d, offset) /\ word.size \in 1 .. n
             THEN <<[size |-> word.size, id |-> word.id]>> \o f[n - word.size]
           ELSE <<Torn>>

WalkOf(d, w) == CHOOSE f : f = [n \in 0 .. DataSize |-> WalkStep(d, w, f, n)]

LEMMA WalkIs ==
  /\ Walk = WalkOf(data, writeCursor)
  /\ Walk' = WalkOf(data', writeCursor')
<1>1. \A i : WholeIn(data, i) <=> Whole(i)
  BY DEF WholeIn, Whole
<1>2. \A i : WholeIn(data', i) <=> Whole(i)'
  BY DEF WholeIn, Whole
<1>3. Walk = WalkOf(data, writeCursor)
  BY <1>1 DEF Walk, WalkOf, WalkStep
<1>4. Walk' = WalkOf(data', writeCursor')
  BY <1>2 DEF Walk, WalkOf, WalkStep
<1> QED
  BY <1>3, <1>4

\* A set of natural numbers has a least element.
LEMMA LeastNatural ==
  ASSUME NEW T, T \subseteq Nat, T # {}
  PROVE  \E m \in T : \A k \in T : m <= k
<1> DEFINE R == {ss \in Nat \X Nat : ss[1] < ss[2]}
<1>1. IsWellFoundedOn(R, Nat)
  BY NatLessThanWellFounded DEF OpToRel
<1> HIDE DEF R
<1>2. PICK m \in T : \A y \in T : ~ (<<y, m>> \in R)
  BY <1>1, WFMin
<1>3. \A y \in T : ~ (y < m)
  BY <1>2 DEF R
<1> QED
  BY <1>3

\* A step of the walk looks only at what it has found behind.
LEMMA StepLooksBack ==
  ASSUME NEW d, NEW w, NEW f, NEW g, NEW n \in Nat,
         \A k \in Nat : k < n => f[k] = g[k]
  PROVE  WalkStep(d, w, f, n) = WalkStep(d, w, g, n)
<1> DEFINE offset == Rel(Forward(w, 2 * DataSize - n))
           word == d[offset]
<1>1. n # 0 => n - 1 \in Nat /\ n - 1 < n
  OBVIOUS
<1>2. word.size \in 1 .. n => n - word.size \in Nat /\ n - word.size < n
  OBVIOUS
<1>3. /\ n # 0 => f[n - 1] = g[n - 1]
      /\ word.size \in 1 .. n => f[n - word.size] = g[n - word.size]
  BY <1>1, <1>2
<1> HIDE DEF word, offset
<1> QED
  BY <1>3, Zenon DEF WalkStep, word, offset

\* The walk is well defined.
LEMMA WalkDefined ==
  ASSUME NEW d, NEW w
  PROVE  WalkOf(d, w) = [n \in 0 .. DataSize |-> WalkStep(d, w, WalkOf(d, w), n)]
<1> DEFINE Walks(m, f) == f = [n \in 0 .. m |-> WalkStep(d, w, f, n)]
           T == {m \in Nat : ~ \E f : Walks(m, f)}
<1>1. SUFFICES ASSUME T # {} PROVE FALSE
  <2>1. DataSize \in Nat /\ DataSize \notin T
    BY <1>1, RingSizes
  <2>2. \E f : Walks(DataSize, f)
    BY <2>1
  <2> QED
    BY <2>2 DEF WalkOf
<1>2. PICK m \in T : \A k \in T : m <= k
  BY <1>1, LeastNatural
<1>3. m # 0
  <2>1. WalkStep(d, w, <<>>, 0) = <<>>
    BY DEF WalkStep
  <2> DEFINE g == [n \in 0 .. 0 |-> <<>>]
  <2>2. \A n \in 0 .. 0 : WalkStep(d, w, g, n) = <<>>
    BY DEF WalkStep
  <2>3. Walks(0, g)
    BY <2>2
  <2> QED
    BY <2>3
<1>4. m - 1 \in Nat /\ m - 1 \notin T
  BY <1>2, <1>3
<1>5. PICK f : Walks(m - 1, f)
  BY <1>4
<1> DEFINE g == [n \in 0 .. m |-> IF n = m THEN WalkStep(d, w, f, m) ELSE f[n]]
<1>6. \A k \in Nat : k < m => g[k] = f[k]
  BY <1>2
<1>7. ASSUME NEW n \in 0 .. m PROVE g[n] = WalkStep(d, w, g, n)
  <2>1. n \in Nat /\ \A k \in Nat : k < n => g[k] = f[k]
    BY <1>2, <1>6, <1>7
  <2> HIDE DEF g
  <2>2. WalkStep(d, w, g, n) = WalkStep(d, w, f, n)
    BY <2>1, StepLooksBack
  <2>3. CASE n = m
    BY <1>7, <2>2, <2>3 DEF g
  <2>4. CASE n # m
    <3>1. n \in 0 .. m - 1
      BY <1>2, <1>7, <2>4
    <3>2. f[n] = WalkStep(d, w, f, n)
      BY <1>5, <3>1
    <3> QED
      BY <1>7, <2>2, <2>4, <3>2 DEF g
  <2> QED
    BY <2>3, <2>4
<1>8. Walks(m, g)
  BY <1>7
<1> QED
  BY <1>2, <1>8

LEMMA WalkAt ==
  ASSUME NEW d, NEW w, NEW n \in 0 .. DataSize
  PROVE  WalkOf(d, w)[n] = WalkStep(d, w, WalkOf(d, w), n)
<1> DEFINE f == WalkOf(d, w)
<1>1. f = [k \in 0 .. DataSize |-> WalkStep(d, w, f, k)]
  BY WalkDefined
<1> HIDE DEF f
<1>2. f[n] = WalkStep(d, w, f, n)
  BY <1>1, Zenon
<1> QED
  BY <1>2 DEF f

\* What the walk finds from the cursor b on.
Walked(d, b, w) == WalkOf(d, w)[Distance(b, w)]

\* The walk gets from the number of words that are left to the cursor.
LEMMA StepAtCursor ==
  ASSUME NEW b \in Cursors, NEW w \in Cursors
  PROVE  b # w => Forward(w, 2 * DataSize - Distance(b, w)) = b
BY RingSizes DEF Forward, Distance, Cursors

LEMMA WalkedStep ==
  ASSUME NEW d, NEW b \in Cursors, NEW w \in Cursors, b # w,
         Distance(b, w) <= DataSize
  PROVE  Walked(d, b, w) =
           IF d[Rel(b)].kind = "filler" THEN WalkOf(d, w)[Distance(b, w) - 1]
           ELSE IF WholeIn(d, Rel(b)) /\ d[Rel(b)].size \in 1 .. Distance(b, w)
             THEN <<RecordAt(d, b)>> \o WalkOf(d, w)[Distance(b, w) - d[Rel(b)].size]
           ELSE <<Torn>>
<1> DEFINE n == Distance(b, w)
<1>1. n \in 0 .. DataSize /\ n # 0
  BY DistanceType, RingSizes
<1>2. Forward(w, 2 * DataSize - n) = b
  BY StepAtCursor
<1>3. Walked(d, b, w) = WalkStep(d, w, WalkOf(d, w), n)
  BY <1>1, WalkAt DEF Walked
<1> HIDE DEF n
<1>4. WalkStep(d, w, WalkOf(d, w), n) =
           IF d[Rel(b)].kind = "filler" THEN WalkOf(d, w)[n - 1]
           ELSE IF WholeIn(d, Rel(b)) /\ d[Rel(b)].size \in 1 .. n
             THEN <<RecordAt(d, b)>> \o WalkOf(d, w)[n - d[Rel(b)].size]
           ELSE <<Torn>>
  BY <1>1, <1>2, Zenon DEF WalkStep, RecordAt
<1> QED
  BY <1>3, <1>4, Zenon DEF n

\* At a word of filler: what it finds behind the filler.
LEMMA WalkedFiller ==
  ASSUME NEW d, NEW b \in Cursors, NEW w \in Cursors, b # w,
         Distance(b, w) <= DataSize, d[Rel(b)].kind = "filler"
  PROVE  Walked(d, b, w) = Walked(d, Forward(b, 1), w)
<1>1. Distance(b, w) \in Nat /\ Distance(b, w) # 0
  BY DistanceType
<1>2. Distance(Forward(b, 1), w) = Distance(b, w) - 1
  BY <1>1, ForwardComesCloser, RingSizes
<1> QED
  BY <1>2, WalkedStep DEF Walked

\* At a record: the record, and what it finds behind.
LEMMA WalkedRecord ==
  ASSUME NEW d, NEW b \in Cursors, NEW w \in Cursors, b # w,
         Distance(b, w) <= DataSize, WholeIn(d, Rel(b)),
         d[Rel(b)].size \in 1 .. Distance(b, w)
  PROVE  Walked(d, b, w)
           = <<RecordAt(d, b)>> \o Walked(d, Forward(b, d[Rel(b)].size), w)
<1> DEFINE n == d[Rel(b)].size
<1>1. n \in 0 .. DataSize /\ n <= Distance(b, w)
  BY DistanceType, RingSizes
<1>2. Distance(Forward(b, n), w) = Distance(b, w) - n
  BY <1>1, ForwardComesCloser
<1>3. d[Rel(b)].kind # "filler"
  BY DEF WholeIn
<1> QED
  BY <1>2, <1>3, WalkedStep DEF Walked

\* At the write cursor: nothing.
LEMMA WalkedNothing ==
  ASSUME NEW d, NEW w \in Cursors
  PROVE  Walked(d, w, w) = <<>>
<1>1. Distance(w, w) = 0
  BY DistanceType
<1>2. WalkOf(d, w)[0] = WalkStep(d, w, WalkOf(d, w), 0)
  BY WalkAt, RingSizes
<1> QED
  BY <1>1, <1>2 DEF Walked, WalkStep

\* A filler is the last word of the buffer, or has another behind it.
FillerLink(d, b, w, B) ==
  /\ d[Rel(b)].kind = "filler"
  /\ Forward(b, 1) \in B
  /\ Rel(Forward(b, 1)) # 0 =>
       Forward(b, 1) # w /\ d[Rel(Forward(b, 1))].kind = "filler"

RecordLink(d, b, w, B) ==
  /\ WholeIn(d, Rel(b))
  /\ d[Rel(b)].size \in RecordSizes
  /\ d[Rel(b)].size <= Distance(b, w)
  /\ Forward(b, d[Rel(b)].size) \in B

\* B holds the cursors of the records and fillers from s on, and w.
Links(d, s, w, B) ==
  /\ B \subseteq Cursors /\ s \in B /\ w \in B
  /\ \A b \in B : Distance(b, w) <= Distance(s, w)
  /\ \A b \in B \ {w} : FillerLink(d, b, w, B) \/ RecordLink(d, b, w, B)

Linked(d, s, w) ==
  /\ Distance(s, w) <= DataSize
  /\ \E B \in SUBSET Cursors : Links(d, s, w, B)

-----------------------------------------------------------------------------
\* No record is empty.
LEMMA RecordSizeType ==
  ASSUME NEW n \in RecordSizes
  PROVE  n \in 1 .. MaxRecordSize
<1>1. n \in Nat \ {0}
  <2>1. CASE n \in EventSizes
    BY <2>1, SizesAssumption
  <2>2. CASE \E k \in 1 .. LineBufferSize : n = ConsoleSize(k)
    BY <2>2, SizesAssumption DEF ConsoleSize
  <2> QED
    BY <2>1, <2>2 DEF RecordSizes
<1> QED
  BY <1>1, SizesAssumption

\* A link comes closer to the write cursor.
LEMMA LinkComesCloser ==
  ASSUME NEW d, NEW s, NEW w \in Cursors, NEW B, Links(d, s, w, B),
         Distance(s, w) <= DataSize, NEW b \in B, b # w
  PROVE  /\ b \in Cursors /\ Distance(b, w) \in 1 .. DataSize
         /\ FillerLink(d, b, w, B) =>
              /\ Forward(b, 1) \in Cursors
              /\ Distance(Forward(b, 1), w) = Distance(b, w) - 1
         /\ RecordLink(d, b, w, B) =>
              /\ d[Rel(b)].size \in 1 .. MaxRecordSize
              /\ d[Rel(b)].size \in 1 .. Distance(b, w)
              /\ Forward(b, d[Rel(b)].size) \in Cursors
              /\ Distance(Forward(b, d[Rel(b)].size), w)
                   = Distance(b, w) - d[Rel(b)].size
<1>1. b \in Cursors /\ s \in Cursors /\ Distance(b, w) <= Distance(s, w)
  BY DEF Links
<1>2. Distance(b, w) \in 1 .. DataSize
  BY <1>1, DistanceType, RingSizes
<1>3. /\ Forward(b, 1) \in Cursors
      /\ Distance(Forward(b, 1), w) = Distance(b, w) - 1
  BY <1>1, <1>2, ForwardComesCloser, RingSizes
<1>4. ASSUME RecordLink(d, b, w, B)
      PROVE  /\ d[Rel(b)].size \in 1 .. MaxRecordSize
             /\ d[Rel(b)].size \in 1 .. Distance(b, w)
             /\ Forward(b, d[Rel(b)].size) \in Cursors
             /\ Distance(Forward(b, d[Rel(b)].size), w)
                  = Distance(b, w) - d[Rel(b)].size
  <2> DEFINE n == d[Rel(b)].size
  <2>1. n \in 1 .. MaxRecordSize /\ n <= Distance(b, w)
    BY <1>4, RecordSizeType DEF RecordLink
  <2> HIDE DEF n
  <2>2. n \in 0 .. DataSize
    BY <2>1, RingSizes
  <2>3. /\ Forward(b, n) \in Cursors
        /\ Distance(Forward(b, n), w) = Distance(b, w) - n
    BY <1>1, <2>1, <2>2, ForwardComesCloser
  <2>4. n \in 1 .. Distance(b, w)
    BY <1>2, <2>1
  <2> QED
    BY <2>1, <2>3, <2>4 DEF n
<1> QED
  BY <1>1, <1>2, <1>3, <1>4

\* What is so of the write cursor, and of every other cursor when it is so of the
\* next, is so of all.
LEMMA LinkInduction ==
  ASSUME NEW d, NEW s, NEW w \in Cursors, NEW B, Links(d, s, w, B),
         Distance(s, w) <= DataSize, NEW G, w \in G,
         \A b \in B \ {w} : FillerLink(d, b, w, B) /\ Forward(b, 1) \in G => b \in G,
         \A b \in B \ {w} :
           RecordLink(d, b, w, B) /\ Forward(b, d[Rel(b)].size) \in G => b \in G
  PROVE  B \subseteq G
<1> DEFINE T == {Distance(b, w) : b \in B \ G}
<1>1. SUFFICES ASSUME T # {} PROVE FALSE
  BY <1>1
<1>2. T \subseteq Nat
  BY DistanceType DEF Links
<1>3. PICK m \in T : \A k \in T : m <= k
  BY <1>1, <1>2, LeastNatural
<1>4. PICK b \in B \ G : m = Distance(b, w)
  BY <1>3
<1>5. b # w /\ b \in B
  BY <1>4
<1>6. CASE FillerLink(d, b, w, B)
  <2>1. Forward(b, 1) \in B /\ Forward(b, 1) \notin G
    BY <1>4, <1>5, <1>6 DEF FillerLink
  <2>2. Distance(b, w) <= Distance(Forward(b, 1), w)
    BY <1>3, <1>4, <2>1
  <2>3. Distance(b, w) \in Nat /\ Distance(Forward(b, 1), w) = Distance(b, w) - 1
    BY <1>5, <1>6, LinkComesCloser
  <2> QED
    BY <2>2, <2>3
<1>7. CASE RecordLink(d, b, w, B)
  <2> DEFINE n == d[Rel(b)].size
  <2>1. Forward(b, n) \in B /\ Forward(b, n) \notin G
    BY <1>4, <1>5, <1>7 DEF RecordLink
  <2>2. Distance(b, w) <= Distance(Forward(b, n), w)
    BY <1>3, <1>4, <2>1
  <2>3. /\ Distance(b, w) \in Nat /\ n \in 1 .. MaxRecordSize
        /\ Distance(Forward(b, n), w) = Distance(b, w) - n
    BY <1>5, <1>7, LinkComesCloser
  <2> HIDE DEF n
  <2> QED
    BY <2>2, <2>3
<1> QED
  BY <1>5, <1>6, <1>7 DEF Links

\* What the walk finds at a link.
LEMMA WalkedLink ==
  ASSUME NEW d, NEW s, NEW w \in Cursors, NEW B, Links(d, s, w, B),
         Distance(s, w) <= DataSize, NEW b \in B, b # w
  PROVE  /\ FillerLink(d, b, w, B) => Walked(d, b, w) = Walked(d, Forward(b, 1), w)
         /\ RecordLink(d, b, w, B) =>
              Walked(d, b, w)
                = <<RecordAt(d, b)>> \o Walked(d, Forward(b, d[Rel(b)].size), w)
<1>1. b \in Cursors /\ Distance(b, w) \in 1 .. DataSize
  BY LinkComesCloser
<1>2. FillerLink(d, b, w, B) => Walked(d, b, w) = Walked(d, Forward(b, 1), w)
  BY <1>1, WalkedFiller, RingSizes DEF FillerLink
<1>3. ASSUME RecordLink(d, b, w, B)
      PROVE  Walked(d, b, w)
               = <<RecordAt(d, b)>> \o Walked(d, Forward(b, d[Rel(b)].size), w)
  <2>1. d[Rel(b)].size \in 1 .. Distance(b, w) /\ WholeIn(d, Rel(b))
    BY <1>3, LinkComesCloser DEF RecordLink
  <2> QED
    BY <1>1, <2>1, WalkedRecord, RingSizes
<1> QED
  BY <1>2, <1>3

\* A link is a record of the log.
LEMMA RecordAtType ==
  ASSUME NEW d \in [Offsets -> Word], NEW b \in Cursors, NEW w, NEW B,
         RecordLink(d, b, w, B)
  PROVE  RecordAt(d, b) \in Record
<1>1. d[Rel(b)] \in Word
  BY RelType
<1>2. d[Rel(b)].id \in Ids
  BY <1>1 DEF Word
<1> QED
  BY <1>2 DEF RecordAt, Record, RecordLink

\* From every cursor on the walk finds records, all of them whole.
LEMMA WalkedType ==
  ASSUME NEW d \in [Offsets -> Word], NEW s, NEW w \in Cursors, NEW B,
         Links(d, s, w, B), Distance(s, w) <= DataSize
  PROVE  \A b \in B : Walked(d, b, w) \in Seq(Record)
<1> DEFINE G == {b \in B : Walked(d, b, w) \in Seq(Record)}
<1>1. w \in G
  <2>1. Walked(d, w, w) = <<>>
    BY WalkedNothing
  <2> QED
    BY <2>1 DEF Links
<1>2. ASSUME NEW b \in B \ {w}, FillerLink(d, b, w, B), Forward(b, 1) \in G
      PROVE  b \in G
  <2>1. Walked(d, b, w) = Walked(d, Forward(b, 1), w)
    BY <1>2, WalkedLink
  <2>2. Walked(d, Forward(b, 1), w) \in Seq(Record)
    BY <1>2
  <2> QED
    BY <2>1, <2>2
<1>3. ASSUME NEW b \in B \ {w}, RecordLink(d, b, w, B),
             Forward(b, d[Rel(b)].size) \in G
      PROVE  b \in G
  <2>1. RecordAt(d, b) \in Record
    BY <1>3, RecordAtType DEF Links
  <2>2. <<RecordAt(d, b)>> \in Seq(Record)
    BY <2>1
  <2>3. Walked(d, b, w)
          = <<RecordAt(d, b)>> \o Walked(d, Forward(b, d[Rel(b)].size), w)
    BY <1>3, WalkedLink
  <2>4. Walked(d, Forward(b, d[Rel(b)].size), w) \in Seq(Record)
    BY <1>3
  <2> QED
    BY <1>3, <2>2, <2>3, <2>4, ConcatProperties
<1> HIDE DEF G
<1>4. B \subseteq G
  BY <1>1, <1>2, <1>3, LinkInduction
<1> QED
  BY <1>4 DEF G

\* Two steps forward are one.
LEMMA ForwardTwice ==
  ASSUME NEW b \in Cursors, NEW m \in 0 .. DataSize, NEW n \in 0 .. DataSize,
         m + n <= DataSize
  PROVE  Forward(Forward(b, m), n) = Forward(b, m + n)
BY RingSizes DEF Forward, Cursors

\* Inside the buffer a step forward is one of the offset.
LEMMA ForwardInside ==
  ASSUME NEW b \in Cursors, NEW n \in 0 .. DataSize
  PROVE  /\ Rel(b) + n < DataSize => Rel(Forward(b, n)) = Rel(b) + n
         /\ Rel(b) + n = DataSize => Rel(Forward(b, n)) = 0
BY RingSizes DEF Forward, Cursors, Rel

\* A record that does not reach beyond the write cursor is kept with the words up to
\* the write cursor.
LEMMA RecordKept ==
  ASSUME NEW d, NEW e, NEW s \in Cursors, NEW w \in Cursors,
         \A x \in Cursors :
           x # w /\ Distance(x, w) <= Distance(s, w) => e[Rel(x)] = d[Rel(x)],
         NEW b \in Cursors, b # w, Distance(b, w) <= Distance(s, w),
         WholeIn(d, Rel(b)),
         d[Rel(b)].size \in 1 .. DataSize, d[Rel(b)].size <= Distance(b, w)
  PROVE  WholeIn(e, Rel(b)) /\ e[Rel(b)] = d[Rel(b)]
<1> DEFINE n == d[Rel(b)].size
           r == Rel(b)
<1>1. e[r] = d[r]
  OBVIOUS
<1>2. r \in Nat /\ n \in Nat /\ r + n <= DataSize
  BY RelType, RingSizes DEF WholeIn, Offsets
<1>3. ASSUME NEW i \in r + 1 .. r + n - 1
      PROVE  e[i] = d[i]
  <2> DEFINE k == i - r
             x == Forward(b, k)
  <2> HIDE DEF r, n
  <2>1. k \in 0 .. DataSize /\ k < n /\ r + k < DataSize /\ r + k = i
    BY <1>2, <1>3, RingSizes
  <2>2. k <= Distance(b, w) /\ Distance(b, w) \in Nat
    BY <1>2, <2>1, DistanceType DEF n
  <2> HIDE DEF k
  <2>3. x \in Cursors /\ Distance(x, w) = Distance(b, w) - k
    BY <2>1, <2>2, ForwardComesCloser
  <2>4. Rel(x) = i
    BY <2>1, ForwardInside DEF r
  <2>5. Distance(x, w) # 0 /\ Distance(x, w) <= Distance(s, w)
    <3>1. n <= Distance(b, w) /\ Distance(s, w) \in Nat
      BY DistanceType DEF n
    <3> QED
      BY <1>2, <2>1, <2>2, <2>3, <3>1
  <2>6. x # w
    BY <2>3, <2>5, DistanceType
  <2> QED
    BY <2>3, <2>4, <2>5, <2>6
<1> HIDE DEF r
<1>4. e[r].kind = "header" /\ r + e[r].size <= DataSize
  BY <1>1, <1>2 DEF WholeIn, r
<1>5. \A i \in r + 1 .. r + e[r].size - 1 : e[i] = Body(e[r].id)
  <2>1. \A i \in r + 1 .. r + n - 1 : d[i] = Body(d[r].id)
    BY DEF WholeIn, r
  <2>2. e[r].size = n
    BY <1>1 DEF r
  <2> QED
    BY <1>1, <1>3, <2>1, <2>2
<1> QED
  BY <1>1, <1>4, <1>5 DEF WholeIn, r

\* Words that are not behind the write cursor do not matter to the walk.
LEMMA LinksKept ==
  ASSUME NEW d, NEW e, NEW s, NEW w \in Cursors, NEW B,
         Links(d, s, w, B), Distance(s, w) <= DataSize,
         \A x \in Cursors :
           x # w /\ Distance(x, w) <= Distance(s, w) => e[Rel(x)] = d[Rel(x)]
  PROVE  Links(e, s, w, B) /\ \A b \in B : Walked(e, b, w) = Walked(d, b, w)
<1>0. s \in Cursors
  BY DEF Links
<1>1. ASSUME NEW b \in B \ {w}
      PROVE  /\ FillerLink(d, b, w, B) => FillerLink(e, b, w, B)
             /\ RecordLink(d, b, w, B) =>
                  RecordLink(e, b, w, B) /\ e[Rel(b)] = d[Rel(b)]
  <2>1. /\ b \in Cursors /\ b # w /\ Distance(b, w) <= Distance(s, w)
        /\ e[Rel(b)] = d[Rel(b)]
    BY <1>1 DEF Links
  <2>2. ASSUME FillerLink(d, b, w, B) PROVE FillerLink(e, b, w, B)
    <3> DEFINE f == Forward(b, 1)
    <3>1. f \in Cursors /\ f \in B /\ Distance(f, w) <= Distance(s, w)
      BY <2>2 DEF FillerLink, Links
    <3>2. f # w => e[Rel(f)] = d[Rel(f)]
      BY <3>1
    <3> QED
      BY <2>1, <2>2, <3>2 DEF FillerLink
  <2>3. ASSUME RecordLink(d, b, w, B) PROVE RecordLink(e, b, w, B)
    <3>1. d[Rel(b)].size \in 1 .. DataSize /\ d[Rel(b)].size <= Distance(b, w)
      <4>1. d[Rel(b)].size \in 1 .. MaxRecordSize
        BY <1>1, <2>3, LinkComesCloser
      <4> QED
        BY <2>3, <4>1, RingSizes DEF RecordLink
    <3>2. WholeIn(d, Rel(b))
      BY <2>3 DEF RecordLink
    <3>3. WholeIn(e, Rel(b))
      BY <1>0, <2>1, <3>1, <3>2, RecordKept
    <3> QED
      BY <2>1, <2>3, <3>3 DEF RecordLink
  <2> QED
    BY <2>1, <2>2, <2>3
<1>2. Links(e, s, w, B)
  BY <1>1 DEF Links
<1> DEFINE G == {b \in B : Walked(e, b, w) = Walked(d, b, w)}
<1>3. w \in G
  BY WalkedNothing DEF Links
<1>4. ASSUME NEW b \in B \ {w}, FillerLink(d, b, w, B), Forward(b, 1) \in G
      PROVE  b \in G
  <2>1. Walked(d, b, w) = Walked(d, Forward(b, 1), w)
    BY <1>4, WalkedLink
  <2>2. Walked(e, b, w) = Walked(e, Forward(b, 1), w)
    BY <1>1, <1>2, <1>4, WalkedLink
  <2> QED
    BY <1>4, <2>1, <2>2
<1>5. ASSUME NEW b \in B \ {w}, RecordLink(d, b, w, B),
             Forward(b, d[Rel(b)].size) \in G
      PROVE  b \in G
  <2> DEFINE f == Forward(b, d[Rel(b)].size)
  <2>1. Walked(d, b, w) = <<RecordAt(d, b)>> \o Walked(d, f, w)
    BY <1>5, WalkedLink
  <2>2. e[Rel(b)] = d[Rel(b)] /\ RecordLink(e, b, w, B)
    BY <1>1, <1>5
  <2>3. Walked(e, b, w)
          = <<RecordAt(e, b)>> \o Walked(e, Forward(b, e[Rel(b)].size), w)
    BY <1>2, <1>5, <2>2, WalkedLink
  <2>4. RecordAt(e, b) = RecordAt(d, b)
    BY <2>2 DEF RecordAt
  <2>5. Walked(e, f, w) = Walked(d, f, w)
    BY <1>5
  <2> QED
    BY <1>5, <2>1, <2>2, <2>3, <2>4, <2>5
<1> HIDE DEF G
<1>6. B \subseteq G
  BY <1>3, <1>4, <1>5, LinkInduction
<1> QED
  BY <1>2, <1>6 DEF G

\* From any of the cursors on, the rest is linked too.
LEMMA LinksFrom ==
  ASSUME NEW d, NEW s, NEW w \in Cursors, NEW B,
         Links(d, s, w, B), Distance(s, w) <= DataSize, NEW b \in B
  PROVE  b \in Cursors /\ Linked(d, b, w)
<1> DEFINE C == {x \in B : Distance(x, w) <= Distance(b, w)}
<1>1. /\ b \in Cursors /\ s \in Cursors /\ Distance(b, w) <= DataSize
      /\ B \subseteq Cursors
  BY DistanceType, RingSizes DEF Links
<1>2. b \in C /\ w \in C
  <2>1. Distance(w, w) = 0 /\ Distance(b, w) \in Nat
    BY <1>1, DistanceType
  <2> QED
    BY <2>1 DEF Links
<1>3. ASSUME NEW x \in C \ {w}
      PROVE  FillerLink(d, x, w, C) \/ RecordLink(d, x, w, C)
  <2>1. x \in B /\ x # w /\ Distance(x, w) <= Distance(b, w)
    BY <1>3
  <2>2. Distance(x, w) \in Nat /\ Distance(b, w) \in Nat
    BY <1>1, <2>1, DistanceType
  <2>3. CASE FillerLink(d, x, w, B)
    <3>1. Distance(Forward(x, 1), w) = Distance(x, w) - 1
      <4> HIDE DEF C
      <4>1. /\ Forward(x, 1) \in Cursors
            /\ Distance(Forward(x, 1), w) = Distance(x, w) - 1
        BY <2>1, <2>3, LinkComesCloser
      <4> QED
        BY <4>1
    <3>2. Forward(x, 1) \in C
      BY <2>1, <2>2, <2>3, <3>1 DEF FillerLink
    <3> QED
      BY <2>3, <3>2 DEF FillerLink
  <2>4. CASE RecordLink(d, x, w, B)
    <3> DEFINE n == d[Rel(x)].size
    <3>1. n \in 1 .. MaxRecordSize /\ Distance(Forward(x, n), w) = Distance(x, w) - n
      BY <2>1, <2>4, LinkComesCloser
    <3>2. Forward(x, n) \in B
      BY <2>4 DEF RecordLink
    <3> HIDE DEF n
    <3>3. Forward(x, n) \in C
      BY <2>1, <2>2, <3>1, <3>2
    <3> QED
      BY <2>4, <3>3 DEF RecordLink, n
  <2> QED
    BY <2>1, <2>3, <2>4 DEF Links
<1> HIDE DEF C
<1>4. Links(d, b, w, C)
  <2>1. C \subseteq Cursors /\ \A x \in C : Distance(x, w) <= Distance(b, w)
    BY <1>1 DEF C
  <2> QED
    BY <1>2, <1>3, <2>1 DEF Links
<1> QED
  BY <1>1, <1>4 DEF Linked, Links

\* A filler link is what its first word says it is.
LEMMA FillerIsLink ==
  ASSUME NEW d, NEW s, NEW w, NEW B, Links(d, s, w, B), NEW b \in B, b # w
  PROVE  /\ d[Rel(b)].kind = "filler" => FillerLink(d, b, w, B)
         /\ d[Rel(b)].kind # "filler" => RecordLink(d, b, w, B)
<1>1. FillerLink(d, b, w, B) => d[Rel(b)].kind = "filler"
  BY DEF FillerLink
<1>2. RecordLink(d, b, w, B) => d[Rel(b)].kind # "filler"
  BY DEF RecordLink, WholeIn
<1> QED
  BY <1>1, <1>2 DEF Links

\* Filler goes on to the end of the buffer, and the walk finds nothing in it.
LEMMA FillerToTheEdge ==
  ASSUME NEW d, NEW s, NEW w \in Cursors, NEW B, Links(d, s, w, B),
         Distance(s, w) <= DataSize
  PROVE  \A b \in B \ {w} :
           d[Rel(b)].kind = "filler" =>
             /\ DataSize - Rel(b) <= Distance(b, w)
             /\ Forward(b, DataSize - Rel(b)) \in B
             /\ Walked(d, b, w) = Walked(d, Forward(b, DataSize - Rel(b)), w)
<1> DEFINE Ends(b) == /\ DataSize - Rel(b) <= Distance(b, w)
                      /\ Forward(b, DataSize - Rel(b)) \in B
                      /\ Walked(d, b, w)
                           = Walked(d, Forward(b, DataSize - Rel(b)), w)
           G == {b \in B : b = w \/ d[Rel(b)].kind # "filler" \/ Ends(b)}
<1>1. w \in G
  BY DEF Links
<1>2. ASSUME NEW b \in B \ {w}, FillerLink(d, b, w, B), Forward(b, 1) \in G
      PROVE  b \in G
  <2> DEFINE f == Forward(b, 1)
             r == Rel(b)
  <2>1. b \in Cursors /\ b # w /\ b \in B /\ f \in B
    BY <1>2 DEF Links, FillerLink
  <2>2. /\ f \in Cursors /\ Distance(b, w) \in 1 .. DataSize
        /\ Distance(f, w) = Distance(b, w) - 1
    <3>1. Distance(b, w) \in 1 .. DataSize
      BY <2>1, LinkComesCloser
    <3>2. f \in Cursors /\ Distance(f, w) = Distance(b, w) - 1
      BY <2>1, <3>1, ForwardComesCloser, RingSizes
    <3> QED
      BY <3>1, <3>2
  <2>3. r \in Nat /\ r < DataSize
    BY <2>1, RelType, RingSizes DEF Offsets
  <2>4. /\ r + 1 < DataSize => Rel(f) = r + 1
        /\ r + 1 = DataSize => Rel(f) = 0
    BY <2>1, ForwardInside, RingSizes
  <2>5. Walked(d, b, w) = Walked(d, f, w)
    BY <1>2, <2>1, WalkedLink
  <2>6. CASE r + 1 = DataSize
    <3>1. DataSize - r = 1
      BY <2>3, <2>6, RingSizes
    <3>2. Ends(b)
      BY <2>1, <2>2, <2>5, <3>1
    <3> QED
      BY <2>1, <3>2
  <2>7. CASE r + 1 < DataSize
    <3>1. Rel(f) = r + 1 /\ Rel(f) # 0
      BY <2>3, <2>4, <2>7
    <3>2. f # w /\ d[Rel(f)].kind = "filler"
      BY <1>2, <3>1 DEF FillerLink
    <3>3. Ends(f)
      BY <1>2, <3>2
    <3> DEFINE t == DataSize - Rel(f)
    <3>4. t \in 0 .. DataSize /\ 1 + t <= DataSize /\ DataSize - r = 1 + t
      BY <2>3, <2>7, <3>1, RingSizes
    <3>5. Forward(f, t) = Forward(b, DataSize - r)
      BY <2>1, <3>4, ForwardTwice, RingSizes
    <3>6. DataSize - r <= Distance(b, w)
      BY <2>2, <2>3, <3>1, <3>3, RingSizes
    <3>7. Ends(b)
      BY <2>5, <3>3, <3>5, <3>6
    <3> QED
      BY <2>1, <3>7
  <2> QED
    BY <2>3, <2>6, <2>7, RingSizes
<1>3. ASSUME NEW b \in B \ {w}, RecordLink(d, b, w, B),
             Forward(b, d[Rel(b)].size) \in G
      PROVE  b \in G
  BY <1>3 DEF RecordLink, WholeIn
<1> HIDE DEF G
<1>4. B \subseteq G
  BY <1>1, <1>2, <1>3, LinkInduction
<1> QED
  BY <1>4 DEF G

\* When what is linked up to w goes on from there to v, the walk to v finds the one
\* and then the other.
LEMMA LinksGrow ==
  ASSUME NEW d \in [Offsets -> Word], NEW s, NEW w \in Cursors,
         NEW n \in 1 .. DataSize, Distance(s, w) + n <= DataSize,
         NEW B, NEW C, Links(d, s, w, B), Links(d, w, Forward(w, n), C)
  PROVE  LET v == Forward(w, n)
         IN  /\ Links(d, s, v, B \cup C) /\ Distance(s, v) = Distance(s, w) + n
             /\ Walked(d, s, v) = Walked(d, s, w) \o Walked(d, w, v)
<1> DEFINE E == B \cup C
           v == Forward(w, n)
<1>0. v \in Cursors /\ v = Forward(w, n) /\ Links(d, w, v, C)
  BY ForwardType, RingSizes
<1> HIDE DEF v
<1>1. /\ s \in B /\ s \in Cursors /\ B \subseteq Cursors /\ C \subseteq Cursors
      /\ w \in B /\ w \in C /\ v \in C
  BY <1>0 DEF Links
<1>2. \A b \in B : /\ Distance(b, v) = Distance(b, w) + n /\ b # v
                   /\ Distance(b, w) \in Nat /\ Distance(b, w) <= Distance(s, w)
  <2>1. ASSUME NEW b \in B
        PROVE  /\ Distance(b, v) = Distance(b, w) + n /\ b # v
               /\ Distance(b, w) \in Nat /\ Distance(b, w) <= Distance(s, w)
    <3>1. /\ b \in Cursors /\ Distance(b, w) \in Nat /\ Distance(s, w) \in Nat
          /\ Distance(b, w) <= Distance(s, w)
      BY <1>1, DistanceType DEF Links
    <3>2. n \in 0 .. DataSize /\ Distance(b, w) + n <= DataSize
      BY <3>1, RingSizes
    <3>3. Distance(b, v) = Distance(b, w) + n
      BY <1>0, <3>1, <3>2, ForwardGoesAway
    <3>4. Distance(b, v) # 0
      BY <3>1, <3>3
    <3> QED
      BY <1>0, <3>1, <3>3, <3>4, DistanceType
  <2> QED
    BY <2>1
<1>3. Distance(w, w) = 0 /\ Distance(w, v) = n /\ w # v
  BY <1>0, <1>1, <1>2, DistanceType
<1>4. Distance(s, w) \in Nat /\ Distance(s, w) <= DataSize
      /\ Distance(s, v) = Distance(s, w) + n /\ Distance(s, v) <= DataSize
      /\ Distance(w, v) <= DataSize
  BY <1>1, <1>2, <1>3, RingSizes
<1>5. ASSUME NEW b \in B \ {w}
      PROVE  /\ FillerLink(d, b, w, B) => FillerLink(d, b, v, E)
             /\ RecordLink(d, b, w, B) => RecordLink(d, b, v, E)
  <2>1. b \in B /\ b # w
    BY <1>5
  <2>2. FillerLink(d, b, w, B) => FillerLink(d, b, v, E)
    <3>1. FillerLink(d, b, w, B) => Forward(b, 1) \in B /\ Forward(b, 1) # v
      BY <1>2 DEF FillerLink
    <3> QED
      BY <3>1 DEF FillerLink
  <2>3. ASSUME RecordLink(d, b, w, B) PROVE RecordLink(d, b, v, E)
    <3>1. d[Rel(b)].size \in 1 .. MaxRecordSize /\ d[Rel(b)].size <= Distance(b, w)
      BY <1>4, <2>1, <2>3, LinkComesCloser DEF RecordLink
    <3>2. d[Rel(b)].size <= Distance(b, v)
      BY <1>2, <2>1, <3>1
    <3> QED
      BY <2>3, <3>2 DEF RecordLink
  <2> QED
    BY <2>2, <2>3
<1>6. ASSUME NEW b \in C \ {v}
      PROVE  FillerLink(d, b, v, E) \/ RecordLink(d, b, v, E)
  <2>1. FillerLink(d, b, v, C) \/ RecordLink(d, b, v, C)
    BY <1>0, <1>6 DEF Links
  <2> QED
    BY <2>1 DEF FillerLink, RecordLink
<1>7. Links(d, s, v, E)
  <2>1. E \subseteq Cursors /\ s \in E /\ v \in E
    BY <1>1
  <2>2. \A b \in E : Distance(b, v) <= Distance(s, v)
    <3>1. ASSUME NEW b \in C PROVE Distance(b, v) <= Distance(s, v)
      <4>1. Distance(b, v) <= n /\ Distance(b, v) \in Nat
        BY <1>0, <1>1, <1>3, <3>1, DistanceType DEF Links
      <4> QED
        BY <1>4, <4>1
    <3>2. ASSUME NEW b \in B PROVE Distance(b, v) <= Distance(s, v)
      BY <1>2, <1>4, <3>2
    <3> QED
      BY <3>1, <3>2
  <2>3. \A b \in E \ {v} : FillerLink(d, b, v, E) \/ RecordLink(d, b, v, E)
    <3>1. ASSUME NEW b \in B \ {w} PROVE FillerLink(d, b, v, E) \/ RecordLink(d, b, v, E)
      <4>1. FillerLink(d, b, w, B) \/ RecordLink(d, b, w, B)
        BY <3>1 DEF Links
      <4> QED
        BY <1>5, <3>1, <4>1
    <3>2. \A b \in E \ {v} : b \in B \ {w} \/ b \in C \ {v}
      BY <1>1
    <3> QED
      BY <1>6, <3>1, <3>2
  <2> QED
    BY <2>1, <2>2, <2>3 DEF Links
<1> DEFINE X == Walked(d, w, v)
<1>8. X \in Seq(Record) /\ \A b \in B : Walked(d, b, w) \in Seq(Record)
  BY <1>0, <1>1, <1>4, WalkedType
<1> DEFINE G == {b \in B : Walked(d, b, v) = Walked(d, b, w) \o X}
<1>9. w \in G
  BY <1>1, <1>8, WalkedNothing, ConcatEmptySeq
<1>10. ASSUME NEW b \in B \ {w}, FillerLink(d, b, w, B), Forward(b, 1) \in G
       PROVE  b \in G
  <2>1. Walked(d, b, w) = Walked(d, Forward(b, 1), w)
    BY <1>4, <1>10, WalkedLink
  <2>2. b \in E /\ b # v /\ FillerLink(d, b, v, E)
    BY <1>2, <1>5, <1>10
  <2> HIDE DEF E, X
  <2>3. Walked(d, b, v) = Walked(d, Forward(b, 1), v)
    BY <1>0, <1>4, <1>7, <2>2, WalkedLink, ZenonT(60)
  <2> QED
    BY <1>10, <2>1, <2>3
<1>11. ASSUME NEW b \in B \ {w}, RecordLink(d, b, w, B),
              Forward(b, d[Rel(b)].size) \in G
       PROVE  b \in G
  <2> DEFINE f == Forward(b, d[Rel(b)].size)
             r == <<RecordAt(d, b)>>
  <2>1. Walked(d, b, w) = r \o Walked(d, f, w)
    BY <1>4, <1>11, WalkedLink
  <2>2. b \in E /\ b # v /\ RecordLink(d, b, v, E)
    BY <1>2, <1>5, <1>11
  <2> HIDE DEF E
  <2>3. Walked(d, b, v) = r \o Walked(d, f, v)
    BY <1>0, <1>4, <1>7, <2>2, WalkedLink
  <2>4. RecordAt(d, b) \in Record
    BY <1>1, <1>11, RecordAtType
  <2>5. r \in Seq(Record) /\ Walked(d, f, w) \in Seq(Record)
    BY <1>8, <1>11, <2>4 DEF RecordLink
  <2>6. Walked(d, f, v) = Walked(d, f, w) \o X
    BY <1>11
  <2> HIDE DEF X, f, r
  <2>7. r \o (Walked(d, f, w) \o X) = (r \o Walked(d, f, w)) \o X
    <3> DEFINE y == Walked(d, f, w)
    <3>1. X \in Seq(Record) /\ y \in Seq(Record) /\ r \in Seq(Record)
      BY <1>8, <2>5
    <3> HIDE DEF y, G
    <3>2. r \o (y \o X) = (r \o y) \o X
      BY <3>1, ConcatAssociative, SMTT(40)
    <3> QED
      BY <3>2 DEF y
  <2>8. Walked(d, b, v) = Walked(d, b, w) \o X
    BY <2>1, <2>3, <2>6, <2>7
  <2> QED
    BY <1>11, <2>8
<1>12. B \subseteq G
  <2> HIDE DEF G, X, E
  <2> QED
    BY <1>4, <1>9, <1>10, <1>11, LinkInduction
<1>13. Walked(d, s, v) = Walked(d, s, w) \o X
  BY <1>1, <1>12
<1> QED
  BY <1>4, <1>7, <1>13 DEF v

\* A record that has been written at the write cursor, or at the start of the buffer
\* behind filler to its end, is what the walk finds from there to where the write
\* cursor will be.
LEMMA RecordBehind ==
  ASSUME NEW d \in [Offsets -> Word], NEW w \in Cursors, NEW size \in RecordSizes,
         NEW at, at = IF size > DataSize - Rel(w) THEN 0 ELSE Rel(w),
         size > DataSize - Rel(w) => \A i \in Offsets : i >= Rel(w) => d[i] = Filler,
         WholeIn(d, at), d[at].size = size
  PROVE  LET v == Forward(w, Needed(w, size))
         IN  /\ v \in Cursors /\ Needed(w, size) \in 1 .. DataSize
             /\ \E C : Links(d, w, v, C)
             /\ Walked(d, w, v) = <<[size |-> size, id |-> d[at].id]>>
<1> DEFINE n == Needed(w, size)
           v == Forward(w, n)
           r == Rel(w)
           t == DataSize - r
           rec == [size |-> size, id |-> d[at].id]
<1>1. size \in 1 .. MaxRecordSize
  BY RecordSizeType
<1>2. n \in 1 .. DataSize /\ r \in Nat /\ r < DataSize
  BY <1>1, NeededType
<1>3. Distance(w, w) = 0
  BY DistanceType
<1>4. v \in Cursors /\ Distance(w, v) = n
  BY <1>2, <1>3, ForwardGoesAway, RingSizes
<1>5. w # v /\ Distance(v, v) = 0
  BY <1>2, <1>4, DistanceType
<1> HIDE DEF v, n, r
\* The record itself, where it begins.
<1>6. ASSUME NEW u \in Cursors, Rel(u) = at, Distance(u, v) = size, NEW C, v \in C,
             Forward(u, size) = v
      PROVE  /\ RecordLink(d, u, v, C)
             /\ Walked(d, u, v) = <<rec>>
  <2>1. u # v
    BY <1>1, <1>5, <1>6
  <2>2. RecordLink(d, u, v, C)
    BY <1>1, <1>6 DEF RecordLink
  <2>3. Distance(u, v) <= DataSize /\ d[Rel(u)].size \in 1 .. Distance(u, v)
    BY <1>1, <1>6, RingSizes
  <2>4. Walked(d, u, v) = <<RecordAt(d, u)>> \o Walked(d, v, v)
    BY <1>4, <1>6, <2>1, <2>3, WalkedRecord
  <2>5. Walked(d, v, v) = <<>>
    BY <1>4, WalkedNothing
  <2>6. RecordAt(d, u) = rec
    BY <1>6 DEF RecordAt
  <2>7. <<rec>> \o <<>> = <<rec>>
    OBVIOUS
  <2> QED
    BY <2>2, <2>4, <2>5, <2>6, <2>7
<1>7. CASE ~ (size > t)
  <2> DEFINE C == {w, v}
  <2>1. at = r /\ n = size
    BY <1>1, <1>2, <1>7, RingSizes DEF Needed, n, r
  <2>2. RecordLink(d, w, v, C) /\ Walked(d, w, v) = <<rec>>
    BY <1>4, <1>6, <2>1 DEF r, v
  <2>3. Links(d, w, v, C)
    BY <1>4, <1>5, <1>2, <2>2 DEF Links
  <2> QED
    BY <1>2, <1>4, <2>2, <2>3 DEF v, n
<1>8. CASE size > t
  <2>1. /\ at = 0 /\ n = t + size /\ t \in 1 .. size - 1 /\ t \in 0 .. DataSize
        /\ t <= n
    BY <1>1, <1>2, <1>8, RingSizes DEF Needed, n, r
  <2> DEFINE F == {Forward(w, j) : j \in 0 .. t}
             C == F \cup {v}
             u == Forward(w, t)
  <2> HIDE DEF t
  <2>2. ASSUME NEW j \in 0 .. t
        PROVE  /\ Forward(w, j) \in Cursors
               /\ Distance(Forward(w, j), v) = n - j /\ Forward(w, j) # v
               /\ j < t => /\ Rel(Forward(w, j)) = r + j
                           /\ d[Rel(Forward(w, j))].kind = "filler"
                           /\ Forward(Forward(w, j), 1) = Forward(w, j + 1)
    <3>1. j \in 0 .. DataSize /\ j <= Distance(w, v)
      BY <1>2, <1>4, <2>1, <2>2, RingSizes
    <3>2. Forward(w, j) \in Cursors /\ Distance(Forward(w, j), v) = n - j
      BY <1>4, <3>1, ForwardComesCloser
    <3>3. n - j # 0
      BY <1>1, <1>2, <2>1, <2>2
    <3>4. Forward(w, j) # v
      BY <1>5, <3>2, <3>3
    <3>5. ASSUME j < t
          PROVE  /\ Rel(Forward(w, j)) = r + j
                 /\ d[Rel(Forward(w, j))].kind = "filler"
                 /\ Forward(Forward(w, j), 1) = Forward(w, j + 1)
      <4>1. r + j < DataSize /\ r + j \in Offsets /\ r + j >= r
        BY <1>2, <2>2, <3>5, RingSizes DEF Offsets, t
      <4>2. Rel(Forward(w, j)) = r + j
        BY <3>1, <4>1, ForwardInside DEF r
      <4>3. d[r + j] = Filler
        BY <1>8, <4>1 DEF r, t
      <4>4. Forward(Forward(w, j), 1) = Forward(w, j + 1)
        BY <2>1, <2>2, <3>1, <3>5, ForwardTwice, RingSizes
      <4> QED
        BY <4>2, <4>3, <4>4 DEF Filler
    <3> QED
      BY <3>2, <3>4, <3>5
  <2>3. Rel(u) = 0 /\ u \in Cursors /\ Distance(u, v) = size /\ u \in C
    <3>1. t \in 0 .. t /\ r + t = DataSize
      BY <1>2, <2>1, RingSizes DEF t
    <3>2. Rel(u) = 0
      BY <2>1, <3>1, ForwardInside DEF r
    <3>3. u \in Cursors /\ Distance(u, v) = n - t
      BY <2>2, <3>1
    <3>4. n - t = size
      BY <1>1, <2>1
    <3> QED
      BY <3>1, <3>2, <3>3, <3>4
  <2>4. Forward(u, size) = v
    <3>1. size \in 0 .. DataSize /\ t + size <= DataSize
      BY <1>1, <1>2, <2>1, RingSizes
    <3> QED
      BY <2>1, <3>1, ForwardTwice DEF v
  <2>5. RecordLink(d, u, v, C) /\ Walked(d, u, v) = <<rec>>
    BY <1>6, <2>1, <2>3, <2>4
  <2>6. ASSUME NEW j \in 0 .. t, j < t PROVE FillerLink(d, Forward(w, j), v, C)
    <3>1. j + 1 \in 0 .. t
      BY <2>1, <2>6
    <3>2. Forward(w, j + 1) \in C
      BY <3>1
    <3>3. j + 1 < t \/ j + 1 = t
      BY <3>1, <2>1
    <3>4. Rel(Forward(w, j + 1)) # 0 =>
            Forward(w, j + 1) # v /\ d[Rel(Forward(w, j + 1))].kind = "filler"
      BY <2>2, <2>3, <3>1, <3>3
    <3> HIDE DEF C, F
    <3> QED
      BY <2>2, <2>6, <3>2, <3>4 DEF FillerLink
  <2>7. Links(d, w, v, C)
    <3>1. \A b \in C \ {v} : \E j \in 0 .. t : b = Forward(w, j)
      OBVIOUS
    <3>2. \A b \in C \ {v} : FillerLink(d, b, v, C) \/ RecordLink(d, b, v, C)
      <4>1. ASSUME NEW b \in C \ {v}
            PROVE  FillerLink(d, b, v, C) \/ RecordLink(d, b, v, C)
        <5>1. PICK j \in 0 .. t : b = Forward(w, j)
          BY <3>1
        <5>2. j < t \/ j = t
          BY <2>1, <5>1
        <5> HIDE DEF C
        <5> QED
          BY <2>5, <2>6, <5>1, <5>2
      <4> QED
        BY <4>1
    <3>3. C \subseteq Cursors /\ v \in C
      BY <1>4, <2>2
    <3>4. w \in C
      <4>1. Forward(w, 0) = w /\ 0 \in 0 .. t
        BY <2>1, RingSizes DEF Forward, Cursors
      <4> QED
        BY <4>1
    <3>5. \A b \in C : Distance(b, v) <= Distance(w, v)
      <4>1. \A j \in 0 .. t : Distance(Forward(w, j), v) <= n
        BY <1>2, <2>1, <2>2
      <4> QED
        BY <1>2, <1>4, <1>5, <4>1
    <3> HIDE DEF C
    <3> QED
      BY <3>2, <3>3, <3>4, <3>5 DEF Links
  <2>8. Walked(d, w, v) = Walked(d, u, v)
    <3>1. w \in C \ {v} /\ d[Rel(w)].kind = "filler" /\ Distance(w, v) <= DataSize
      <4>1. Rel(w) \in Offsets /\ Rel(w) >= Rel(w)
        BY RelType DEF Offsets
      <4> QED
        BY <1>2, <1>4, <1>5, <1>8, <2>7, <4>1, RingSizes DEF Links, Filler, t, r
    <3> HIDE DEF C
    <3> QED
      BY <1>4, <2>7, <3>1, FillerToTheEdge DEF t, r
  <2> HIDE DEF C
  <2> QED
    BY <1>2, <1>4, <2>5, <2>7, <2>8 DEF v, n
<1> QED
  BY <1>7, <1>8

\* The same of what is linked in some way.
LEMMA LinkedGrow ==
  ASSUME NEW d \in [Offsets -> Word], NEW s, NEW w \in Cursors,
         NEW n \in 1 .. DataSize, Distance(s, w) + n <= DataSize,
         Linked(d, s, w), \E C : Links(d, w, Forward(w, n), C)
  PROVE  LET v == Forward(w, n)
         IN  /\ Linked(d, s, v) /\ Distance(s, v) = Distance(s, w) + n
             /\ Walked(d, s, v) = Walked(d, s, w) \o Walked(d, w, v)
             /\ Walked(d, s, w) \in Seq(Record)
<1> DEFINE v == Forward(w, n)
<1>1. PICK B \in SUBSET Cursors : Links(d, s, w, B)
  BY DEF Linked
<1>2. PICK C : Links(d, w, v, C)
  OBVIOUS
<1>0. Distance(s, w) \in Nat /\ Distance(s, w) + n \in Nat
  BY <1>1, DistanceType DEF Links
<1>3. /\ Links(d, s, v, B \cup C) /\ Distance(s, v) = Distance(s, w) + n
      /\ Walked(d, s, v) = Walked(d, s, w) \o Walked(d, w, v)
  BY <1>1, <1>2, LinksGrow
<1>4. B \cup C \in SUBSET Cursors
  BY <1>1, <1>3 DEF Links
<1>5. Walked(d, s, w) \in Seq(Record)
  BY <1>1, WalkedType DEF Links, Linked
<1>6. Distance(s, v) <= DataSize
  BY <1>3
<1> QED
  BY <1>3, <1>4, <1>5, <1>6 DEF Linked

\* Storing a record adds it to what the reader finds.
LEMMA LogGrows ==
  ASSUME NEW d \in [Offsets -> Word], NEW s \in Cursors, NEW w \in Cursors,
         NEW size \in RecordSizes, Linked(d, s, w),
         Needed(w, size) + Distance(s, w) <= DataSize,
         NEW at, at = IF size > DataSize - Rel(w) THEN 0 ELSE Rel(w),
         size > DataSize - Rel(w) => \A i \in Offsets : i >= Rel(w) => d[i] = Filler,
         WholeIn(d, at), d[at].size = size
  PROVE  LET v == Forward(w, Needed(w, size))
             rec == [size |-> size, id |-> d[at].id]
         IN  /\ v \in Cursors /\ Linked(d, s, v) /\ s # v
             /\ rec \in Record
             /\ Walked(d, s, w) \in Seq(Record)
             /\ Walked(d, s, v) = Append(Walked(d, s, w), rec)
<1> DEFINE n == Needed(w, size)
           v == Forward(w, n)
           rec == [size |-> size, id |-> d[at].id]
<1>1. /\ v \in Cursors /\ n \in 1 .. DataSize
      /\ \E C : Links(d, w, v, C)
      /\ Walked(d, w, v) = <<rec>>
  BY RecordBehind
<1>2. Distance(s, w) + n <= DataSize /\ Distance(s, w) \in Nat
  BY <1>1, DistanceType, RingSizes
<1>3. /\ Linked(d, s, v) /\ Distance(s, v) = Distance(s, w) + n
      /\ Walked(d, s, v) = Walked(d, s, w) \o Walked(d, w, v)
      /\ Walked(d, s, w) \in Seq(Record)
  <2> HIDE DEF n, rec
  <2> QED
    BY <1>1, <1>2, LinkedGrow
<1> HIDE DEF n, v, rec
<1>4. s # v
  <2>1. Distance(s, v) # 0
    BY <1>1, <1>2, <1>3
  <2> QED
    BY <1>1, <2>1, DistanceType
<1>5. rec \in Record
  <2>1. at \in Offsets
    BY RelType, RingSizes DEF Offsets
  <2>2. d[at].id \in Ids
    BY <2>1 DEF Word
  <2> QED
    BY <2>2 DEF Record, rec
<1>6. Walked(d, s, w) \o <<rec>> = Append(Walked(d, s, w), rec)
  BY <1>3, <1>5
<1> QED
  BY <1>1, <1>3, <1>4, <1>5, <1>6 DEF v, n, rec

\* The word at a cursor says where the next one is; the walk finds the record there,
\* or nothing in a filler.
LEMMA AfterLink ==
  ASSUME NEW d \in [Offsets -> Word], NEW s, NEW w \in Cursors, NEW B,
         Links(d, s, w, B), Distance(s, w) <= DataSize, NEW b \in B, b # w
  PROVE  /\ After(d, b) \in B
         /\ d[Rel(b)].kind = "header" =>
              /\ RecordAt(d, b) \in Record
              /\ Walked(d, b, w) = <<RecordAt(d, b)>> \o Walked(d, After(d, b), w)
         /\ d[Rel(b)].kind # "header" =>
              Walked(d, b, w) = Walked(d, After(d, b), w)
<1>1. CASE FillerLink(d, b, w, B)
  <2>1. d[Rel(b)].kind # "header" /\ SizeAt(d, b) = 1
    BY <1>1 DEF FillerLink, SizeAt, SizeOf, ConsoleSize
  <2> QED
    BY <1>1, <2>1, WalkedLink DEF FillerLink, After
<1>2. CASE RecordLink(d, b, w, B)
  <2>1. d[Rel(b)].kind = "header" /\ SizeAt(d, b) = d[Rel(b)].size
    BY <1>2 DEF RecordLink, WholeIn, SizeAt, SizeOf
  <2>2. RecordAt(d, b) \in Record
    BY <1>2, RecordAtType DEF Links
  <2> QED
    BY <1>2, <2>1, <2>2, WalkedLink DEF RecordLink, After
<1> QED
  BY <1>1, <1>2 DEF Links

\* So does evictOldestRecord, which skips the filler behind the record as well.
LEMMA StrideLink ==
  ASSUME NEW d \in [Offsets -> Word], NEW s, NEW w \in Cursors, NEW B,
         Links(d, s, w, B), Distance(s, w) <= DataSize, NEW b \in B, b # w
  PROVE  /\ Following(d, b, w) \in B
         /\ Walked(d, After(d, b), w) = Walked(d, Following(d, b, w), w)
<1> DEFINE a == After(d, b)
<1>1. a \in B /\ a \in Cursors
  BY AfterLink DEF Links
<1> HIDE DEF a
<1>2. CASE Skip(d, b, w) = 0
  <2>1. Forward(a, 0) = a
    BY <1>1, RingSizes DEF Forward, Cursors
  <2> QED
    BY <1>1, <1>2, <2>1 DEF Following, a
<1>3. CASE Skip(d, b, w) # 0
  <2>1. a # w /\ d[Rel(a)].kind = "filler" /\ Skip(d, b, w) = DataSize - Rel(a)
    BY <1>3 DEF Skip, a
  <2>2. /\ Forward(a, DataSize - Rel(a)) \in B
        /\ Walked(d, a, w) = Walked(d, Forward(a, DataSize - Rel(a)), w)
    BY <1>1, <2>1, FillerToTheEdge
  <2> QED
    BY <2>1, <2>2 DEF Following, a
<1> QED
  BY <1>2, <1>3

\* A record on its way has its place, whatever the reader has left meanwhile, and is
\* whole before it is published.
Placed(l, at) ==
  /\ at \in PlacingLabels => l.size \in RecordSizes
  /\ at \in WritingLabels =>
       /\ Needed(writeCursor, l.size) + Distance(Start, writeCursor) <= DataSize
       /\ l.place.wrap <=> l.size > DataSize - Rel(writeCursor)
       /\ l.place.addr = IF l.place.wrap THEN 0 ELSE Rel(writeCursor)
       /\ l.place.next = Forward(writeCursor, Needed(writeCursor, l.size))
  /\ at = "fill" => l.place.wrap
  /\ at \in {"write", "publish"} /\ l.place.wrap =>
       \A i \in Offsets : i >= Rel(writeCursor) => data[i] = Filler
  /\ at = "publish" =>
       WholeIn(data, l.place.addr) /\ data[l.place.addr].size = l.size

\* What the GDS has read is still at its cursor; a write of before a reset arrives
\* before the next attach.
GdsReads ==
  /\ gds.pc = "acknowledge" =>
       /\ setup /\ ~ overwriteMode /\ readCursor # writeCursor
       /\ gds.word = data[Rel(readCursor)]
       /\ gds.cursor = Forward(readCursor, SizeOf(gds.word))
  /\ setup /\ (attachRequest \/ ~ overwriteMode) => gds.pc # "stale"

\* The hand-over is for a GDS that has asked for it.
HandOverLabels == {"runAcquire", "runCursor", "runMode"}

HandingOver ==
  /\ ~ setup => overwriteMode
  /\ pc[Main] \in HandOverLabels => setup /\ attachRequest /\ overwriteMode
  /\ pc[Main] = "runMode" => readCursor = oldest

LogInv ==
  /\ setup => Linked(data, Start, writeCursor)
  /\ \A c \in Contexts : Placed(loc[c], pc[c])
  /\ GdsReads
  /\ HandingOver

\* What the log is made of, and what the hand-over goes by.
buffer == <<setup, overwriteMode, oldest, data, readCursor, writeCursor,
            attachRequest, gds>>
log == <<Found, overwriteMode, Held>>

-----------------------------------------------------------------------------
\* The reader starts somewhere in the ring.
LEMMA StartType ==
  ASSUME TypeOK
  PROVE  /\ Start \in Cursors /\ writeCursor \in Cursors /\ readCursor \in Cursors
         /\ oldest \in Cursors /\ data \in [Offsets -> Word]
BY DEF TypeOK, Start

\* What the reader finds is what the walk finds from where he starts.
LEMMA FoundIsWalked ==
  /\ ~ setup => Found = <<>>
  /\ setup /\ Linked(data, Start, writeCursor) /\ TypeOK =>
       Found = Walked(data, Start, writeCursor)
<1>1. ~ setup => Found = <<>>
  BY DEF Found
<1>2. ASSUME setup, Linked(data, Start, writeCursor), TypeOK
      PROVE  Found = Walked(data, Start, writeCursor)
  <2>1. Distance(Start, writeCursor) \in Nat
    BY <1>2, StartType, DistanceType
  <2>2. ~ (Distance(Start, writeCursor) > DataSize)
    BY <1>2, <2>1, RingSizes DEF Linked
  <2> QED
    BY <1>2, <2>2, WalkIs DEF Found, Walked
<1> QED
  BY <1>1, <1>2

LEMMA FoundIsWalkedNext ==
  /\ ~ setup' => Found' = <<>>
  /\ setup' /\ Linked(data', Start', writeCursor') /\ TypeOK' =>
       Found' = Walked(data', Start', writeCursor')
<1>1. ~ setup' => Found' = <<>>
  BY DEF Found
<1>2. ASSUME setup', Linked(data', Start', writeCursor'), TypeOK'
      PROVE  Found' = Walked(data', Start', writeCursor')
  <2>1. Start' \in Cursors /\ writeCursor' \in Cursors
    BY <1>2 DEF TypeOK, Start
  <2>2. Distance(Start', writeCursor') \in Nat
    BY <2>1, DistanceType
  <2>3. ~ (Distance(Start', writeCursor') > DataSize)
    BY <1>2, <2>2, RingSizes DEF Linked
  <2> QED
    BY <1>2, <2>3, WalkIs DEF Found, Walked
<1> QED
  BY <1>1, <1>2

\* A step that leaves the buffer alone.
LEMMA SameLog ==
  ASSUME UNCHANGED buffer
  PROVE  /\ UNCHANGED log /\ GdsReads = GdsReads'
         /\ \A m, l : Placed(m, l)' <=> Placed(m, l)
<1>1. UNCHANGED <<setup, overwriteMode, oldest, data, readCursor, writeCursor,
                  attachRequest, gds>>
  BY DEF buffer
<1>2. Start' = Start /\ Held' = Held
  BY <1>1 DEF Start, Held
<1>3. Walk' = Walk
  BY <1>1, WalkIs
<1>4. Found' = Found
  BY <1>1, <1>2, <1>3 DEF Found
<1>5. GdsReads = GdsReads'
  BY <1>1 DEF GdsReads
<1>6. \A m, l : Placed(m, l)' <=> Placed(m, l)
  BY <1>1, <1>2 DEF Placed
<1> QED
  BY <1>1, <1>2, <1>4, <1>5, <1>6 DEF log

LEMMA NotPlaced ==
  ASSUME NEW m, NEW l, l \notin PlacingLabels
  PROVE  Placed(m, l)
BY DEF Placed, PlacingLabels, WritingLabels

LEMMA QuietStepKeepsLog ==
  ASSUME Inv, LogInv, NEW c \in Contexts, NEW l, NEW m, Goto(c, l),
         Local(c, m) \/ (loc' = loc /\ m = loc[c]), Placed(m, l), UNCHANGED buffer,
         c = Main /\ l \in HandOverLabels => setup /\ attachRequest /\ overwriteMode,
         c = Main /\ l = "runMode" => readCursor = oldest
  PROVE  LogInv' /\ UNCHANGED log
<1>1. pc'[c] = l /\ \A d \in Contexts : d # c => pc'[d] = pc[d]
  BY DEF Inv, TypeOK, Goto
<1>2. loc'[c] = m /\ \A d \in Contexts : d # c => loc'[d] = loc[d]
  BY DEF Inv, TypeOK, Local
<1>3. \A d \in Contexts : Placed(loc'[d], pc'[d])
  BY <1>1, <1>2 DEF LogInv
<1>4. (\A d \in Contexts : Placed(loc[d], pc[d]))'
  BY <1>3, SameLog DEF Placed, buffer, Start
<1>5. HandingOver'
  <2>1. c # Main => pc'[Main] = pc[Main]
    BY <1>1, ConstantTypes
  <2>2. c = Main => pc'[Main] = l
    BY <1>1
  <2> QED
    BY <2>1, <2>2 DEF LogInv, HandingOver, buffer, HandOverLabels
<1>6. setup' => Linked(data', Start', writeCursor')
  BY DEF LogInv, buffer, Start
<1>7. UNCHANGED log /\ GdsReads'
  BY SameLog DEF LogInv
<1> QED
  BY <1>4, <1>5, <1>6, <1>7 DEF LogInv, Linked, Links, FillerLink, RecordLink, WholeIn

\* A step to where no record is placed.
LEMMA RestingStepKeepsLog ==
  ASSUME Inv, LogInv, NEW c \in Contexts, NEW l, Goto(c, l),
         \/ \E m : Local(c, m)
         \/ loc' = loc,
         l \notin PlacingLabels, UNCHANGED buffer,
         c = Main /\ l \in HandOverLabels => setup /\ attachRequest /\ overwriteMode,
         c = Main /\ l = "runMode" => readCursor = oldest
  PROVE  LogInv' /\ UNCHANGED log
<1>1. PICK m : Local(c, m) \/ (loc' = loc /\ m = loc[c])
  OBVIOUS
<1>2. Placed(m, l)
  BY NotPlaced
<1> QED
  BY <1>1, <1>2, QuietStepKeepsLog

\* The handlers' steps before a record is placed, and after.
LEMMA CallKeepsLog ==
  ASSUME Inv, LogInv, NEW c \in Contexts,
         \/ \E op, length : ConsoleWrite(c, op, length)
         \/ FlushConsole(c)
         \/ \E newline : StoreChar(c, newline)
         \/ Flushed(c) \/ Full(c) \/ Release(c) \/ Announce(c) \/ Return(c)
  PROVE  LogInv' /\ UNCHANGED log
<1>1. UNCHANGED buffer
  BY DEF ConsoleWrite, FlushConsole, StoreChar, Flushed, Full, Release, Announce,
         Return, buffer, sram
<1>2. (\E m : Local(c, m)) \/ loc' = loc
  BY DEF ConsoleWrite, FlushConsole, StoreChar, Flushed, Full, Release, Announce,
         Return
<1>3. \E l \in {"return", "flush", "store", "release", "flushed", "announce", "idle"} :
        Goto(c, l)
  BY DEF ConsoleWrite, FlushConsole, StoreChar, Flushed, Full, Release, Announce,
         Return
<1>4. PICK l \in {"return", "flush", "store", "release", "flushed", "announce",
                  "idle"} : Goto(c, l)
  BY <1>3
<1>5. l \notin PlacingLabels /\ l \notin HandOverLabels /\ l # "runMode"
  BY DEF PlacingLabels, WritingLabels, HandOverLabels
<1> QED
  BY <1>1, <1>2, <1>4, <1>5, RestingStepKeepsLog

\* A record begins: an event, or the line buffer.
LEMMA LogRecvKeepsLog ==
  ASSUME Inv, LogInv, NEW c \in Contexts, NEW size \in EventSizes,
         NEW fatal, LogRecv(c, size, fatal)
  PROVE  LogInv' /\ UNCHANGED log
<1>1. UNCHANGED buffer /\ loc[c] \in Locals
  BY DEF LogRecv, buffer, sram, Inv, TypeOK
<1>2. CASE Goto(c, "return")
  <2>1. \E m : Local(c, m)
    BY <1>2 DEF LogRecv
  <2>2. "return" \notin PlacingLabels /\ "return" \notin HandOverLabels
    BY DEF PlacingLabels, WritingLabels, HandOverLabels
  <2> QED
    BY <1>1, <1>2, <2>1, <2>2, RestingStepKeepsLog
<1>3. CASE Goto(c, "place") /\ setup /\ inUse = 0
  <2> DEFINE m == [loc[c] EXCEPT !.op = "log", !.fatal = fatal, !.size = size]
  <2>1. Local(c, m) \/ Goto(c, "return")
    BY DEF LogRecv
  <2>2. ASSUME Local(c, m) PROVE LogInv' /\ UNCHANGED log
    <3>1. m.size = size /\ size \in RecordSizes
      BY <1>1 DEF Locals, RecordSizes
    <3> HIDE DEF m
    <3>2. Placed(m, "place")
      BY <3>1 DEF Placed, WritingLabels
    <3>3. "place" \notin HandOverLabels
      BY DEF HandOverLabels
    <3> QED
      BY <1>1, <1>3, <2>2, <3>2, <3>3, QuietStepKeepsLog
  <2> QED
    BY <1>2, <2>1, <2>2
<1> QED
  BY <1>2, <1>3 DEF LogRecv

LEMMA FlushConsoleBufferKeepsLog ==
  ASSUME Inv, LogInv, NEW c \in Contexts, FlushConsoleBuffer(c)
  PROVE  LogInv' /\ UNCHANGED log
<1>1. UNCHANGED buffer /\ loc[c] \in Locals
  BY DEF FlushConsoleBuffer, buffer, sram, Inv, TypeOK
<1>2. CASE setup /\ linePos > 0
  <2> DEFINE m == [loc[c] EXCEPT !.size = ConsoleSize(linePos)]
  <2>1. Local(c, m) /\ Goto(c, "place")
    BY <1>2 DEF FlushConsoleBuffer
  <2>2. ConsoleSize(linePos) \in RecordSizes
    <3>1. linePos \in 1 .. LineBufferSize
      BY <1>2, ConstantTypes DEF Inv, TypeOK
    <3> QED
      BY <3>1 DEF RecordSizes
  <2>3. m.size = ConsoleSize(linePos)
    BY <1>1 DEF Locals
  <2> HIDE DEF m
  <2>4. Placed(m, "place")
    BY <2>2, <2>3 DEF Placed, WritingLabels
  <2>5. "place" \notin HandOverLabels
    BY DEF HandOverLabels
  <2> QED
    BY <1>1, <2>1, <2>4, <2>5, QuietStepKeepsLog
<1>3. CASE ~ (setup /\ linePos > 0)
  <2>1. Goto(c, "flushed") /\ \E m : Local(c, m)
    BY <1>3 DEF FlushConsoleBuffer
  <2>2. "flushed" \notin PlacingLabels /\ "flushed" \notin HandOverLabels
    BY DEF PlacingLabels, WritingLabels, HandOverLabels
  <2> QED
    BY <1>1, <2>1, <2>2, RestingStepKeepsLog
<1> QED
  BY <1>2, <1>3

\* What itemFitsInBuffer has found for the reader of the moment is a place.
LEMMA FitIsPlaced ==
  ASSUME Inv, LogInv, setup, NEW size \in RecordSizes,
         ItemFitsInBuffer(Start, writeCursor, size).fits,
         NEW m, m.size = size, m.place = ItemFitsInBuffer(Start, writeCursor, size),
         NEW l, l = IF m.place.wrap THEN "fill" ELSE "write"
  PROVE  Placed(m, l)
<1>1. Start \in Cursors /\ writeCursor \in Cursors
  BY StartType DEF Inv
<1>2. Distance(Start, writeCursor) <= DataSize /\ size \in 1 .. MaxRecordSize
  BY RecordSizeType DEF LogInv, Linked
<1>3. /\ Needed(writeCursor, size) + Distance(Start, writeCursor) <= DataSize
      /\ m.place.wrap <=> size > DataSize - Rel(writeCursor)
      /\ m.place.addr = IF m.place.wrap THEN 0 ELSE Rel(writeCursor)
      /\ m.place.next = Forward(writeCursor, Needed(writeCursor, size))
  BY <1>1, <1>2, FitsWhenFree
<1> QED
  BY <1>3 DEF Placed, WritingLabels

LEMMA PlaceKeepsLog ==
  ASSUME Inv, RingInv, LogInv, NEW c \in Contexts, Place(c)
  PROVE  LogInv' /\ UNCHANGED log
<1> DEFINE size == loc[c].size
           place == ItemFitsInBuffer(Start, writeCursor, size)
           l == IF place.fits THEN IF place.wrap THEN "fill" ELSE "write"
                ELSE IF overwriteMode THEN "evict" ELSE "full"
           deficit == IF l = "evict" THEN Deficit(writeCursor, size) ELSE 0
           m == [loc[c] EXCEPT !.write = writeCursor, !.place = place,
                               !.deficit = deficit]
<1>1. pc[c] = "place" /\ Goto(c, l) /\ Local(c, m) /\ UNCHANGED buffer
  BY DEF Place, At, Start, buffer, sram
<1>2. loc[c] \in Locals /\ setup
  BY <1>1, RecordTypes DEF PlacingLabels
<1>3. size \in RecordSizes
  BY <1>1 DEF LogInv, Placed, PlacingLabels
<1> HIDE DEF place, l, deficit, size
<1>4. m.size = size /\ m.place = place
  BY <1>2 DEF Locals, size
<1> HIDE DEF m
<1>5. Placed(m, l)
  <2>1. CASE place.fits
    BY <1>2, <1>3, <1>4, <2>1, FitIsPlaced DEF place, l
  <2>2. CASE l = "evict"
    BY <1>3, <1>4, <2>2 DEF Placed, WritingLabels
  <2>3. CASE l = "full"
    BY <2>3, NotPlaced DEF PlacingLabels, WritingLabels
  <2> QED
    BY <2>1, <2>2, <2>3 DEF l
<1>6. l \notin HandOverLabels /\ l # "runMode"
  BY DEF l, HandOverLabels
<1> QED
  BY <1>1, <1>5, <1>6, QuietStepKeepsLog

LEMMA EvictedKeepsLog ==
  ASSUME Inv, RingInv, LogInv, NEW c \in Contexts, Evicted(c)
  PROVE  LogInv' /\ UNCHANGED log
<1> DEFINE size == loc[c].size
           place == ItemFitsInBuffer(Start, writeCursor, size)
           l == IF place.fits THEN IF place.wrap THEN "fill" ELSE "write" ELSE "full"
           m == [loc[c] EXCEPT !.place = place, !.deficit = 0, !.freed = 0, !.count = 0]
<1>1. pc[c] = "evict"
  BY DEF Evicted, At
<1>2. loc[c] \in Locals /\ setup
  BY <1>1, RecordTypes DEF PlacingLabels
<1>3. size \in RecordSizes
  BY <1>1 DEF LogInv, Placed, PlacingLabels
<1>4. loc[c].write = writeCursor /\ Start = oldest
  BY <1>1 DEF RingInv, Underway, Placing, Evicting, Start
<1>5. Goto(c, l) /\ Local(c, m) /\ UNCHANGED buffer
  BY <1>4 DEF Evicted, buffer, sram
<1> HIDE DEF place, l, size
<1>6. m.size = size /\ m.place = place
  BY <1>2 DEF Locals, size
<1> HIDE DEF m
<1>7. Placed(m, l)
  <2>1. CASE place.fits
    BY <1>2, <1>3, <1>6, <2>1, FitIsPlaced DEF place, l
  <2>2. CASE l = "full"
    BY <2>2, NotPlaced DEF PlacingLabels, WritingLabels
  <2> QED
    BY <2>1, <2>2 DEF l
<1>8. l \notin HandOverLabels /\ l # "runMode"
  BY DEF l, HandOverLabels
<1> QED
  BY <1>5, <1>7, <1>8, QuietStepKeepsLog

\* Run_handler, but for the end of the hand-over.
LEMMA RunKeepsLog ==
  ASSUME Inv, LogInv,
         \/ RunHandler \/ RunAcquire \/ RunRelease \/ CheckCommandBuffer
  PROVE  LogInv' /\ UNCHANGED log
<1>1. UNCHANGED buffer /\ loc' = loc /\ Main \in Contexts
  BY ConstantTypes
  DEF RunHandler, RunAcquire, RunRelease, CheckCommandBuffer, buffer, sram
<1>2. \A l \in {"runAcquire", "runCursor", "runCommand", "idle"} :
        l \notin PlacingLabels /\ l # "runMode"
  BY DEF PlacingLabels, WritingLabels
<1>3. "runCommand" \notin HandOverLabels /\ "idle" \notin HandOverLabels
  BY DEF HandOverLabels
<1>4. CASE RunHandler
  <2>1. \/ Goto(Main, "runAcquire") /\ setup /\ attachRequest /\ overwriteMode
        \/ Goto(Main, "runCommand")
    BY <1>4 DEF RunHandler
  <2> QED
    BY <1>1, <1>2, <1>3, <2>1, RestingStepKeepsLog
<1>5. CASE RunAcquire
  <2>1. Goto(Main, "runCursor") /\ setup /\ attachRequest /\ overwriteMode
    BY <1>5 DEF RunAcquire, At, LogInv, HandingOver, HandOverLabels
  <2> QED
    BY <1>1, <1>2, <2>1, RestingStepKeepsLog
<1>6. CASE RunRelease \/ CheckCommandBuffer
  <2>1. Goto(Main, "runCommand") \/ Goto(Main, "idle")
    BY <1>6 DEF RunRelease, CheckCommandBuffer
  <2> QED
    BY <1>1, <1>2, <1>3, <2>1, RestingStepKeepsLog
<1> QED
  BY <1>4, <1>5, <1>6

\* Steps that are not of the buffer at all.
LEMMA ElsewhereKeepsLog ==
  ASSUME LogInv,
         \/ CommandDone \/ (\E length : GdsCommand(length)) \/ UNCHANGED vars
  PROVE  LogInv' /\ UNCHANGED log
<1>1. UNCHANGED <<buffer, pc, loc>>
  BY DEF CommandDone, GdsCommand, vars, sram, buffer
<1>2. (\A d \in Contexts : Placed(loc[d], pc[d]))'
  BY <1>1 DEF LogInv, Placed, buffer, Start
<1>3. HandingOver'
  BY <1>1 DEF LogInv, HandingOver, buffer
<1>4. UNCHANGED log /\ GdsReads'
  BY <1>1, SameLog DEF LogInv
<1> QED
  BY <1>1, <1>2, <1>3, <1>4
  DEF LogInv, Linked, Links, FillerLink, RecordLink, WholeIn, Start, buffer

\* The GDS asks to attach when no write of before is on its way.
LEMMA GdsAttachKeepsLog ==
  ASSUME LogInv, GdsAttach
  PROVE  LogInv' /\ UNCHANGED log
<1>1. /\ UNCHANGED <<setup, overwriteMode, oldest, data, readCursor, writeCursor, gds,
                     pc, loc>>
      /\ attachRequest' /\ gds.pc = "idle"
  BY DEF GdsAttach
<1>2. (\A d \in Contexts : Placed(loc[d], pc[d]))'
  BY <1>1 DEF LogInv, Placed, Start
<1>3. HandingOver' /\ GdsReads'
  BY <1>1 DEF LogInv, HandingOver, GdsReads
<1>4. Start' = Start /\ Held' = Held
  BY <1>1 DEF Start, Held
<1>5. Walk' = Walk
  BY <1>1, WalkIs
<1>6. UNCHANGED log
  BY <1>1, <1>4, <1>5 DEF log, Found
<1> QED
  BY <1>1, <1>2, <1>3, <1>4, <1>6
  DEF LogInv, Linked, Links, FillerLink, RecordLink, WholeIn

\* What is to be shown of the next state.
LEMMA LogInvNext ==
  ASSUME setup' => Linked(data', Start', writeCursor'),
         \A d \in Contexts : Placed(loc[d], pc[d])',
         GdsReads', HandingOver'
  PROVE  LogInv'
BY DEF LogInv, Linked, Links, FillerLink, RecordLink, WholeIn

\* The others place no record, and go on placing none.
LEMMA OnlyHolderPlaces ==
  ASSUME Inv, RingInv, NEW c \in Contexts, Holds(c),
         \A d \in Contexts : d # c => pc'[d] = pc[d],
         Placed(loc[c], pc[c])'
  PROVE  \A d \in Contexts : Placed(loc[d], pc[d])'
<1>1. ASSUME NEW d \in Contexts, d # c PROVE Placed(loc[d], pc[d])'
  <2>1. pc'[d] \notin PlacingLabels
    BY <1>1, OthersNotPlacing
  <2> QED
    BY <2>1 DEF Placed, PlacingLabels, WritingLabels
<1> QED
  BY <1>1

\* While a handler has the buffer Run_handler is not handing it over.
LEMMA HandOverWaits ==
  ASSUME Inv, HandingOver, NEW c \in Contexts, Holds(c),
         pc[c] \notin HandOverLabels,
         \A d \in Contexts : d # c => pc'[d] = pc[d], pc'[c] \notin HandOverLabels,
         UNCHANGED <<setup, overwriteMode, attachRequest>>
  PROVE  HandingOver'
<1>1. pc'[Main] \in HandOverLabels => pc[Main] = pc'[Main] /\ Main # c
  BY ConstantTypes
<1>2. pc[Main] = "runMode" => Main = c
  BY ConstantTypes DEF Inv, BufferExclusive, Holds, HoldingLabels
<1>3. "runMode" \in HandOverLabels
  BY DEF HandOverLabels
<1> QED
  BY <1>1, <1>2, <1>3 DEF HandingOver

-----------------------------------------------------------------------------
(***************************************************************************)
(* Setup, the hand-over, and the GDS.                                      *)
(***************************************************************************)

\* An empty ring.
LEMMA EmptyIsLinked ==
  ASSUME NEW d
  PROVE  Linked(d, 0, 0) /\ Walked(d, 0, 0) = <<>>
<1>1. 0 \in Cursors /\ Distance(0, 0) = 0
  BY RingSizes DEF Cursors, Distance
<1>2. Links(d, 0, 0, {0})
  BY <1>1 DEF Links
<1>3. Walked(d, 0, 0) = <<>>
  BY <1>1, WalkedNothing
<1> QED
  BY <1>1, <1>2, <1>3, RingSizes DEF Linked

\* Setup starts with an empty buffer, which is what the reader has found before.
LEMMA SetupKeepsLog ==
  ASSUME Inv, Inv', LogInv, Setup
  PROVE  LogInv' /\ UNCHANGED log
<1>1. /\ ~ setup /\ pc[Main] = "idle" /\ Executes(Main)
      /\ UNCHANGED <<pc, loc, gds, data>>
      /\ setup' /\ overwriteMode' /\ ~ attachRequest' /\ oldest' = 0 /\ writeCursor' = 0
  BY DEF Setup, At
<1>2. overwriteMode /\ gds.pc # "acknowledge"
  BY <1>1 DEF LogInv, HandingOver, GdsReads
<1>3. \A d \in Contexts : Placed(loc[d], pc[d])'
  <2>1. \A d \in Contexts : pc'[d] = "idle"
    BY <1>1, ConstantTypes DEF Executes, Contexts, Main
  <2> QED
    BY <2>1 DEF Placed, PlacingLabels, WritingLabels
<1>4. GdsReads' /\ HandingOver'
  BY <1>1, <1>2 DEF GdsReads, HandingOver, HandOverLabels
<1>5. Start' = 0
  BY <1>1 DEF Start
<1>6. Linked(data', Start', writeCursor') /\ Walked(data', Start', writeCursor') = <<>>
  BY <1>1, <1>5, EmptyIsLinked
<1>7. Found' = Found
  BY <1>1, <1>6, FoundIsWalked, FoundIsWalkedNext DEF Inv
<1>8. Held' = Held /\ overwriteMode' = overwriteMode
  BY <1>1, <1>2, Zenon DEF Held, Inv, TypeOK
<1> QED
  BY <1>3, <1>4, <1>6, <1>7, <1>8, LogInvNext DEF log

\* A reset forgets the buffer; at the start there is none.
LEMMA ResetIsReset ==
  ASSUME Inv, LogInv, Reset
  PROVE  LogInv' /\ Log!Reset
<1>1. /\ ~ setup' /\ overwriteMode'
      /\ gds'.pc # "acknowledge"
      /\ \A d \in Contexts : pc'[d] = "idle"
  BY DEF Reset, Inv, TypeOK
<1>2. \A d \in Contexts : Placed(loc[d], pc[d])'
  BY <1>1 DEF Placed, PlacingLabels, WritingLabels
<1>3. GdsReads' /\ HandingOver'
  BY <1>1, ConstantTypes DEF GdsReads, HandingOver, HandOverLabels
<1>4. Found' = <<>> /\ Held' = NoRecord
  BY <1>1 DEF Found, Held
<1>5. overwriteMode' = TRUE
  BY DEF Reset
<1> QED
  BY <1>1, <1>2, <1>3, <1>4, <1>5, LogInvNext DEF Log!Reset

LEMMA InitIsInit ==
  ASSUME Init
  PROVE  LogInv /\ Log!Init
<1>1. ~ setup /\ gds.pc = "idle" /\ \A d \in Contexts : pc[d] = "idle"
  BY DEF Init, GdsIdle
<1>2. \A d \in Contexts : Placed(loc[d], pc[d])
  BY <1>1, NotPlaced DEF PlacingLabels, WritingLabels
<1>3. GdsReads /\ HandingOver
  BY <1>1, ConstantTypes DEF GdsReads, HandingOver, HandOverLabels, Init
<1>4. Found = <<>> /\ Held = NoRecord /\ overwriteMode = TRUE
  BY <1>1 DEF Found, Held, Init
<1> QED
  BY <1>1, <1>2, <1>3, <1>4 DEF LogInv, Log!Init

\* The read cursor is moved to where the reader of overwrite mode starts ...
LEMMA HandOverCursorKeepsLog ==
  ASSUME Inv, LogInv, RunHandOverCursor
  PROVE  LogInv' /\ UNCHANGED log
<1>1. /\ pc[Main] = "runCursor" /\ Goto(Main, "runMode") /\ readCursor' = oldest
      /\ UNCHANGED <<setup, overwriteMode, oldest, data, writeCursor, attachRequest,
                     gds, loc>>
  BY DEF RunHandOverCursor, At
<1>2. setup /\ attachRequest /\ overwriteMode
  BY <1>1 DEF LogInv, HandingOver, HandOverLabels
<1>3. /\ pc'[Main] = "runMode" /\ \A d \in Contexts : d # Main => pc'[d] = pc[d]
  BY <1>1, ConstantTypes DEF Inv, TypeOK, Goto
<1>4. Start' = Start
  BY <1>1, <1>2 DEF Start
<1>5. \A d \in Contexts : Placed(loc[d], pc[d])'
  <2>1. ASSUME NEW d \in Contexts, d # Main PROVE Placed(loc[d], pc[d])'
    BY <1>1, <1>3, <1>4, <2>1 DEF LogInv, Placed
  <2>2. Placed(loc[Main], pc[Main])'
    BY <1>3 DEF Placed, PlacingLabels, WritingLabels
  <2> QED
    BY <2>1, <2>2
<1>6. GdsReads' /\ HandingOver'
  BY <1>1, <1>2, <1>3 DEF LogInv, GdsReads, HandingOver, HandOverLabels
<1>7. Walk' = Walk
  BY <1>1, WalkIs
<1>8. UNCHANGED log
  BY <1>1, <1>4, <1>7 DEF log, Found, Held
<1>9. setup' => Linked(data', Start', writeCursor')
  BY <1>1, <1>4 DEF LogInv
<1> QED
  BY <1>5, <1>6, <1>8, <1>9, LogInvNext

\* ... so that leaving overwrite mode hands the log over as it stands.
LEMMA LeaveOverwriteModeIsHandoff ==
  ASSUME Inv, LogInv, RunLeaveOverwriteMode
  PROVE  LogInv' /\ Log!Handoff
<1>1. /\ pc[Main] = "runMode" /\ Goto(Main, "runRelease") /\ overwriteMode' = FALSE
      /\ UNCHANGED <<setup, oldest, data, readCursor, writeCursor, attachRequest,
                     gds, loc>>
  BY DEF RunLeaveOverwriteMode, At, sram
<1>2. setup /\ attachRequest /\ overwriteMode /\ readCursor = oldest
  BY <1>1 DEF LogInv, HandingOver, HandOverLabels
<1>3. /\ pc'[Main] = "runRelease" /\ \A d \in Contexts : d # Main => pc'[d] = pc[d]
  BY <1>1, ConstantTypes DEF Inv, TypeOK, Goto
<1>4. Start' = Start
  BY <1>1, <1>2 DEF Start
<1>5. \A d \in Contexts : Placed(loc[d], pc[d])'
  <2>1. ASSUME NEW d \in Contexts, d # Main PROVE Placed(loc[d], pc[d])'
    BY <1>1, <1>3, <1>4, <2>1 DEF LogInv, Placed
  <2>2. Placed(loc[Main], pc[Main])'
    BY <1>3 DEF Placed, PlacingLabels, WritingLabels
  <2> QED
    BY <2>1, <2>2
<1>6. GdsReads' /\ HandingOver'
  BY <1>1, <1>2, <1>3 DEF LogInv, GdsReads, HandingOver, HandOverLabels
<1>7. Walk' = Walk
  BY <1>1, WalkIs
<1>8. Found' = Found /\ Held' = Held
  BY <1>1, <1>4, <1>7 DEF Found, Held
<1>9. setup' => Linked(data', Start', writeCursor')
  BY <1>1, <1>4 DEF LogInv
<1> QED
  BY <1>1, <1>2, <1>5, <1>6, <1>8, <1>9, LogInvNext DEF Log!Handoff

\* What the reader finds first at the read cursor.
LEMMA FirstFound ==
  ASSUME Inv, LogInv, setup, Start # writeCursor
  PROVE  LET b == Start
             w == writeCursor
         IN  /\ After(data, b) \in Cursors /\ Linked(data, After(data, b), w)
             /\ Distance(After(data, b), w) <= Distance(b, w)
             /\ Walked(data, After(data, b), w) \in Seq(Record)
             /\ Found = Walked(data, b, w)
             /\ data[Rel(b)].kind = "header" =>
                  /\ RecordAt(data, b) \in Record
                  /\ Found = <<RecordAt(data, b)>> \o Walked(data, After(data, b), w)
             /\ data[Rel(b)].kind # "header" =>
                  Found = Walked(data, After(data, b), w)
<1> DEFINE b == Start
           w == writeCursor
<1>1. b \in Cursors /\ w \in Cursors /\ data \in [Offsets -> Word] /\ b # w
  BY StartType DEF Inv
<1>2. Linked(data, b, w) /\ Found = Walked(data, b, w)
  BY FoundIsWalked DEF LogInv, Inv
<1> HIDE DEF b, w
<1>3. PICK B \in SUBSET Cursors : Links(data, b, w, B)
  BY <1>2 DEF Linked
<1>4. Distance(b, w) <= DataSize /\ b \in B
  BY <1>2, <1>3 DEF Linked, Links
<1>5. /\ After(data, b) \in B
      /\ data[Rel(b)].kind = "header" =>
           /\ RecordAt(data, b) \in Record
           /\ Walked(data, b, w) = <<RecordAt(data, b)>> \o Walked(data, After(data, b), w)
      /\ data[Rel(b)].kind # "header" =>
           Walked(data, b, w) = Walked(data, After(data, b), w)
  BY <1>1, <1>3, <1>4, AfterLink
<1>6. After(data, b) \in Cursors /\ Linked(data, After(data, b), w)
  BY <1>1, <1>3, <1>4, <1>5, LinksFrom
<1>7. Distance(After(data, b), w) <= Distance(b, w)
  BY <1>3, <1>5 DEF Links
<1>8. Walked(data, After(data, b), w) \in Seq(Record)
  BY <1>1, <1>3, <1>4, <1>5, WalkedType
<1> QED
  BY <1>2, <1>5, <1>6, <1>7, <1>8 DEF b, w

\* Head and tail of what is found.
LEMMA HeadOfFound ==
  ASSUME NEW r \in Record, NEW s \in Seq(Record)
  PROVE  /\ <<r>> \o s # <<>> /\ Head(<<r>> \o s) = r /\ Tail(<<r>> \o s) = s
         /\ r # NoRecord
<1>1. r.size # 0
  BY RecordSizeType DEF Record
<1> QED
  BY <1>1 DEF NoRecord

\* The GDS reads the record at the head of the log, or a filler.
LEMMA GdsReadIsTake ==
  ASSUME Inv, LogInv, GdsRead
  PROVE  LogInv' /\ (Log!Take \/ UNCHANGED log)
<1> DEFINE word == data[Rel(readCursor)]
<1>1. /\ setup /\ ~ overwriteMode /\ gds.pc = "idle" /\ readCursor # writeCursor
      /\ gds' = [pc |-> "acknowledge", word |-> word,
                 cursor |-> Forward(readCursor, SizeOf(word))]
      /\ UNCHANGED <<setup, overwriteMode, oldest, data, readCursor, writeCursor,
                     attachRequest, pc, loc>>
  BY DEF GdsRead, sram
<1>2. Start = readCursor /\ Start' = Start
  BY <1>1 DEF Start
<1>3. (\A d \in Contexts : Placed(loc[d], pc[d]))'
  BY <1>1, <1>2 DEF LogInv, Placed
<1>4. /\ gds'.pc = "acknowledge" /\ gds'.word = word
      /\ gds'.cursor = Forward(readCursor, SizeOf(word))
  BY <1>1
<1>5. GdsReads' /\ HandingOver'
  BY <1>1, <1>4 DEF LogInv, GdsReads, HandingOver
<1>6. Walk' = Walk
  BY <1>1, WalkIs
<1>7. Found' = Found /\ overwriteMode' = overwriteMode
  BY <1>1, <1>2, <1>6 DEF Found
<1>8. LogInv'
  BY <1>1, <1>2, <1>3, <1>5, LogInvNext DEF LogInv
<1>9. Held = NoRecord
  BY <1>1 DEF Held
<1>10. CASE word.kind = "header"
  <2> DEFINE r == RecordAt(data, readCursor)
  <2>1. PICK s \in Seq(Record) : Found = <<r>> \o s /\ r \in Record
    BY <1>1, <1>2, <1>10, FirstFound
  <2>2. Held' = r
    BY <1>4, <1>10 DEF Held, RecordAt
  <2>3. Found # <<>> /\ Head(Found) = r /\ r # NoRecord
    BY <2>1, HeadOfFound
  <2>4. Log!Take
    BY <1>1, <1>7, <1>9, <2>2, <2>3 DEF Log!Take
  <2> QED
    BY <1>8, <2>4
<1>11. CASE word.kind # "header"
  <2>1. Held' = NoRecord
    BY <1>4, <1>11 DEF Held
  <2> QED
    BY <1>7, <1>8, <1>9, <2>1 DEF log
<1> QED
  BY <1>10, <1>11

\* The GDS moves the read cursor past what it has read: a record, which leaves the
\* log, or a filler. A write of before a reset moves a cursor nobody reads at.
LEMMA GdsAcknowledgeIsAcknowledge ==
  ASSUME Inv, Inv', LogInv, GdsAcknowledge
  PROVE  LogInv' /\ (Log!Acknowledge \/ UNCHANGED log)
<1>1. /\ gds.pc \in {"acknowledge", "stale"} /\ readCursor' = gds.cursor
      /\ gds' = GdsIdle
      /\ UNCHANGED <<setup, overwriteMode, oldest, data, writeCursor, attachRequest,
                     pc, loc>>
  BY DEF GdsAcknowledge
<1>2. gds'.pc = "idle" /\ Held' = NoRecord
  BY <1>1 DEF GdsIdle, Held
<1>3. Walk' = Walk
  BY <1>1, WalkIs
<1>4. CASE gds.pc = "stale"
  <2>1. overwriteMode /\ (setup => ~ attachRequest)
    BY <1>4 DEF LogInv, GdsReads, HandingOver
  <2>2. Start' = Start
    BY <1>1, <2>1 DEF Start
  <2>3. (\A d \in Contexts : Placed(loc[d], pc[d]))'
    BY <1>1, <2>2 DEF LogInv, Placed
  <2>4. GdsReads' /\ HandingOver'
    BY <1>1, <1>2, <2>1 DEF LogInv, GdsReads, HandingOver, HandOverLabels
  <2>5. LogInv'
    BY <1>1, <2>2, <2>3, <2>4, LogInvNext DEF LogInv
  <2>6. Held = NoRecord
    BY <1>4 DEF Held
  <2>7. UNCHANGED log
    BY <1>1, <1>2, <1>3, <2>2, <2>6 DEF log, Found
  <2> QED
    BY <2>5, <2>7
<1>5. CASE gds.pc = "acknowledge"
  <2> DEFINE b == readCursor
             w == writeCursor
             f == After(data, b)
  <2>1. /\ setup /\ ~ overwriteMode /\ b # w /\ gds.word = data[Rel(b)]
        /\ gds.cursor = f
    BY <1>5 DEF LogInv, GdsReads, After, SizeAt
  <2>2. Start = b /\ Start' = f
    BY <1>1, <2>1 DEF Start
  <2>3. /\ f \in Cursors /\ Linked(data, f, w) /\ Distance(f, w) <= Distance(b, w)
        /\ Walked(data, f, w) \in Seq(Record)
        /\ data[Rel(b)].kind = "header" =>
             RecordAt(data, b) \in Record /\ Found = <<RecordAt(data, b)>> \o Walked(data, f, w)
        /\ data[Rel(b)].kind # "header" => Found = Walked(data, f, w)
    BY <2>1, <2>2, FirstFound
  <2> HIDE DEF b, w, f
  <2>4. (\A d \in Contexts : Placed(loc[d], pc[d]))'
    <3>1. ASSUME NEW d \in Contexts, pc[d] \in WritingLabels
          PROVE  Needed(w, loc[d].size) + Distance(f, w) <= DataSize
      <4> DEFINE n == Needed(w, loc[d].size)
      <4>1. n + Distance(b, w) <= DataSize
        BY <2>2, <3>1 DEF LogInv, Placed, w
      <4>2. w \in Cursors /\ b \in Cursors
        BY DEF Inv, TypeOK, w, b
      <4>3. Distance(b, w) \in Nat /\ Distance(f, w) \in Nat
        BY <2>3, <4>2, DistanceType
      <4>4. n \in Int
        <5>1. loc[d].size \in RecordSizes
          BY <3>1 DEF LogInv, Placed, PlacingLabels
        <5> QED
          BY <4>2, <5>1, RecordSizeType, NeededType
      <4> HIDE DEF n
      <4>5. n + Distance(f, w) <= DataSize
        BY <2>3, <4>1, <4>3, <4>4, RingSizes
      <4> QED
        BY <4>5 DEF n
    <3> QED
      BY <1>1, <2>2, <3>1 DEF LogInv, Placed, w
  <2>5. GdsReads' /\ HandingOver'
    BY <1>1, <1>2, <2>1 DEF LogInv, GdsReads, HandingOver, HandOverLabels
  <2>6. data' = data /\ writeCursor' = w
    BY <1>1 DEF w
  <2>7. LogInv'
    BY <2>2, <2>3, <2>4, <2>5, <2>6, LogInvNext
  <2>8. Found' = Walked(data, f, w)
    BY <1>1, <2>1, <2>2, <2>3, <2>6, FoundIsWalkedNext DEF Inv
  <2>9. CASE data[Rel(b)].kind = "header"
    <3> DEFINE r == RecordAt(data, b)
    <3>1. Held = r
      BY <1>5, <2>1, <2>9 DEF Held, RecordAt
    <3>2. Found # <<>> /\ Head(Found) = r /\ Tail(Found) = Found' /\ r # NoRecord
      BY <2>3, <2>8, <2>9, HeadOfFound
    <3>3. Log!Acknowledge
      BY <1>1, <1>2, <2>1, <3>1, <3>2 DEF Log!Acknowledge
    <3> QED
      BY <2>7, <3>3
  <2>10. CASE data[Rel(b)].kind # "header"
    <3>1. Held = NoRecord
      BY <2>1, <2>10 DEF Held
    <3> QED
      BY <1>1, <1>2, <2>3, <2>7, <2>8, <2>10, <3>1 DEF log
  <2> QED
    BY <2>9, <2>10
<1> QED
  BY <1>1, <1>4, <1>5

-----------------------------------------------------------------------------
(***************************************************************************)
(* A record is written, and published.                                     *)
(***************************************************************************)

\* What the reader has still to read is neither where the record goes nor where the
\* filler before it goes.
LEMMA WindowIsFree ==
  ASSUME Inv, RingInv, LogInv, NEW c \in Contexts, pc[c] \in WritingLabels,
         NEW x \in Cursors, x # writeCursor,
         Distance(x, writeCursor) <= Distance(Start, writeCursor)
  PROVE  LET p == loc[c].place
         IN  /\ Rel(x) < p.addr \/ Rel(x) >= p.addr + loc[c].size
             /\ p.wrap => Rel(x) < Rel(writeCursor)
<1> DEFINE w == writeCursor
           size == loc[c].size
           p == loc[c].place
           q == ItemFitsInBuffer(Start, w, size)
<1>1. /\ Start \in Cursors /\ w \in Cursors
  BY StartType DEF Inv
<1>2. size \in 1 .. MaxRecordSize /\ setup
  BY RecordTypes DEF PlacingLabels
<1>3. /\ Needed(w, size) + Distance(Start, w) <= DataSize
      /\ p.wrap <=> size > DataSize - Rel(w)
      /\ p.addr = IF p.wrap THEN 0 ELSE Rel(w)
  BY DEF LogInv, Placed
<1>4. Distance(Start, w) <= DataSize
  BY <1>2 DEF LogInv, Linked
<1>5. /\ q.fits
      /\ q.wrap <=> size > DataSize - Rel(w)
      /\ q.addr = IF q.wrap THEN 0 ELSE Rel(w)
  BY <1>1, <1>2, <1>3, <1>4, FitsWhenFree
<1>6. /\ Rel(x) < q.addr \/ Rel(x) >= q.addr + size
      /\ q.wrap => Rel(x) < Rel(w)
  BY <1>1, <1>2, <1>4, <1>5, PlaceIsFree
<1>7. (p.wrap <=> q.wrap) /\ p.addr = q.addr
  BY <1>3, <1>5
<1> HIDE DEF q
<1> QED
  BY <1>6, <1>7

\* What is left to show of a step that writes words of the buffer.
LEMMA WriteKeepsLog ==
  ASSUME Inv, Inv', RingInv, LogInv, NEW c \in Contexts, pc[c] \in WritingLabels,
         NEW l \in {"write", "publish"}, Goto(c, l),
         UNCHANGED <<setup, overwriteMode, oldest, readCursor, writeCursor,
                     attachRequest, gds, loc>>,
         \A x \in Cursors :
           /\ x # writeCursor
           /\ Distance(x, writeCursor) <= Distance(Start, writeCursor)
           => data'[Rel(x)] = data[Rel(x)],
         Placed(loc[c], pc[c])'
  PROVE  LogInv' /\ UNCHANGED log
<1> DEFINE w == writeCursor
           s == Start
<1>1. s \in Cursors /\ w \in Cursors /\ Start' = s /\ writeCursor' = w
  BY StartType DEF Inv, Start
<1>2. setup /\ setup' /\ Linked(data, s, w)
  BY RecordTypes DEF PlacingLabels, LogInv
<1>3. \A x \in Cursors :
        x # w /\ Distance(x, w) <= Distance(s, w) => data'[Rel(x)] = data[Rel(x)]
  OBVIOUS
<1> HIDE DEF s, w
<1>4. PICK B \in SUBSET Cursors : Links(data, s, w, B)
  BY <1>2 DEF Linked
<1>5. Distance(s, w) <= DataSize /\ s \in B
  BY <1>2, <1>4 DEF Linked, Links
<1>6. Links(data', s, w, B) /\ \A b \in B : Walked(data', b, w) = Walked(data, b, w)
  BY <1>1, <1>3, <1>4, <1>5, LinksKept
<1>7. Linked(data', s, w) /\ Walked(data', s, w) = Walked(data, s, w)
  BY <1>5, <1>6 DEF Linked
<1>8. Found' = Found
  <2>1. Found = Walked(data, s, w)
    BY <1>2, FoundIsWalked DEF Inv, s, w
  <2>2. Found' = Walked(data', s, w)
    BY <1>1, <1>2, <1>7, FoundIsWalkedNext DEF Inv
  <2> QED
    BY <1>7, <2>1, <2>2
<1>9. Holds(c) /\ pc[c] \notin HandOverLabels
  BY DEF Holds, HoldingLabels, WritingLabels, HandOverLabels
<1>10. /\ pc'[c] = l /\ l \notin HandOverLabels
       /\ \A d \in Contexts : d # c => pc'[d] = pc[d]
  BY DEF Goto, Inv, TypeOK, HandOverLabels
<1>11. \A d \in Contexts : Placed(loc[d], pc[d])'
  BY <1>9, <1>10, OnlyHolderPlaces
<1>12. HandingOver'
  BY <1>9, <1>10, HandOverWaits DEF LogInv
<1>13. GdsReads'
  <2>1. ASSUME gds.pc = "acknowledge"
        PROVE  data'[Rel(readCursor)] = data[Rel(readCursor)]
    <3>1. s = readCursor /\ readCursor # w
      BY <2>1 DEF LogInv, GdsReads, Start, s, w
    <3>2. Distance(s, w) <= Distance(s, w)
      BY <1>1, DistanceType
    <3> QED
      BY <1>1, <1>3, <3>1, <3>2
  <2> QED
    BY <2>1 DEF LogInv, GdsReads
<1>14. Held' = Held
  BY DEF Held
<1>15. LogInv'
  BY <1>1, <1>7, <1>11, <1>12, <1>13, LogInvNext
<1> QED
  BY <1>8, <1>14, <1>15 DEF log

\* The filler goes where there is nothing to read.
LEMMA FillKeepsLog ==
  ASSUME Inv, Inv', RingInv, LogInv, NEW c \in Contexts, FillWraparoundRegion(c)
  PROVE  LogInv' /\ UNCHANGED log
<1> DEFINE w == writeCursor
<1>1. /\ pc[c] = "fill" /\ Goto(c, "write")
      /\ UNCHANGED <<setup, overwriteMode, oldest, readCursor, writeCursor,
                     attachRequest, gds, loc>>
      /\ data' = [i \in Offsets |-> IF i >= Rel(loc[c].write) THEN Filler ELSE data[i]]
  BY DEF FillWraparoundRegion, At
<1>2. loc[c].write = w
  BY <1>1 DEF RingInv, Underway, Placing, WritingLabels
<1>3. /\ loc[c].size \in RecordSizes
      /\ Needed(w, loc[c].size) + Distance(Start, w) <= DataSize
      /\ loc[c].place.wrap <=> loc[c].size > DataSize - Rel(w)
      /\ loc[c].place.addr = IF loc[c].place.wrap THEN 0 ELSE Rel(w)
      /\ loc[c].place.next = Forward(w, Needed(w, loc[c].size))
      /\ loc[c].place.wrap
  BY <1>1 DEF LogInv, Placed, PlacingLabels, WritingLabels
<1>4. ASSUME NEW x \in Cursors, x # w, Distance(x, w) <= Distance(Start, w)
      PROVE  data'[Rel(x)] = data[Rel(x)]
  <2>1. Rel(x) < Rel(w)
    BY <1>1, <1>3, <1>4, WindowIsFree DEF WritingLabels
  <2>2. Rel(x) \in Offsets /\ Rel(w) \in Offsets
    BY RelType DEF Inv, TypeOK
  <2> QED
    BY <1>1, <1>2, <2>1, <2>2, RingSizes DEF Offsets
<1>5. \A i \in Offsets : i >= Rel(w) => data'[i] = Filler
  BY <1>1, <1>2
<1>6. pc'[c] = "write" /\ Start' = Start
  BY <1>1 DEF Goto, Inv, TypeOK, Start
<1>7. Placed(loc[c], pc[c])'
  BY <1>1, <1>3, <1>5, <1>6 DEF Placed
<1> QED
  BY <1>1, <1>4, <1>7, WriteKeepsLog DEF WritingLabels

\* So does the record, which is then whole.
LEMMA WriteRecordKeepsLog ==
  ASSUME Inv, Inv', RingInv, LogInv, NEW c \in Contexts, WriteRecord(c)
  PROVE  LogInv' /\ UNCHANGED log
<1> DEFINE w == writeCursor
           size == loc[c].size
           addr == loc[c].place.addr
           wrap == loc[c].place.wrap
           beyond == addr + size
<1>1. /\ pc[c] = "write" /\ Goto(c, "publish")
      /\ UNCHANGED <<setup, overwriteMode, oldest, readCursor, writeCursor,
                     attachRequest, gds, loc>>
      /\ data' = [i \in Offsets |->
                    IF i = addr THEN Header(size, nextId)
                    ELSE IF i > addr /\ i < beyond THEN Body(nextId)
                    ELSE data[i]]
  BY DEF WriteRecord, At
<1>2. /\ loc[c].write = w /\ beyond <= DataSize
  BY <1>1 DEF RingInv, Underway, Placing, WritingLabels
<1>3. /\ size \in RecordSizes
      /\ Needed(w, size) + Distance(Start, w) <= DataSize
      /\ wrap <=> size > DataSize - Rel(w)
      /\ addr = IF wrap THEN 0 ELSE Rel(w)
      /\ loc[c].place.next = Forward(w, Needed(w, size))
      /\ wrap => \A i \in Offsets : i >= Rel(w) => data[i] = Filler
  BY <1>1 DEF LogInv, Placed, PlacingLabels, WritingLabels
<1>4. size \in 1 .. MaxRecordSize /\ w \in Cursors /\ Start \in Cursors
  BY <1>3, RecordSizeType, StartType DEF Inv
<1>5. Rel(w) \in Nat /\ Rel(w) < DataSize /\ addr \in Offsets
  <2>1. Rel(w) \in Nat /\ Rel(w) < DataSize
    BY <1>4, NeededType
  <2> QED
    BY <1>3, <2>1, RingSizes DEF Offsets
<1>6. ASSUME NEW x \in Cursors, x # w, Distance(x, w) <= Distance(Start, w)
      PROVE  data'[Rel(x)] = data[Rel(x)]
  <2>1. Rel(x) < addr \/ Rel(x) >= beyond
    BY <1>1, <1>6, WindowIsFree DEF WritingLabels
  <2>2. Rel(x) \in Offsets
    BY RelType
  <2> HIDE DEF addr, size
  <2>3. Rel(x) # addr /\ ~ (Rel(x) > addr /\ Rel(x) < beyond)
    BY <1>4, <1>5, <2>1, <2>2, RingSizes DEF Offsets
  <2> QED
    BY <1>1, <2>2, <2>3
<1>7. wrap => \A i \in Offsets : i >= Rel(w) => data'[i] = Filler
  <2>1. ASSUME wrap PROVE addr = 0 /\ size <= Rel(w)
    <3>1. Distance(Start, w) \in Nat
      BY <1>4, DistanceType
    <3>2. Needed(w, size) = DataSize - Rel(w) + size
      BY <1>3, <1>4, <1>5, <2>1, RingSizes DEF Needed
    <3> HIDE DEF size, addr, wrap
    <3> QED
      BY <1>3, <1>4, <1>5, <2>1, <3>1, <3>2, RingSizes
  <2>2. ASSUME wrap, NEW i \in Offsets, i >= Rel(w) PROVE data'[i] = Filler
    <3>1. addr = 0 /\ size <= Rel(w)
      BY <2>1, <2>2
    <3> HIDE DEF addr, size, wrap
    <3>2. i # addr /\ ~ (i < beyond)
      BY <1>4, <1>5, <2>2, <3>1, RingSizes DEF Offsets
    <3> QED
      BY <1>1, <1>3, <2>2, <3>2
  <2> QED
    BY <2>2
<1>8. WholeIn(data', addr) /\ data'[addr].size = size
  <2> HIDE DEF addr, size
  <2>1. data'[addr] = Header(size, nextId)
    BY <1>1, <1>5
  <2>2. data'[addr].kind = "header" /\ data'[addr].size = size /\ data'[addr].id = nextId
    BY <2>1 DEF Header
  <2>3. ASSUME NEW i \in addr + 1 .. addr + size - 1 PROVE data'[i] = Body(nextId)
    <3>1. i \in Offsets /\ i > addr /\ i < beyond
      BY <1>2, <1>4, <1>5, <2>3, RingSizes DEF Offsets
    <3> QED
      BY <1>1, <1>5, <3>1 DEF Offsets
  <2> QED
    BY <1>2, <2>2, <2>3 DEF WholeIn
<1>9. pc'[c] = "publish" /\ Start' = Start
  BY <1>1 DEF Goto, Inv, TypeOK, Start
<1>10. Placed(loc[c], pc[c])'
  BY <1>1, <1>3, <1>7, <1>8, <1>9 DEF Placed
<1> QED
  BY <1>1, <1>6, <1>10, WriteKeepsLog DEF WritingLabels

\* The new write cursor stores the record: it is found behind all the others, and
\* nothing else changes.
LEMMA PublishIsStore ==
  ASSUME Inv, Inv', RingInv, LogInv, NEW c \in Contexts, Publish(c)
  PROVE  LogInv' /\ Log!Store
<1> DEFINE s == Start
           w == writeCursor
           size == loc[c].size
           addr == loc[c].place.addr
           wrap == loc[c].place.wrap
           v == Forward(w, Needed(w, size))
           rec == [size |-> size, id |-> data[addr].id]
<1>1. /\ pc[c] = "publish" /\ writeCursor' = loc[c].place.next
      /\ UNCHANGED <<setup, overwriteMode, oldest, data, readCursor, attachRequest,
                     gds>>
      /\ \E m : Local(c, m)
      /\ \E l \in {"release", "flushed"} : Goto(c, l)
  BY DEF Publish, At
<1>2. PICK l \in {"release", "flushed"} : Goto(c, l)
  BY <1>1
<1>3. /\ pc'[c] = l /\ \A d \in Contexts : d # c => pc'[d] = pc[d]
  BY <1>2 DEF Goto, Inv, TypeOK
<1>4. /\ size \in RecordSizes
      /\ Needed(w, size) + Distance(s, w) <= DataSize
      /\ wrap <=> size > DataSize - Rel(w)
      /\ addr = IF wrap THEN 0 ELSE Rel(w)
      /\ writeCursor' = v
      /\ wrap => \A i \in Offsets : i >= Rel(w) => data[i] = Filler
      /\ WholeIn(data, addr) /\ data[addr].size = size
  BY <1>1 DEF LogInv, Placed, PlacingLabels, WritingLabels
<1>5. /\ s \in Cursors /\ w \in Cursors /\ data \in [Offsets -> Word]
      /\ setup /\ Start' = s
  BY <1>1, StartType, RecordTypes DEF Inv, Start, PlacingLabels, WritingLabels
<1>6. Linked(data, s, w) /\ Found = Walked(data, s, w)
  BY <1>5, FoundIsWalked DEF LogInv, Inv
<1> HIDE DEF s, w, size, addr, wrap
<1>7. addr = IF size > DataSize - Rel(w) THEN 0 ELSE Rel(w)
  BY <1>4
<1>8. size > DataSize - Rel(w) => \A i \in Offsets : i >= Rel(w) => data[i] = Filler
  BY <1>4
<1>9. /\ v \in Cursors /\ Linked(data, s, v) /\ s # v
      /\ rec \in Record
      /\ Walked(data, s, w) \in Seq(Record)
      /\ Walked(data, s, v) = Append(Walked(data, s, w), rec)
  BY <1>4, <1>5, <1>6, <1>7, <1>8, LogGrows
<1> HIDE DEF v, rec
<1>10. Found' = Walked(data, s, v)
  BY <1>1, <1>4, <1>5, <1>9, FoundIsWalkedNext DEF Inv
<1>11. /\ Found \in Seq(Record) /\ rec \in Record /\ Found' = Append(Found, rec)
  BY <1>6, <1>9, <1>10
<1>12. Found' # Found
  <2>1. Len(Append(Found, rec)) = Len(Found) + 1 /\ Len(Found) \in Nat
    BY <1>11
  <2> QED
    BY <1>11, <2>1
<1>13. Held' = Held
  BY <1>1 DEF Held
<1>14. Log!Store
  BY <1>1, <1>11, <1>12, <1>13 DEF Log!Store
<1>15. Holds(c) /\ pc[c] \notin HandOverLabels /\ l \notin HandOverLabels
       /\ l \notin PlacingLabels
  BY <1>1, <1>2
  DEF Holds, HoldingLabels, HandOverLabels, PlacingLabels, WritingLabels
<1>16. \A d \in Contexts : Placed(loc[d], pc[d])'
  <2>1. Placed(loc[c], pc[c])'
    BY <1>3, <1>15 DEF Placed, PlacingLabels, WritingLabels
  <2> QED
    BY <1>3, <1>15, <2>1, OnlyHolderPlaces
<1>17. HandingOver'
  BY <1>1, <1>3, <1>15, HandOverWaits DEF LogInv
<1>18. GdsReads'
  <2>1. gds.pc = "acknowledge" => s = readCursor
    BY DEF LogInv, GdsReads, Start, s
  <2> QED
    BY <1>1, <1>4, <1>9, <2>1 DEF LogInv, GdsReads
<1>19. LogInv'
  BY <1>1, <1>4, <1>5, <1>9, <1>16, <1>17, <1>18, LogInvNext
<1> QED
  BY <1>14, <1>19

\* While words are still to be freed there is a record to evict, or the filler that
\* an eviction has left at the head; the stride over it takes the record that is
\* found first out of the log, and the filler behind it.
LEMMA EvictIsEvict ==
  ASSUME Inv, Inv', RingInv, LogInv, NEW c \in Contexts, Evict(c)
  PROVE  LogInv' /\ (Log!Evict \/ UNCHANGED log)
<1> DEFINE w == writeCursor
           f == Following(data, oldest, w)
           a == After(data, oldest)
           n == loc[c].deficit - loc[c].freed
           m == [loc[c] EXCEPT !.freed = @ + EvictOldestRecord(loc[c].write).freed,
                               !.count = @ + 1]
<1>1. /\ pc[c] = "evict" /\ pc' = pc /\ loc[c].freed < loc[c].deficit
      /\ oldest' = EvictOldestRecord(loc[c].write).oldest
      /\ Local(c, m)
      /\ UNCHANGED <<setup, overwriteMode, data, readCursor, writeCursor, attachRequest,
                     gds>>
  BY DEF Evict, At, sram
<1>2. /\ loc[c] \in Locals /\ loc[c].size \in 1 .. MaxRecordSize /\ setup
      /\ oldest \in Cursors /\ w \in Cursors /\ data \in [Offsets -> Word]
  BY <1>1, RecordTypes DEF PlacingLabels
<1>3. /\ loc[c].write = w /\ overwriteMode
      /\ n = Needed(w, loc[c].size) + Distance(oldest, w) - DataSize
  BY <1>1 DEF RingInv, Underway, Placing, Evicting
<1>4. Start = oldest /\ Start' = oldest' /\ oldest' = f
  BY <1>1, <1>3, EvictIsStride DEF Start
<1>5. oldest # w
  <2>1. oldest = w => Distance(oldest, w) = 0
    BY <1>2, DistanceType
  <2>2. Needed(w, loc[c].size) \in 1 .. DataSize
    BY <1>2, NeededType
  <2>3. loc[c].deficit \in Int /\ loc[c].freed \in Nat
    BY <1>2 DEF Locals
  <2> QED
    BY <1>1, <1>3, <2>1, <2>2, <2>3, RingSizes
<1>6. /\ Walked(data, a, w) \in Seq(Record)
      /\ data[Rel(oldest)].kind = "header" =>
           /\ RecordAt(data, oldest) \in Record
           /\ Found = <<RecordAt(data, oldest)>> \o Walked(data, a, w)
      /\ data[Rel(oldest)].kind # "header" => Found = Walked(data, a, w)
  BY <1>2, <1>4, <1>5, FirstFound
<1>7. Linked(data, oldest, w)
  BY <1>2, <1>4 DEF LogInv
<1> HIDE DEF w, a, f, m, n
<1>8. Linked(data, f, w) /\ Walked(data, a, w) = Walked(data, f, w)
  <2>1. PICK B \in SUBSET Cursors : Links(data, oldest, w, B)
    BY <1>7 DEF Linked
  <2>2. Distance(oldest, w) <= DataSize /\ oldest \in B
    BY <1>7, <2>1 DEF Linked, Links
  <2>3. f \in B /\ Walked(data, a, w) = Walked(data, f, w)
    BY <1>2, <1>5, <2>1, <2>2, StrideLink DEF f, a
  <2> QED
    BY <1>2, <2>1, <2>2, <2>3, LinksFrom
<1>9. Found' = Walked(data, f, w)
  BY <1>1, <1>2, <1>4, <1>8, FoundIsWalkedNext DEF Inv, w
<1>10. Held' = Held
  BY <1>1 DEF Held
<1>11. Log!Evict \/ UNCHANGED log
  <2>1. CASE data[Rel(oldest)].kind = "header"
    <3>1. Found # <<>> /\ Tail(Found) = Found'
      BY <1>6, <1>8, <1>9, <2>1, HeadOfFound
    <3> QED
      BY <1>1, <1>3, <1>10, <3>1 DEF Log!Evict
  <2>2. CASE data[Rel(oldest)].kind # "header"
    BY <1>1, <1>6, <1>8, <1>9, <1>10, <2>2 DEF log
  <2> QED
    BY <2>1, <2>2
<1>12. Holds(c) /\ pc[c] \notin HandOverLabels
  BY <1>1 DEF Holds, HoldingLabels, HandOverLabels
<1>13. \A d \in Contexts : Placed(loc[d], pc[d])'
  <2>1. loc'[c].size = loc[c].size
    BY <1>1, <1>2 DEF Inv, TypeOK, Local, Locals, m
  <2>2. loc[c].size \in RecordSizes
    BY <1>1 DEF LogInv, Placed, PlacingLabels
  <2>3. Placed(loc[c], pc[c])'
    BY <1>1, <2>1, <2>2 DEF Placed, WritingLabels
  <2> QED
    BY <1>1, <1>12, <2>3, OnlyHolderPlaces
<1>14. HandingOver'
  BY <1>1, <1>12, HandOverWaits DEF LogInv
<1>15. GdsReads'
  BY <1>1, <1>3 DEF LogInv, GdsReads
<1>16. setup' => Linked(data', Start', writeCursor')
  BY <1>1, <1>4, <1>8 DEF w
<1> QED
  BY <1>11, <1>13, <1>14, <1>15, <1>16, LogInvNext

-----------------------------------------------------------------------------
(***************************************************************************)
(* The refinement.                                                         *)
(***************************************************************************)

\* A handler's step.
LEMMA HandlerIsLogStep ==
  ASSUME Inv, Inv', RingInv, LogInv, NEW c \in Contexts, Call(c) \/ Proceed(c)
  PROVE  LogInv' /\ (Log!Next \/ UNCHANGED log)
<1>1. CASE \/ \E op, length : ConsoleWrite(c, op, length)
           \/ FlushConsole(c)
           \/ \E newline : StoreChar(c, newline)
           \/ Flushed(c) \/ Full(c) \/ Release(c) \/ Announce(c) \/ Return(c)
  BY <1>1, CallKeepsLog
<1>2. CASE \E size \in EventSizes, fatal \in Fatals : LogRecv(c, size, fatal)
  BY <1>2, LogRecvKeepsLog
<1>3. CASE FlushConsoleBuffer(c) \/ Place(c) \/ Evicted(c)
  BY <1>3, FlushConsoleBufferKeepsLog, PlaceKeepsLog, EvictedKeepsLog
<1>4. CASE FillWraparoundRegion(c) \/ WriteRecord(c)
  BY <1>4, FillKeepsLog, WriteRecordKeepsLog
<1>5. CASE Evict(c)
  BY <1>5, EvictIsEvict DEF Log!Next
<1>6. CASE Publish(c)
  BY <1>6, PublishIsStore DEF Log!Next
<1> QED
  BY <1>1, <1>2, <1>3, <1>4, <1>5, <1>6, Zenon DEF Call, Proceed

\* Every step of the component is one of the log, or none.
LEMMA NextIsLogStep ==
  ASSUME Inv, Inv', RingInv, LogInv, [Next]_vars
  PROVE  LogInv' /\ (Log!Next \/ UNCHANGED log)
<1>1. CASE Setup
  BY <1>1, SetupKeepsLog
<1>2. CASE \E c \in Contexts : Call(c) \/ Proceed(c)
  BY <1>2, HandlerIsLogStep
<1>3. CASE RunHandler \/ RunAcquire \/ RunRelease \/ CheckCommandBuffer
  BY <1>3, RunKeepsLog
<1>4. CASE RunHandOverCursor
  BY <1>4, HandOverCursorKeepsLog
<1>5. CASE RunLeaveOverwriteMode
  BY <1>5, LeaveOverwriteModeIsHandoff DEF Log!Next
<1>6. CASE CommandDone \/ (\E length : GdsCommand(length)) \/ UNCHANGED vars
  BY <1>6, ElsewhereKeepsLog
<1>7. CASE GdsAttach
  BY <1>7, GdsAttachKeepsLog
<1>8. CASE GdsRead
  BY <1>8, GdsReadIsTake DEF Log!Next
<1>9. CASE GdsAcknowledge
  BY <1>9, GdsAcknowledgeIsAcknowledge DEF Log!Next
<1>10. CASE Reset
  BY <1>10, ResetIsReset DEF Log!Next
<1> QED
  BY <1>1, <1>2, <1>3, <1>4, <1>5, <1>6, <1>7, <1>8, <1>9, <1>10, Zenon
  DEF Next, Run, Gds

\* The invariant behind the two theorems that follow: from where the reader starts up
\* to the write cursor the buffer holds whole records and filler to its edge, one
\* behind the other, and what is being written or read at the moment is in its place.
THEOREM LogInvariance == Spec => [](Inv /\ RingInv /\ LogInv)
<1>1. Init => Inv /\ RingInv /\ LogInv
  BY InitInv, AtStartRing, InitIsInit
<1>2. Inv /\ RingInv /\ LogInv /\ [Next]_vars => (Inv /\ RingInv /\ LogInv)'
  BY NextKeepsInv, NextKeepsRing, NextIsLogStep
<1> QED
  BY <1>1, <1>2, PTL DEF Spec

\* Whoever reads the buffer, at any moment and between any two steps of any handlers,
\* finds whole records from the first header to the published write cursor: data is
\* written before the cursor that publishes it, and never over a record that is still
\* to be read.
THEOREM ReadersFindRecords == Spec => []ReaderFindsWholeRecords
<1>1. ASSUME Inv, LogInv PROVE Found \in Seq(Record)
  <2>1. CASE setup
    <3>1. /\ Start \in Cursors /\ writeCursor \in Cursors /\ data \in [Offsets -> Word]
          /\ Linked(data, Start, writeCursor)
      BY <1>1, <2>1, StartType DEF Inv, LogInv
    <3>2. PICK B \in SUBSET Cursors : Links(data, Start, writeCursor, B)
      BY <3>1 DEF Linked
    <3>3. Distance(Start, writeCursor) <= DataSize /\ Start \in B
      BY <3>1, <3>2 DEF Linked, Links
    <3>4. Walked(data, Start, writeCursor) \in Seq(Record)
      BY <3>1, <3>2, <3>3, WalkedType
    <3> QED
      BY <1>1, <2>1, <3>1, <3>4, FoundIsWalked DEF Inv
  <2>2. CASE ~ setup
    BY <2>2, FoundIsWalked
  <2> QED
    BY <2>1, <2>2
<1>2. Torn \notin Record
  <2>1. 0 \notin RecordSizes
    BY RecordSizeType
  <2> QED
    BY <2>1 DEF Torn, Record
<1>3. Inv /\ LogInv => ReaderFindsWholeRecords
  BY <1>1, <1>2 DEF ReaderFindsWholeRecords
<1> QED
  BY <1>3, LogInvariance, PTL

\* GdsStream implements RecordLog, for every size of the buffer, every set of event
\* sizes and every number of interrupt priorities: a record is lost only by eviction
\* before the GDS has attached, and from then on the GDS is given every stored record,
\* whole and in order.
THEOREM StreamImplementsRecordLog == Spec => ImplementsRecordLog
<1>1. Init => Log!Init
  BY InitIsInit
<1>2. Inv /\ RingInv /\ LogInv /\ (Inv /\ RingInv /\ LogInv)' /\ [Next]_vars
        => [Log!Next]_(Log!vars)
  BY NextIsLogStep DEF log, Log!vars
<1> QED
  BY <1>1, <1>2, LogInvariance, PTL DEF Spec, ImplementsRecordLog, Log!Spec

=============================================================================
