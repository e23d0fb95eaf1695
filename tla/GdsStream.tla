------------------------------ MODULE GdsStream ------------------------------
(***************************************************************************)
(* Va416x0/Svc/GdsStream: events and console output are stored as records  *)
(* in a ring buffer in external SRAM, which the GDS reads over the debug   *)
(* port while the flight software runs.                                    *)
(*                                                                         *)
(* Actors.  Context 0 is the main loop; contexts 1..Irqs are interrupt     *)
(* handlers of rising priority. A context runs only while every context    *)
(* above it is idle, so a handler runs to completion over whatever it      *)
(* preempted. The GDS runs truly concurrently with all of them.            *)
(*                                                                         *)
(* Units.  Sizes and cursors are counted in U16 words: every record is     *)
(* rounded up to one (eventSize, consoleSize). Cursors are kept modulo     *)
(* twice the size of the buffer, as in the code.                           *)
(***************************************************************************)
EXTENDS Integers, FiniteSets

CONSTANTS
  DataSize,        \* words of the event buffer (EVENT_BUFFER_DATA_SIZE)
  EventSizes,      \* words of the events that are reported
  Fatals,          \* whether events may be FATAL, or not: a subset of BOOLEAN
  ConsoleOps,      \* the console functions in use: "char", "string", "flush"
  StringLengths,   \* characters of the strings written to the console
  LineBufferSize,  \* characters of the console line buffer
  CommandLengths,  \* lengths the GDS uplinks commands with
  ComBufferMax,    \* FW_COM_BUFFER_MAX_SIZE
  Irqs,            \* number of interrupt priorities that use the component
  Resets,          \* TRUE when the flight computer may be reset
  NumIds,          \* records carry the identities 0..NumIds-1 in turn
  CounterSize      \* the drop counters wrap at this (2^32 in the code)

\* consoleSize: a header byte and the characters, rounded up to a word.
ConsoleSize(length) == (length + 2) \div 2

RecordSizes == EventSizes \cup {ConsoleSize(n) : n \in 1 .. LineBufferSize}

\* MAX_RECORD_SIZE
MaxRecordSize == CHOOSE n \in RecordSizes : \A m \in RecordSizes : m <= n

\* EVICTION_LOOP_MAX_COUNT: the largest record over an empty console entry.
EvictionLoopMaxCount == MaxRecordSize \div ConsoleSize(0)

\* FILLER_REGION_START
FillerRegionStart == DataSize - MaxRecordSize

ASSUME SizesAssumption ==
  /\ DataSize \in Nat /\ LineBufferSize \in Nat \ {0}
  /\ EventSizes \subseteq Nat \ {0} /\ IsFiniteSet(EventSizes)
  /\ MaxRecordSize \in Nat \ {0}
  /\ \A n \in RecordSizes : n <= MaxRecordSize
  /\ 2 * MaxRecordSize <= DataSize

ASSUME ActorsAssumption ==
  /\ Fatals \subseteq BOOLEAN
  /\ ConsoleOps \subseteq {"char", "string", "flush"}
  /\ StringLengths \subseteq Nat \ {0}
  /\ CommandLengths \subseteq Nat \ {0} /\ ComBufferMax \in Nat
  /\ Irqs \in Nat /\ Resets \in BOOLEAN
  /\ NumIds \in Nat \ {0} /\ CounterSize \in Nat \ {0}

Contexts == 0 .. Irqs
Main == 0
Cursors == 0 .. 2 * DataSize - 1
Offsets == 0 .. DataSize - 1
Ids == 0 .. NumIds - 1

(***************************************************************************)
(* A word of the buffer: the header of a record, which gives its size; one *)
(* of the words that follow a header; a filler entry; or anything else.    *)
(***************************************************************************)
Word == [kind : {"header", "body", "filler", "blank"},
         size : 0 .. MaxRecordSize, id : Ids]

Header(size, id) == [kind |-> "header", size |-> size, id |-> id]
Body(id)         == [kind |-> "body",   size |-> 0,    id |-> id]
Filler           == [kind |-> "filler", size |-> 0,    id |-> 0]
Blank            == [kind |-> "blank",  size |-> 0,    id |-> 0]

\* The size the code reads off a header word; a filler is an empty console entry.
SizeOf(word) == IF word.kind = "header" THEN word.size ELSE ConsoleSize(0)

VARIABLES
  setup,           \* m_setup
  overwriteMode,   \* m_overwriteMode
  oldest,          \* m_oldestRecordCursor
  inUse,           \* m_eventBufferInUse
  droppedEvents,   \* m_droppedEvents
  droppedBytes,    \* m_droppedConsoleBytes
  linePos,         \* m_lineBufferPos
  data,            \* SRAM: the words of the event buffer
  readCursor,      \* SRAM: READ_CURSOR
  writeCursor,     \* SRAM: WRITE_CURSOR
  attachRequest,   \* SRAM: GDS_ATTACH_REQUEST is not NONE
  command,         \* SRAM: the command activity indicator
  dispatching,     \* checkCommandBuffer is inside SendCommandPacket_out
  pc, loc,         \* where each context is, and its local variables
  gds,             \* what the GDS is doing
  nextId,          \* identity of the next record, to tell records apart
  asserted         \* a FW_ASSERT has failed

sram == <<data, readCursor, writeCursor, attachRequest, command>>
gdsVars == <<gds, attachRequest>>
vars == <<setup, overwriteMode, oldest, inUse, droppedEvents, droppedBytes,
          linePos, sram, dispatching, pc, loc, gds, nextId, asserted>>

-----------------------------------------------------------------------------
(***************************************************************************)
(* Cursor arithmetic: the masks of the code on the values cursors take.    *)
(***************************************************************************)

\* cursor & EVENT_BUFFER_SIZE_MASK
Rel(cursor) == IF cursor >= DataSize THEN cursor - DataSize ELSE cursor

\* (cursor + size) & EVENT_BUFFER_DOUBLE_SIZE_MASK
Forward(cursor, size) ==
  IF cursor + size >= 2 * DataSize THEN cursor + size - 2 * DataSize
                                   ELSE cursor + size

\* (to - from) & EVENT_BUFFER_DOUBLE_SIZE_MASK
Distance(from, to) == IF from <= to THEN to - from ELSE to - from + 2 * DataSize

(***************************************************************************)
(* itemFitsInBuffer: whether a record of this size fits, where it goes,    *)
(* where the write cursor goes after it, and whether it leaves the rest of *)
(* the buffer behind it unused.                                            *)
(***************************************************************************)
NoFit == [fits |-> FALSE, addr |-> 0, next |-> 0, wrap |-> FALSE]

ItemFitsInBuffer(read, write, size) ==
  LET here == [fits |-> TRUE, addr |-> Rel(write),
               next |-> Forward(write, size), wrap |-> FALSE]
      atStart == [fits |-> TRUE, addr |-> 0,
                  next |-> IF write > DataSize THEN size ELSE DataSize + size,
                  wrap |-> TRUE]
      beforeEdge == size <= DataSize - Rel(write)
  IN  IF read = write
        THEN IF beforeEdge THEN here ELSE atStart
      ELSE IF Rel(read) > Rel(write)
        THEN IF size <= Rel(read) - Rel(write) THEN here ELSE NoFit
      ELSE IF Rel(write) > Rel(read)
        THEN IF beforeEdge THEN here
             ELSE IF size <= Rel(read) THEN atStart ELSE NoFit
      ELSE NoFit

\* Mutant of EvictOldestRecord: stale words at the write cursor pass for filler.
EvictPastWriteCursor(write) ==
  LET size  == SizeOf(data[Rel(oldest)])
      after == Forward(oldest, size)
      edge  == Rel(after)
      skip  == IF edge > FillerRegionStart /\ data[edge].kind = "filler"
               THEN DataSize - edge ELSE 0
  IN  [oldest |-> Forward(after, skip),
       freed  |-> size + skip,
       sound  |-> skip <= Distance(after, write)]

(***************************************************************************)
(* evictOldestRecord: step over the oldest record, and over the filler     *)
(* behind it when the next word, short of the write cursor, is filler.     *)
(***************************************************************************)
EvictOldestRecord(write) ==
  LET size  == SizeOf(data[Rel(oldest)])
      after == Forward(oldest, size)
      edge  == Rel(after)
      onFiller == /\ edge > FillerRegionStart
                  /\ after # write
                  /\ data[edge].kind = "filler"
      skip  == IF onFiller THEN DataSize - edge ELSE 0
  IN  [oldest |-> Forward(after, skip),
       freed  |-> size + skip,
       sound  |-> skip <= Distance(after, write)]

\* Mutant of Deficit: the filler at the edge is not counted as needed.
DeficitWithoutTail(write, size) ==
  LET free == DataSize - Distance(oldest, write)
  IN  IF size > free THEN size - free ELSE 0

\* evictUntilFits: the words to free before a record of this size is placed.
Deficit(write, size) ==
  LET tail   == DataSize - Rel(write)
      needed == IF size <= tail THEN size ELSE tail + size
      free   == DataSize - Distance(oldest, write)
  IN  IF needed > free THEN needed - free ELSE 0

-----------------------------------------------------------------------------
\* The GDS at rest, or with a record read and the cursor behind it at hand.
GdsIdle == [pc |-> "idle", cursor |-> 0, word |-> Blank]

NoLocals == [op |-> "none", fatal |-> FALSE, length |-> 0, written |-> 0,
             counted |-> 0, at |-> "none", ok |-> FALSE, out |-> "none",
             size |-> 0, write |-> 0, place |-> NoFit,
             deficit |-> 0, freed |-> 0, count |-> 0]

Init ==
  /\ setup = FALSE
  /\ overwriteMode = TRUE
  /\ oldest = 0
  /\ inUse = 0
  /\ droppedEvents = 0 /\ droppedBytes = 0
  /\ linePos = 0
  /\ data = [i \in Offsets |-> Blank]
  /\ readCursor = 0 /\ writeCursor = 0
  /\ attachRequest = FALSE
  /\ command = 0
  /\ dispatching = FALSE
  /\ pc = [c \in Contexts |-> "idle"]
  /\ loc = [c \in Contexts |-> NoLocals]
  /\ gds = GdsIdle
  /\ nextId = 0
  /\ asserted = FALSE

\* A context executes only when nothing of higher priority is active.
Executes(c) == ~ asserted /\ \A d \in Contexts : d > c => pc[d] = "idle"

At(c, label) == Executes(c) /\ pc[c] = label

Goto(c, label) == pc' = [pc EXCEPT ![c] = label]

Local(c, locals) == loc' = [loc EXCEPT ![c] = locals]

\* A fetch_add on one of the U32 drop counters.
Count(counter, n) == (counter + n) % CounterSize

\* FW_ASSERT: when the condition does not hold the software stops for good.
Assert(condition) == asserted' = ~ condition

-----------------------------------------------------------------------------
(***************************************************************************)
(* setup: with interrupts disabled, so in one step of the main loop.       *)
(***************************************************************************)
Setup ==
  /\ At(Main, "idle") /\ ~ setup
  /\ readCursor' = 0 /\ writeCursor' = 0
  /\ attachRequest' = FALSE
  /\ overwriteMode' = TRUE
  /\ oldest' = 0
  /\ command' = 0
  /\ setup' = TRUE
  /\ UNCHANGED <<inUse, droppedEvents, droppedBytes, linePos, data,
                 dispatching, pc, loc, gds, nextId, asserted>>

\* Mutant of LogRecv: the result of the exchange is not looked at.
LogRecvUnlocked(c, size, fatal) ==
  /\ At(c, "idle") /\ setup
  /\ inUse' = 1
  /\ Goto(c, "place")
  /\ Local(c, [loc[c] EXCEPT !.op = "log", !.fatal = fatal, !.size = size])
  /\ UNCHANGED <<setup, overwriteMode, oldest, droppedEvents, droppedBytes,
                 linePos, sram, dispatching, gds, nextId, asserted>>

(***************************************************************************)
(* The handlers' entries. Each takes m_eventBufferInUse by exchange, and   *)
(* gives up when it was taken already.                                     *)
(***************************************************************************)
LogRecv(c, size, fatal) ==
  /\ At(c, "idle")
  /\ \/ /\ ~ setup
        /\ droppedEvents' = Count(droppedEvents, 1)
        /\ Goto(c, "return")
        /\ Local(c, [loc[c] EXCEPT !.op = "log", !.fatal = fatal,
                                   !.out = "counted"])
        /\ UNCHANGED inUse
     \/ /\ setup /\ inUse = 1
        /\ Goto(c, "return")
        /\ Local(c, [loc[c] EXCEPT !.op = "log", !.fatal = fatal,
                                   !.out = "inUse"])
        /\ UNCHANGED <<inUse, droppedEvents>>
     \/ /\ setup /\ inUse = 0
        /\ inUse' = 1
        /\ Goto(c, "place")
        /\ Local(c, [loc[c] EXCEPT !.op = "log", !.fatal = fatal,
                                   !.size = size])
        /\ UNCHANGED droppedEvents
  /\ UNCHANGED <<setup, overwriteMode, oldest, droppedBytes, linePos, sram,
                 dispatching, gds, nextId, asserted>>

\* writeChar and writeString, down to the exchange in prepareConsoleWrite.
ConsoleWrite(c, op, length) ==
  /\ At(c, "idle")
  /\ \/ /\ inUse = 1
        /\ droppedBytes' = Count(droppedBytes, length)
        /\ Goto(c, "return")
        /\ Local(c, [loc[c] EXCEPT !.op = op, !.length = length,
                                   !.counted = length, !.out = "inUse"])
        /\ UNCHANGED inUse
     \/ /\ inUse = 0
        /\ inUse' = 1
        /\ Goto(c, IF linePos = LineBufferSize THEN "flush" ELSE "store")
        /\ Local(c, [loc[c] EXCEPT !.op = op, !.length = length,
                                   !.at = "prepare"])
        /\ UNCHANGED droppedBytes
  /\ UNCHANGED <<setup, overwriteMode, oldest, droppedEvents, linePos, sram,
                 dispatching, gds, nextId, asserted>>

FlushConsole(c) ==
  /\ At(c, "idle")
  /\ \/ /\ inUse = 1
        /\ Goto(c, "return")
        /\ Local(c, [loc[c] EXCEPT !.op = "flush", !.out = "inUse"])
        /\ UNCHANGED inUse
     \/ /\ inUse = 0
        /\ inUse' = 1
        /\ Goto(c, "flush")
        /\ Local(c, [loc[c] EXCEPT !.op = "flush", !.at = "explicit"])
  /\ UNCHANGED <<setup, overwriteMode, oldest, droppedEvents, droppedBytes,
                 linePos, sram, dispatching, gds, nextId, asserted>>

(***************************************************************************)
(* The body of writeChar and of the loop of writeString: one character, a  *)
(* newline or not, and a flush when it ends the line or fills the buffer.  *)
(***************************************************************************)
StoreChar(c, newline) ==
  LET l == loc[c]
      last == l.written + 1 = l.length
      next == IF newline \/ linePos + 1 = LineBufferSize THEN "flush"
              ELSE IF last THEN "release" ELSE "store"
  IN  /\ At(c, "store")
      /\ linePos' = linePos + 1
      /\ Local(c, [loc[c] EXCEPT !.written = @ + 1, !.at = "loop"])
      /\ Goto(c, next)
      /\ UNCHANGED <<setup, overwriteMode, oldest, inUse, droppedEvents,
                     droppedBytes, sram, dispatching, gds, nextId, asserted>>

\* flushConsoleBuffer, up to the point where the write cursor is read.
FlushConsoleBuffer(c) ==
  /\ At(c, "flush")
  /\ IF setup /\ linePos > 0
       THEN /\ Goto(c, "place")
            /\ Local(c, [loc[c] EXCEPT !.size = ConsoleSize(linePos)])
       ELSE /\ Goto(c, "flushed")
            /\ Local(c, [loc[c] EXCEPT !.ok = setup])
  /\ UNCHANGED <<setup, overwriteMode, oldest, inUse, droppedEvents,
                 droppedBytes, linePos, sram, dispatching, gds, nextId,
                 asserted>>

\* Mutant of Flushed: writeString breaks off without counting the rest.
FlushedUncounted(c) ==
  LET l == loc[c]
      refused == l.at = "prepare" /\ ~ l.ok
  IN  /\ At(c, "flushed")
      /\ Local(c, [loc[c] EXCEPT !.ok = FALSE])
      /\ inUse' = IF refused THEN 0 ELSE inUse
      /\ Goto(c, IF refused THEN "return"
                 ELSE IF l.ok /\ (l.at = "prepare" \/ l.written < l.length)
                   THEN "store" ELSE "release")
      /\ UNCHANGED <<setup, overwriteMode, oldest, droppedEvents, droppedBytes,
                     linePos, sram, dispatching, gds, nextId, asserted>>

\* Mutant of Flushed: prepareConsoleWrite fails and keeps the buffer.
FlushedKeepsBuffer(c) ==
  LET l == loc[c]
      refused == l.at = "prepare" /\ ~ l.ok
  IN  /\ At(c, "flushed")
      /\ Local(c, [loc[c] EXCEPT !.counted = l.length, !.ok = FALSE])
      /\ Goto(c, IF refused THEN "return"
                 ELSE IF l.ok /\ (l.at = "prepare" \/ l.written < l.length)
                   THEN "store" ELSE "release")
      /\ UNCHANGED <<setup, overwriteMode, oldest, inUse, droppedEvents,
                     droppedBytes, linePos, sram, dispatching, gds, nextId,
                     asserted>>

(***************************************************************************)
(* What the callers of flushConsoleBuffer make of its result. When the     *)
(* flush failed, prepareConsoleWrite gives the buffer back and the whole   *)
(* output is dropped, writeString drops the characters from the one just   *)
(* stored on, writeChar and flushConsole drop nothing.                     *)
(***************************************************************************)
Flushed(c) ==
  LET l == loc[c]
      unwritten ==
        IF l.ok THEN 0
        ELSE IF l.at = "prepare" THEN l.length
        ELSE IF l.op = "string" THEN l.length - (l.written - 1)
        ELSE 0
      more == l.at = "prepare" \/ (l.at = "loop" /\ l.written < l.length)
      refused == l.at = "prepare" /\ ~ l.ok
  IN  /\ At(c, "flushed")
      /\ droppedBytes' = Count(droppedBytes, unwritten)
      /\ Local(c, [loc[c] EXCEPT !.counted = unwritten, !.ok = FALSE])
      /\ inUse' = IF refused THEN 0 ELSE inUse
      /\ Goto(c, IF refused THEN "return"
                 ELSE IF l.ok /\ more THEN "store" ELSE "release")
      /\ UNCHANGED <<setup, overwriteMode, oldest, droppedEvents,
                     linePos, sram, dispatching, gds, nextId, asserted>>

(***************************************************************************)
(* Placing a record. The write cursor is stable while the buffer is in     *)
(* use; of the read cursor the GDS may move the original meanwhile.        *)
(***************************************************************************)
Place(c) ==
  LET l == loc[c]
      read == IF overwriteMode THEN oldest ELSE readCursor
      place == ItemFitsInBuffer(read, writeCursor, l.size)
      next == IF place.fits THEN IF place.wrap THEN "fill" ELSE "write"
              ELSE IF overwriteMode THEN "evict" ELSE "full"
  IN  /\ At(c, "place")
      /\ Goto(c, next)
      /\ Local(c, [loc[c] EXCEPT !.write = writeCursor, !.place = place,
                                 !.deficit = IF next = "evict"
                                             THEN Deficit(writeCursor, l.size)
                                             ELSE 0])
      /\ Assert(next = "evict" => Distance(oldest, writeCursor) <= DataSize)
      /\ UNCHANGED <<setup, overwriteMode, oldest, inUse, droppedEvents,
                     droppedBytes, linePos, sram, dispatching, gds, nextId>>

\* One iteration of the loop of evictUntilFits.
Evict(c) ==
  LET l == loc[c]
      evicted == EvictOldestRecord(l.write)
  IN  /\ At(c, "evict")
      /\ l.freed < l.deficit /\ l.count < EvictionLoopMaxCount
      /\ oldest' = evicted.oldest
      /\ Local(c, [loc[c] EXCEPT !.freed = @ + evicted.freed,
                                 !.count = @ + 1])
      /\ Assert(evicted.sound)
      /\ UNCHANGED <<setup, overwriteMode, inUse, droppedEvents, droppedBytes,
                     linePos, sram, dispatching, pc, gds, nextId>>

\* The loop has ended; the fit is checked once more.
Evicted(c) ==
  LET l == loc[c]
      place == ItemFitsInBuffer(oldest, l.write, l.size)
      next == IF place.fits THEN IF place.wrap THEN "fill" ELSE "write"
              ELSE "full"
  IN  /\ At(c, "evict")
      /\ ~ (l.freed < l.deficit /\ l.count < EvictionLoopMaxCount)
      /\ Goto(c, next)
      /\ Local(c, [loc[c] EXCEPT !.place = place, !.deficit = 0, !.freed = 0,
                                 !.count = 0])
      /\ UNCHANGED <<setup, overwriteMode, oldest, inUse, droppedEvents,
                     droppedBytes, linePos, sram, dispatching, gds, nextId,
                     asserted>>

\* No room: the event is dropped, or the flush has failed.
Full(c) ==
  LET isLog == loc[c].op = "log"
  IN  /\ At(c, "full")
      /\ droppedEvents' = IF isLog THEN Count(droppedEvents, 1)
                                   ELSE droppedEvents
      /\ Local(c, [loc[c] EXCEPT !.out = IF isLog THEN "counted" ELSE @])
      /\ Goto(c, IF isLog THEN "release" ELSE "flushed")
      /\ UNCHANGED <<setup, overwriteMode, oldest, inUse, droppedBytes,
                     linePos, sram, dispatching, gds, nextId, asserted>>

\* Mutant of FillWraparoundRegion: old words stay between the last record and
\* the edge.
FillNothing(c) ==
  /\ At(c, "fill")
  /\ Goto(c, "write")
  /\ UNCHANGED <<setup, overwriteMode, oldest, inUse, droppedEvents,
                 droppedBytes, linePos, sram, dispatching, loc, gds, nextId,
                 asserted>>

\* fillWraparoundRegion
FillWraparoundRegion(c) ==
  /\ At(c, "fill")
  /\ data' = [i \in Offsets |->
                IF i >= Rel(loc[c].write) THEN Filler ELSE data[i]]
  /\ Goto(c, "write")
  /\ UNCHANGED <<setup, overwriteMode, oldest, inUse, droppedEvents,
                 droppedBytes, linePos, readCursor, writeCursor,
                 attachRequest, command, dispatching, loc, gds, nextId,
                 asserted>>

\* writeEvent or writeConsoleBuffer: the header and what follows it.
WriteRecord(c) ==
  LET l == loc[c]
      first == l.place.addr
      beyond == first + l.size
  IN  /\ At(c, "write")
      /\ data' = [i \in Offsets |->
                    IF i = first THEN Header(l.size, nextId)
                    ELSE IF i > first /\ i < beyond THEN Body(nextId)
                    ELSE data[i]]
      /\ nextId' = (nextId + 1) % NumIds
      /\ Goto(c, "publish")
      /\ Assert(beyond <= DataSize)
      /\ UNCHANGED <<setup, overwriteMode, oldest, inUse, droppedEvents,
                     droppedBytes, linePos, readCursor, writeCursor,
                     attachRequest, command, dispatching, loc, gds>>

\* The new write cursor goes out last; a flush then empties the line buffer.
Publish(c) ==
  LET isLog == loc[c].op = "log"
  IN  /\ At(c, "publish")
      /\ writeCursor' = loc[c].place.next
      /\ linePos' = IF isLog THEN linePos ELSE 0
      /\ Local(c, [loc[c] EXCEPT !.out = IF isLog THEN "stored" ELSE @,
                                 !.ok = ~ isLog, !.size = 0, !.write = 0,
                                 !.place = NoFit])
      /\ Goto(c, IF isLog THEN "release" ELSE "flushed")
      /\ UNCHANGED <<setup, overwriteMode, oldest, inUse, droppedEvents,
                     droppedBytes, data, readCursor, attachRequest, command,
                     dispatching, gds, nextId, asserted>>

\* m_eventBufferInUse = 0, and the way out of the handler.
Release(c) ==
  LET announce == loc[c].fatal /\ loc[c].out = "stored"
  IN  /\ At(c, "release")
      /\ inUse' = 0
      /\ Goto(c, IF announce THEN "announce" ELSE "return")
      /\ UNCHANGED <<setup, overwriteMode, oldest, droppedEvents, droppedBytes,
                     linePos, sram, dispatching, loc, gds, nextId, asserted>>

\* FatalAnnounce_out: after it, the FATAL handler is expected to reset the CPU.
Announce(c) ==
  /\ At(c, "announce")
  /\ Local(c, [loc[c] EXCEPT !.out = "announced"])
  /\ Goto(c, "return")
  /\ UNCHANGED <<setup, overwriteMode, oldest, inUse, droppedEvents,
                 droppedBytes, linePos, sram, dispatching, gds, nextId,
                 asserted>>

Return(c) ==
  /\ At(c, "return")
  /\ Local(c, NoLocals)
  /\ Goto(c, "idle")
  /\ UNCHANGED <<setup, overwriteMode, oldest, inUse, droppedEvents,
                 droppedBytes, linePos, sram, dispatching, gds, nextId,
                 asserted>>

-----------------------------------------------------------------------------
\* Mutant of RunHandler: the attach request is not looked at.
RunIgnoresAttach ==
  /\ At(Main, "idle") /\ setup /\ ~ dispatching
  /\ Goto(Main, "runCommand")
  /\ UNCHANGED <<setup, overwriteMode, oldest, inUse, droppedEvents,
                 droppedBytes, linePos, sram, dispatching, loc, gds, nextId,
                 asserted>>

(***************************************************************************)
(* Run_handler, from the main loop: the hand-over of the read cursor when  *)
(* the GDS has asked to attach, then the command buffer. Before setup the  *)
(* handler returns at once, which is no step at all. Telemetry is left     *)
(* out: it copies the two drop counters.                                   *)
(***************************************************************************)
RunHandler ==
  /\ At(Main, "idle") /\ setup /\ ~ dispatching
  /\ Goto(Main, IF overwriteMode /\ attachRequest THEN "runAcquire"
                                                  ELSE "runCommand")
  /\ UNCHANGED <<setup, overwriteMode, oldest, inUse, droppedEvents,
                 droppedBytes, linePos, sram, dispatching, loc, gds, nextId,
                 asserted>>

\* The exchange that, in the main loop, must never find the buffer in use.
RunAcquire ==
  /\ At(Main, "runAcquire")
  /\ Assert(inUse = 0)
  /\ inUse' = 1
  /\ Goto(Main, "runCursor")
  /\ UNCHANGED <<setup, overwriteMode, oldest, droppedEvents, droppedBytes,
                 linePos, sram, dispatching, loc, gds, nextId>>

\* Mutant of RunHandOverCursor: the GDS is left with the cursor of setup.
RunKeepsReadCursor ==
  /\ At(Main, "runCursor")
  /\ Goto(Main, "runMode")
  /\ UNCHANGED <<setup, overwriteMode, oldest, inUse, droppedEvents,
                 droppedBytes, linePos, sram, dispatching, loc, gds, nextId,
                 asserted>>

RunHandOverCursor ==
  /\ At(Main, "runCursor")
  /\ readCursor' = oldest
  /\ Goto(Main, "runMode")
  /\ UNCHANGED <<setup, overwriteMode, oldest, inUse, droppedEvents,
                 droppedBytes, linePos, data, writeCursor, attachRequest,
                 command, dispatching, loc, gds, nextId, asserted>>

RunLeaveOverwriteMode ==
  /\ At(Main, "runMode")
  /\ overwriteMode' = FALSE
  /\ Goto(Main, "runRelease")
  /\ UNCHANGED <<setup, oldest, inUse, droppedEvents, droppedBytes, linePos,
                 sram, dispatching, loc, gds, nextId, asserted>>

RunRelease ==
  /\ At(Main, "runRelease")
  /\ inUse' = 0
  /\ Goto(Main, "runCommand")
  /\ UNCHANGED <<setup, overwriteMode, oldest, droppedEvents, droppedBytes,
                 linePos, sram, dispatching, loc, gds, nextId, asserted>>

(***************************************************************************)
(* checkCommandBuffer. The dispatch is synchronous: until CommandDone the  *)
(* main loop is inside the command's handler, which may report events and  *)
(* write to the console but runs no second Run_handler.                    *)
(***************************************************************************)
CheckCommandBuffer ==
  /\ At(Main, "runCommand")
  /\ Goto(Main, "idle")
  /\ dispatching' = (command # 0)
  /\ Assert(command + (command % 2) < ComBufferMax \/ command = 0)
  /\ UNCHANGED <<setup, overwriteMode, oldest, inUse, droppedEvents,
                 droppedBytes, linePos, sram, loc, gds, nextId>>

\* Mutant of CommandDone: the activity indicator is not cleared.
CommandKept ==
  /\ At(Main, "idle") /\ dispatching
  /\ dispatching' = FALSE
  /\ UNCHANGED <<setup, overwriteMode, oldest, inUse, droppedEvents,
                 droppedBytes, linePos, sram, pc, loc, gds, nextId, asserted>>

CommandDone ==
  /\ At(Main, "idle") /\ dispatching
  /\ command' = 0
  /\ dispatching' = FALSE
  /\ UNCHANGED <<setup, overwriteMode, oldest, inUse, droppedEvents,
                 droppedBytes, linePos, data, readCursor, writeCursor,
                 attachRequest, pc, loc, gds, nextId, asserted>>

-----------------------------------------------------------------------------
(***************************************************************************)
(* The GDS, which is not part of the repository: it asks to attach, reads  *)
(* records from the read cursor once the cursor has been handed to it, and *)
(* moves the cursor past a record after reading it; it writes a command    *)
(* when the command buffer is free. After a reset it must attach again,    *)
(* but a cursor write already on its way still arrives.                    *)
(***************************************************************************)
GdsAttach ==
  /\ ~ attachRequest /\ gds.pc = "idle"
  /\ attachRequest' = TRUE
  /\ UNCHANGED <<setup, overwriteMode, oldest, inUse, droppedEvents,
                 droppedBytes, linePos, data, readCursor, writeCursor,
                 command, dispatching, pc, loc, gds, nextId, asserted>>

GdsRead ==
  /\ setup /\ ~ overwriteMode /\ gds.pc = "idle"
  /\ readCursor # writeCursor
  /\ LET word == data[Rel(readCursor)]
     IN  gds' = [pc |-> "acknowledge", word |-> word,
                 cursor |-> Forward(readCursor, SizeOf(word))]
  /\ UNCHANGED <<setup, overwriteMode, oldest, inUse, droppedEvents,
                 droppedBytes, linePos, sram, dispatching, pc, loc, nextId,
                 asserted>>

GdsAcknowledge ==
  /\ gds.pc \in {"acknowledge", "stale"}
  /\ readCursor' = gds.cursor
  /\ gds' = GdsIdle
  /\ UNCHANGED <<setup, overwriteMode, oldest, inUse, droppedEvents,
                 droppedBytes, linePos, data, writeCursor, attachRequest,
                 command, dispatching, pc, loc, nextId, asserted>>

GdsCommand(length) ==
  /\ command = 0
  /\ command' = length
  /\ UNCHANGED <<setup, overwriteMode, oldest, inUse, droppedEvents,
                 droppedBytes, linePos, data, readCursor, writeCursor,
                 attachRequest, dispatching, pc, loc, gds, nextId, asserted>>

(***************************************************************************)
(* A reset (FATAL, watchdog, power): the memory of the flight software     *)
(* starts over, external SRAM keeps what it held.                          *)
(***************************************************************************)
Reset ==
  /\ Resets
  /\ setup' = FALSE
  /\ overwriteMode' = TRUE
  /\ oldest' = 0
  /\ inUse' = 0
  /\ droppedEvents' = 0 /\ droppedBytes' = 0
  /\ linePos' = 0
  /\ dispatching' = FALSE
  /\ pc' = [c \in Contexts |-> "idle"]
  /\ loc' = [c \in Contexts |-> NoLocals]
  /\ gds' = IF gds.pc = "acknowledge" THEN [gds EXCEPT !.pc = "stale"] ELSE gds
  /\ asserted' = FALSE
  /\ UNCHANGED <<sram, nextId>>

-----------------------------------------------------------------------------
\* A step of a handler that is under way.
Proceed(c) ==
  \/ \E newline \in BOOLEAN : StoreChar(c, newline)
  \/ FlushConsoleBuffer(c) \/ Flushed(c)
  \/ Place(c) \/ Evict(c) \/ Evicted(c) \/ Full(c)
  \/ FillWraparoundRegion(c) \/ WriteRecord(c) \/ Publish(c)
  \/ Release(c) \/ Announce(c) \/ Return(c)

Call(c) ==
  \/ \E size \in EventSizes, fatal \in Fatals : LogRecv(c, size, fatal)
  \/ "char" \in ConsoleOps /\ ConsoleWrite(c, "char", 1)
  \/ /\ "string" \in ConsoleOps
     /\ \E length \in StringLengths : ConsoleWrite(c, "string", length)
  \/ "flush" \in ConsoleOps /\ FlushConsole(c)

Run ==
  \/ RunHandler \/ RunAcquire \/ RunHandOverCursor \/ RunLeaveOverwriteMode
  \/ RunRelease \/ CheckCommandBuffer \/ CommandDone

Gds ==
  \/ GdsAttach \/ GdsRead \/ GdsAcknowledge
  \/ \E length \in CommandLengths : GdsCommand(length)

Next ==
  \/ Setup
  \/ \E c \in Contexts : Call(c) \/ Proceed(c)
  \/ Run
  \/ Gds
  \/ Reset

Spec == Init /\ [][Next]_vars

(***************************************************************************)
(* A handler that has started goes on whenever nothing above it runs, and  *)
(* the main loop comes back to Run_handler on every cycle. Both need       *)
(* strong fairness: an interrupt may come between any two steps, but       *)
(* interrupts leave the main loop time to run.                             *)
(***************************************************************************)
Fairness ==
  /\ \A c \in Contexts : SF_vars(Proceed(c))
  /\ SF_vars(RunHandler)
  /\ SF_vars(RunAcquire \/ RunHandOverCursor \/ RunLeaveOverwriteMode
               \/ RunRelease \/ CheckCommandBuffer)
  /\ SF_vars(CommandDone)

FairSpec == Spec /\ Fairness

-----------------------------------------------------------------------------
(***************************************************************************)
(* Properties.                                                             *)
(***************************************************************************)
Labels == {"idle", "store", "flush", "flushed", "place", "evict", "full",
           "fill", "write", "publish", "release", "announce", "return",
           "runAcquire", "runCursor", "runMode", "runRelease", "runCommand"}

\* The labels at which a context has the event buffer to itself.
HoldingLabels == {"store", "flush", "flushed", "place", "evict", "full",
                  "fill", "write", "publish", "release",
                  "runCursor", "runMode", "runRelease"}

Holds(c) == pc[c] \in HoldingLabels

Places == [fits : BOOLEAN, addr : Offsets, next : Cursors, wrap : BOOLEAN]

Locals == [op : {"none", "log", "char", "string", "flush"}, fatal : BOOLEAN,
           length : Nat, written : Nat, counted : Int,
           at : {"none", "prepare", "loop", "explicit"}, ok : BOOLEAN,
           out : {"none", "inUse", "counted", "stored", "announced"},
           size : 0 .. MaxRecordSize, write : Cursors,
           place : Places,
           deficit : Int, freed : Nat, count : Nat]

\* Every variable stays in the range its C++ type and its writers give it.
TypeOK ==
  /\ setup \in BOOLEAN /\ overwriteMode \in BOOLEAN /\ asserted \in BOOLEAN
  /\ oldest \in Cursors /\ readCursor \in Cursors /\ writeCursor \in Cursors
  /\ inUse \in {0, 1}
  /\ droppedEvents \in 0 .. CounterSize - 1
  /\ droppedBytes \in 0 .. CounterSize - 1
  /\ linePos \in 0 .. LineBufferSize
  /\ data \in [Offsets -> Word]
  /\ attachRequest \in BOOLEAN /\ dispatching \in BOOLEAN
  /\ command \in CommandLengths \cup {0}
  /\ pc \in [Contexts -> Labels]
  /\ loc \in [Contexts -> Locals]
  /\ gds \in [pc : {"idle", "acknowledge", "stale"}, cursor : Cursors,
              word : Word]
  /\ nextId \in Ids

\* No FW_ASSERT of the component fails: in particular the main loop never
\* finds the event buffer in use in Run_handler (GdsStream.cpp:673), eviction
\* never skips filler past the write cursor (:444), and no record is written
\* past the end of the buffer (:302).
NoAssertion == ~ asserted

\* At most one context is between taking and giving back the event buffer,
\* and the in-use flag says exactly whether one is (:690-742).
BufferExclusive ==
  /\ inUse = 1 <=> \E c \in Contexts : Holds(c)
  /\ \A c, d \in Contexts : Holds(c) /\ Holds(d) => c = d

\* The main loop never loses an event or console output to the in-use flag:
\* only a handler that interrupted its holder does.
OnlyInterruptersRefused ==
  \A c \in Contexts :
    loc[c].out = "inUse" => \E d \in Contexts : d < c /\ Holds(d)

\* A character is stored only inside the line buffer, whatever became of the
\* earlier flushes (writeChar ignores the result of its flush, :520).
LineBufferInBounds ==
  \A c \in Contexts : pc[c] = "store" => linePos < LineBufferSize

\* No console output vanishes nor strays, whatever flushes fail: characters are
\* stored inside the line buffer, and when writeChar or writeString returns, each of
\* them was stored or counted in m_droppedConsoleBytes (:503-552).
ConsoleOutputAccounted ==
  /\ LineBufferInBounds
  /\ \A c \in Contexts :
       pc[c] = "return" /\ loc[c].op \in {"char", "string"} =>
         loc[c].written + loc[c].counted >= loc[c].length

\* docs/sdd.md, "the amount freed is exact": when the eviction loop has
\* covered its deficit, the record fits.
EvictionSuffices ==
  \A c \in Contexts :
    pc[c] = "evict" /\ loc[c].freed >= loc[c].deficit =>
      ItemFitsInBuffer(oldest, loc[c].write, loc[c].size).fits

\* Once set up, the component hands the buffer to a GDS that asked for it
\* (Run_handler, :663-678).
AttachIsHandedOver == attachRequest /\ setup ~> ~ overwriteMode

\* Once set up, the component executes a command the GDS has written and
\* frees the command buffer for the next one (:680, :650).
CommandIsConsumed == command # 0 /\ setup ~> command = 0

-----------------------------------------------------------------------------
(***************************************************************************)
(* What comments and documents say of the component, and the code does not *)
(* do.                                                                     *)
(***************************************************************************)

\* docs/sdd.md: "every incoming Event (and console write) is always accepted,
\* even if the buffer is full", and GdsStream.cpp:172: "Evicting one largest
\* record, and any filler after it, never takes more than this many evictions".
OverwriteModeMakesRoom ==
  \A c \in Contexts : pc[c] = "full" => ~ overwriteMode

\* GdsStream.cpp:742: "If this is a FATAL event, announce over the output port".
FatalIsAnnounced ==
  \A c \in Contexts :
    setup /\ pc[c] = "return" /\ loc[c].op = "log" /\ loc[c].fatal =>
      loc[c].out = "announced"

\* GdsStream.fpp:42: the command buffer is a "comm buffer" long; a command that
\* fits a comm buffer does not stop the software.
FittingCommandAccepted == asserted => command = 0 \/ command > ComBufferMax
=============================================================================
