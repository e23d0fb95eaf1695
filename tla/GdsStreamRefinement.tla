------------------------- MODULE GdsStreamRefinement -------------------------
(***************************************************************************)
(* GdsStream implements RecordLog: what a reader who starts at the oldest  *)
(* record and follows the headers up to the write cursor finds is, at      *)
(* every moment, the queue that RecordLog speaks of.                       *)
(***************************************************************************)
EXTENDS GdsStream, Sequences

Record == [size : RecordSizes, id : Ids]
NoRecord == [size |-> 0, id |-> 0]

\* Something that is not a whole record where a record should be.
Torn == [size |-> 0, id |-> NumIds]

\* Where the reader starts: the oldest record, or the GDS's own cursor.
Start == IF overwriteMode THEN oldest ELSE readCursor

\* The words after the header at this offset are those of the same record.
Whole(offset) ==
  LET header == data[offset]
  IN  /\ header.kind = "header"
      /\ offset + header.size <= DataSize
      /\ \A i \in offset + 1 .. offset + header.size - 1 :
           data[i] = Body(header.id)

\* The records found in the last n words before the write cursor.
Walk[n \in 0 .. DataSize] ==
  IF n = 0 THEN <<>>
  ELSE LET offset == Rel(Forward(writeCursor, 2 * DataSize - n))
           word == data[offset]
       IN  IF word.kind = "filler" THEN Walk[n - 1]
           ELSE IF Whole(offset) /\ word.size \in 1 .. n
             THEN <<[size |-> word.size, id |-> word.id]>>
                    \o Walk[n - word.size]
           ELSE <<Torn>>

Found ==
  IF ~ setup THEN <<>>
  ELSE IF Distance(Start, writeCursor) > DataSize THEN <<Torn>>
  ELSE Walk[Distance(Start, writeCursor)]

Held ==
  IF gds.pc = "acknowledge" /\ gds.word.kind = "header"
    THEN [size |-> gds.word.size, id |-> gds.word.id]
    ELSE NoRecord

Log == INSTANCE RecordLog WITH
         Records <- Record, None <- NoRecord,
         queue <- Found, evicting <- overwriteMode, hand <- Held

\* Whoever reads the buffer at any moment finds whole records, from the first
\* header to the published write cursor: data is written before the cursor
\* that publishes it, and never over a record that is still to be read.
ReaderFindsWholeRecords ==
  LET found == Found IN \A i \in 1 .. Len(found) : found[i] # Torn

\* Every step of the component is a step of the record log: a record is lost
\* only by eviction before the GDS has attached, and afterwards the GDS is
\* given every stored record, whole and in order.
ImplementsRecordLog == Log!Spec
==============================================================================
