------------------------------- MODULE TlmGdsChan ------------------------------
(***************************************************************************)
(* Va416x0/Svc/TlmGdsChan: telemetry channels in two buffers of external   *)
(* SRAM. Values are written to the buffer that is selected; the GDS reads  *)
(* the other one, and selects a buffer by writing the selector, which the  *)
(* rate group takes over. Telemetry is received in the main loop only.     *)
(*                                                                         *)
(* A value is a number that its time and each of its words repeat, so that *)
(* parts of two values are told apart.                                     *)
(***************************************************************************)
EXTENDS Integers

CONSTANTS
  Channels, Gaps,   \* channels of the dictionary, and unused numbers
  ChannelWords,     \* size of a channel's value in 16-bit words
  SeqSize,          \* values of a sequence number (256)
  Values            \* values that are sent

ASSUME TlmGdsChanAssumption ==
  /\ ChannelWords \in Nat \ {0}
  /\ SeqSize \in Nat \ {0, 1, 2}
  /\ Values \subseteq Nat \ {0}

VARIABLES
  selectorWord,  \* the ping-pong selector in external SRAM
  item,          \* the telemetry items in external SRAM
  selection,     \* m_pingPongSelection
  entry,         \* m_offsetMap
  writing,       \* the call of TlmRecv_handler that is writing
  tlmReady,      \* setup has been called
  latest,        \* the last value of each channel (ghost)
  tlmStopped     \* an assertion has failed

tlmVars == <<selectorWord, item, selection, entry, writing, tlmReady, latest,
             tlmStopped>>

Ping == 0
Pong == 1
Sides == {Ping, Pong}
InvalidSelector == 2
NeverSet == 2

pingPongOpposite(side) == 1 - side

EmptyItem == [sequence |-> 0, length |-> 0, seconds |-> 0, useconds |-> 0,
              words |-> [w \in 1 .. ChannelWords |-> 0]]
NeverWritten == [selector |-> NeverSet, sequence |-> 0]
NotWriting == [next |-> "done"]
NoValue == [value |-> 0, length |-> 0]

TlmInit ==
  /\ selectorWord \in Sides \cup {InvalidSelector}   \* SRAM survives a reset
  /\ item \in [Sides -> [Channels -> {EmptyItem, [EmptyItem EXCEPT !.sequence = 1]}]]
  /\ selection = Ping
  /\ entry = [ch \in Channels |-> NeverWritten]
  /\ writing = NotWriting
  /\ tlmReady = FALSE
  /\ latest = [ch \in Channels |-> NoValue]
  /\ tlmStopped = FALSE

TlmMayCall == tlmReady /\ ~ tlmStopped /\ writing = NotWriting

-----------------------------------------------------------------------------
\* setup, with interrupts disabled: every item of both buffers is cleared.
TlmSetup ==
  /\ ~ tlmReady
  /\ selectorWord' = selection
  /\ item' = [side \in Sides |-> [ch \in Channels |-> EmptyItem]]
  /\ tlmReady' = TRUE
  /\ UNCHANGED <<selection, entry, writing, latest, tlmStopped>>

\* Run_handler: a selector that is neither is overwritten.
TlmRun ==
  /\ TlmMayCall
  /\ IF selectorWord \in Sides
     THEN selection' = selectorWord /\ UNCHANGED selectorWord
     ELSE selectorWord' = selection /\ UNCHANGED selection
  /\ UNCHANGED <<item, entry, writing, tlmReady, latest, tlmStopped>>

\* getMapEntry asserts that the number is that of a channel.
TlmUnknown(ch) ==
  /\ TlmMayCall /\ ch \in Gaps
  /\ tlmStopped' = TRUE
  /\ UNCHANGED <<selectorWord, item, selection, entry, writing, tlmReady, latest>>

\* Mutant of NextEntry: the sequence number counts values.
CountedEntry(ch, side) ==
  [selector |-> side, sequence |-> (entry[ch].sequence + 1) % SeqSize]

\* The sequence number goes up when the newest value changes its buffer.
NextEntry(ch, side) ==
  IF side = entry[ch].selector THEN entry[ch]
  ELSE [selector |-> side, sequence |-> (entry[ch].sequence + 1) % SeqSize]

(***************************************************************************)
(* TlmRecv_handler: the header, the time, and the value are written one    *)
(* after the other, for the GDS to see in part.                            *)
(***************************************************************************)
TlmRecv(ch, value, length) ==
  /\ TlmMayCall
  /\ entry' = [entry EXCEPT ![ch] = NextEntry(ch, selection)]
  /\ item' = [item EXCEPT ![selection][ch].sequence = entry'[ch].sequence,
                          ![selection][ch].length = length]
  /\ writing' = [next |-> "seconds", chan |-> ch, value |-> value, word |-> 1]
  /\ latest' = [latest EXCEPT ![ch] = [value |-> value, length |-> length]]
  /\ UNCHANGED <<selectorWord, selection, tlmReady, tlmStopped>>

WriteTime ==
  /\ writing.next \in {"seconds", "useconds"}
  /\ item' = [item EXCEPT ![selection][writing.chan][writing.next] = writing.value]
  /\ writing' = [writing EXCEPT !.next =
                    IF @ = "seconds" THEN "useconds" ELSE "words"]
  /\ UNCHANGED <<selectorWord, selection, entry, tlmReady, latest, tlmStopped>>

WriteWord ==
  /\ writing.next = "words"
  /\ item' = [item EXCEPT
                ![selection][writing.chan].words[writing.word] = writing.value]
  /\ writing' = IF writing.word = latest[writing.chan].length THEN NotWriting
                ELSE [writing EXCEPT !.word = @ + 1]
  /\ UNCHANGED <<selectorWord, selection, entry, tlmReady, latest, tlmStopped>>

\* TlmGet_handler and TlmGetNoTime_handler, which change nothing.
TlmGet(ch) ==
  IF entry[ch].selector = NeverSet THEN EmptyItem ELSE item[entry[ch].selector][ch]

\* The GDS selects a buffer at any time, or spoils the selector.
GdsSelect(word) ==
  /\ selectorWord' = word
  /\ UNCHANGED <<item, selection, entry, writing, tlmReady, latest, tlmStopped>>

TlmNext ==
  \/ TlmSetup \/ TlmRun \/ WriteTime \/ WriteWord
  \/ \E ch \in Channels, v \in Values, n \in 1 .. ChannelWords : TlmRecv(ch, v, n)
  \/ \E ch \in Gaps : TlmUnknown(ch)
  \/ \E word \in Sides \cup {InvalidSelector} : GdsSelect(word)

TlmSpec == TlmInit /\ [][TlmNext]_tlmVars

-----------------------------------------------------------------------------
(***************************************************************************)
(* Properties.                                                             *)
(***************************************************************************)
\* The item holds this value, and no part of another one.
Whole(it, value, length) ==
  /\ it.length = length /\ it.seconds = value /\ it.useconds = value
  /\ \A w \in 1 .. length : it.words[w] = value

\* The buffer the GDS reads holds whole values whenever it looks.
QuietSideWhole ==
  \A ch \in Channels :
    LET it == item[pingPongOpposite(selection)][ch] IN Whole(it, it.seconds, it.length)

\* Once a channel has been written the numbers of its two items differ by one,
\* so the GDS finds the newer one over any number of changes of the buffer and
\* whatever their width; two numbers of 0 mean that there is no value; TlmGet
\* returns the value that was sent last.
NewestFound ==
  writing = NotWriting =>
    \A ch \in Channels :
      LET newer(side) == item[side][ch].sequence =
            (item[pingPongOpposite(side)][ch].sequence + 1) % SeqSize
      IN  IF latest[ch] = NoValue
          THEN /\ \A side \in Sides : item[side][ch].sequence = 0
               /\ TlmGet(ch).length = 0
          ELSE /\ newer(entry[ch].selector)
               /\ Whole(TlmGet(ch), latest[ch].value, latest[ch].length)

\* A GDS that reads the buffer not selected, and compares sequence numbers,
\* takes whole values for what they are: the last ones sent, or older ones
\* (TlmGdsChan.cpp:167-257, :300-365).
GdsNotMisled == tlmReady => QuietSideWhole /\ NewestFound
================================================================================
