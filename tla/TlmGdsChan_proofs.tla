--------------------------- MODULE TlmGdsChan_proofs ---------------------------
(***************************************************************************)
(* Proofs about TlmGdsChan: what the GDS reads is whole, and what it takes *)
(* for the newest value is, for any channels and values of any size, and   *)
(* sequence numbers of any width that tells two successive ones apart.     *)
(***************************************************************************)
EXTENDS TlmGdsChan, TLAPS

SequenceNumbers == 0 .. SeqSize - 1
Stamps == Values \cup {0}

Items ==
  [sequence : SequenceNumbers, length : 0 .. ChannelWords, seconds : Stamps,
   useconds : Stamps, words : [1 .. ChannelWords -> Stamps]]

Entries == [selector : Sides \cup {NeverSet}, sequence : SequenceNumbers]

LatestValues == {NoValue} \cup [value : Values, length : 1 .. ChannelWords]

Writings ==
  [next : {"seconds", "useconds", "words"}, chan : Channels, value : Values,
   word : 1 .. ChannelWords]

TlmTypes ==
  /\ selection \in Sides
  /\ entry \in [Channels -> Entries]
  /\ writing \in {NotWriting} \cup Writings
  /\ tlmReady \in BOOLEAN
  /\ latest \in [Channels -> LatestValues]
  /\ item \in [Sides -> [Channels -> Items]]

Busy(side, ch) == writing # NotWriting /\ side = selection /\ ch = writing.chan

\* Every item but the one being written is whole.
RestWhole ==
  \A side \in Sides, ch \in Channels :
    ~ Busy(side, ch) =>
      Whole(item[side][ch], item[side][ch].seconds, item[side][ch].length)

\* The item being written has the parts that have been written.
PartWritten ==
  writing # NotWriting =>
    LET it == item[selection][writing.chan]
        now == latest[writing.chan]
    IN  /\ entry[writing.chan].selector = selection
        /\ now.value = writing.value /\ it.length = now.length
        /\ writing.word <= now.length
        /\ writing.next # "seconds" => it.seconds = writing.value
        /\ writing.next = "words" => it.useconds = writing.value
        /\ writing.next # "words" => writing.word = 1
        /\ \A w \in 1 .. writing.word - 1 : it.words[w] = writing.value

\* A channel without a value.
NeverSent(ch) ==
  /\ entry[ch].sequence = 0
  /\ \A side \in Sides : item[side][ch] = EmptyItem

\* A channel with a value, in the buffer that its entry names.
Sent(ch) ==
  /\ latest[ch] # NoValue
  /\ item[entry[ch].selector][ch].sequence = entry[ch].sequence
  /\ entry[ch].sequence =
       (item[pingPongOpposite(entry[ch].selector)][ch].sequence + 1) % SeqSize
  /\ ~ Busy(entry[ch].selector, ch) =>
       /\ item[entry[ch].selector][ch].seconds = latest[ch].value
       /\ item[entry[ch].selector][ch].length = latest[ch].length

Told ==
  \A ch \in Channels :
    IF entry[ch].selector = NeverSet THEN latest[ch] = NoValue /\ NeverSent(ch)
    ELSE Sent(ch)

NothingSent ==
  /\ entry = [ch \in Channels |-> NeverWritten]
  /\ latest = [ch \in Channels |-> NoValue]
  /\ writing = NotWriting

TlmInv ==
  /\ TlmTypes
  /\ tlmReady => RestWhole /\ PartWritten /\ Told
  /\ ~ tlmReady => NothingSent

-----------------------------------------------------------------------------
\* The constants.
LEMMA Small ==
  /\ ChannelWords \in Nat \ {0} /\ SeqSize \in Nat /\ SeqSize > 2
  /\ 0 \in SequenceNumbers /\ 1 \in SequenceNumbers
  /\ 0 \notin Values
  /\ Sides = {0, 1}
  /\ \A side \in Sides : pingPongOpposite(side) \in Sides /\
                         pingPongOpposite(side) # side /\
                         pingPongOpposite(pingPongOpposite(side)) = side
  BY TlmGdsChanAssumption
     DEF SequenceNumbers, Sides, Ping, Pong, pingPongOpposite

\* The number after n.
LEMMA NextNumber ==
  ASSUME NEW n \in SequenceNumbers
  PROVE  /\ (n + 1) % SeqSize \in SequenceNumbers /\ (n + 1) % SeqSize # n
  BY Small DEF SequenceNumbers

\* An empty item is an item, and whole.
LEMMA EmptyIsWhole ==
  /\ EmptyItem \in Items
  /\ Whole(EmptyItem, EmptyItem.seconds, EmptyItem.length)
  BY Small DEF EmptyItem, Items, Whole, Stamps

\* The stores keep an item an item.
LEMMA HeaderStore ==
  ASSUME NEW it \in Items, NEW num \in SequenceNumbers, NEW length \in 0 .. ChannelWords
  PROVE  [it EXCEPT !.sequence = num, !.length = length] \in Items
  BY DEF Items

\* The stores of the time.
LEMMA TimeStores ==
  ASSUME NEW it \in Items, NEW stamp \in Stamps
  PROVE  /\ [it EXCEPT !.seconds = stamp] \in Items
         /\ [it EXCEPT !.useconds = stamp] \in Items
  BY DEF Items

\* The store of a word.
LEMMA WordStore ==
  ASSUME NEW it \in Items, NEW stamp \in Stamps, NEW w \in 1 .. ChannelWords
  PROVE  [it EXCEPT !.words[w] = stamp] \in Items
  BY DEF Items

\* A record of a write is none of NotWriting.
LEMMA WritingRecords ==
  ASSUME writing \in {NotWriting} \cup Writings
  PROVE  writing # NotWriting <=> writing.next \in {"seconds", "useconds", "words"}
  BY DEF NotWriting, Writings

\* The first state.
LEMMA TlmInitial == TlmInit => TlmInv
<1> SUFFICES ASSUME TlmInit PROVE TlmInv
  OBVIOUS
<1>1. \A it \in {EmptyItem, [EmptyItem EXCEPT !.sequence = 1]} : it \in Items
  BY Small, EmptyIsWhole DEF EmptyItem, Items
<1>2. item \in [Sides -> [Channels -> Items]]
  <2> DEFINE S == {EmptyItem, [EmptyItem EXCEPT !.sequence = 1]}
  <2>1. S \subseteq Items
    BY <1>1
  <2>2. item \in [Sides -> [Channels -> S]]
    BY DEF TlmInit
  <2> HIDE DEF S
  <2> QED
    BY <2>1, <2>2
<1>3. NeverWritten \in Entries
  BY Small DEF NeverWritten, Entries
<1>4. TlmTypes
  <2>1. entry \in [Channels -> Entries]
    BY <1>3 DEF TlmInit
  <2>2. selection \in Sides /\ writing = NotWriting /\ tlmReady \in BOOLEAN
    BY DEF TlmInit, Sides
  <2>3. latest \in [Channels -> {NoValue}]
    BY DEF TlmInit
  <2> QED
    BY <1>2, <2>1, <2>2, <2>3 DEF TlmTypes, LatestValues
<1>5. NothingSent /\ tlmReady = FALSE
  BY DEF TlmInit, NothingSent
<1> QED
  BY <1>4, <1>5 DEF TlmInv

-----------------------------------------------------------------------------
\* setup leaves every item empty.
LEMMA SetupStep ==
  ASSUME TlmInv, TlmSetup
  PROVE  TlmInv'
<1>1. NothingSent /\ UNCHANGED <<selection, entry, writing, latest>> /\ tlmReady' = TRUE
  BY DEF TlmInv, TlmSetup, TlmTypes
<1>2. \A side \in Sides, ch \in Channels : item'[side][ch] = EmptyItem
  BY DEF TlmSetup
<1>3. TlmTypes'
  <2>1. item' \in [Sides -> [Channels -> Items]]
    BY EmptyIsWhole DEF TlmSetup
  <2> QED
    BY <1>1, <2>1 DEF TlmInv, TlmTypes
<1>4. RestWhole'
  BY <1>2, EmptyIsWhole DEF RestWhole
<1>5. Told'
  BY <1>1, <1>2 DEF Told, NeverSent, NothingSent, NeverWritten
<1>6. PartWritten'
  BY <1>1 DEF PartWritten, NothingSent
<1> QED
  BY <1>1, <1>3, <1>4, <1>5, <1>6 DEF TlmInv

\* Nothing the GDS writes, nothing that stops, and no change of the buffer between
\* two calls matters.
LEMMA QuietStep ==
  ASSUME TlmInv,
         UNCHANGED <<item, entry, writing, tlmReady, latest>>,
         selection' \in Sides, writing = NotWriting \/ UNCHANGED selection
  PROVE  TlmInv'
<1>1. TlmTypes'
  BY DEF TlmInv, TlmTypes
<1>2. \A side, ch : Busy(side, ch)' <=> Busy(side, ch)
  BY DEF Busy
<1>3. RestWhole' <=> RestWhole
  BY <1>2 DEF RestWhole
<1>4. PartWritten' <=> PartWritten
  BY DEF PartWritten
<1>5. Told' <=> Told
  BY <1>2 DEF Told, Sent, NeverSent
<1>6. NothingSent' <=> NothingSent
  BY DEF NothingSent
<1> QED
  BY <1>1, <1>3, <1>4, <1>5, <1>6 DEF TlmInv

-----------------------------------------------------------------------------
\* A value goes to the buffer that is selected: its header.
LEMMA RecvStep ==
  ASSUME TlmInv, NEW ch \in Channels, NEW value \in Values,
         NEW length \in 1 .. ChannelWords, TlmRecv(ch, value, length)
  PROVE  TlmInv'
<1> DEFINE num == NextEntry(ch, selection).sequence
           opp == pingPongOpposite(selection)
<1>1. /\ tlmReady /\ writing = NotWriting /\ TlmTypes /\ RestWhole /\ Told
      /\ selection \in Sides
  BY DEF TlmInv, TlmTypes, TlmRecv, TlmMayCall
<1>2. /\ UNCHANGED <<selection, tlmReady>>
      /\ writing' = [next |-> "seconds", chan |-> ch, value |-> value, word |-> 1]
      /\ writing' \in Writings /\ writing' # NotWriting
  BY Small DEF TlmRecv, Writings, NotWriting
<1>3. NextEntry(ch, selection) = [selector |-> selection, sequence |-> num]
      /\ num \in SequenceNumbers
  <2>1. entry[ch] \in Entries
    BY <1>1 DEF TlmTypes
  <2> QED
    BY <2>1, NextNumber DEF NextEntry, Entries
<1>4. /\ entry'[ch] = [selector |-> selection, sequence |-> num]
      /\ \A e \in Channels \ {ch} : entry'[e] = entry[e]
      /\ entry' \in [Channels -> Entries]
  BY <1>1, <1>3 DEF TlmRecv, TlmTypes, Entries
<1>5. /\ latest'[ch] = [value |-> value, length |-> length]
      /\ \A e \in Channels \ {ch} : latest'[e] = latest[e]
      /\ latest' \in [Channels -> LatestValues]
  BY <1>1 DEF TlmRecv, TlmTypes, LatestValues
<1>6. \A side \in Sides, e \in Channels : item[side][e] \in Items
  BY <1>1 DEF TlmTypes
<1>7. /\ item'[selection][ch] =
           [item[selection][ch] EXCEPT !.sequence = num, !.length = length]
      /\ \A side \in Sides, e \in Channels :
           ~ (side = selection /\ e = ch) => item'[side][e] = item[side][e]
      /\ DOMAIN item' = Sides /\ \A side \in Sides : DOMAIN item'[side] = Channels
  BY <1>1, <1>4 DEF TlmRecv, TlmTypes
<1>8. item' \in [Sides -> [Channels -> Items]]
  <2>1. item'[selection][ch] \in Items
    <3>1. item[selection][ch] \in Items /\ length \in 0 .. ChannelWords
      BY <1>1, <1>6, Small
    <3>2. [item[selection][ch] EXCEPT !.sequence = num, !.length = length] \in Items
      BY <1>3, <3>1, HeaderStore
    <3> QED
      BY <1>7, <3>2
  <2>2. \A side \in Sides, e \in Channels : item'[side][e] \in Items
    BY <1>6, <1>7, <2>1
  <2>3. item' \in [Sides -> [Channels -> Items]]
    <3>1. /\ item' = [side \in Sides |-> item'[side]]
          /\ \A side \in Sides : item'[side] = [e \in Channels |-> item'[side][e]]
      BY <1>1 DEF TlmRecv, TlmTypes
    <3> QED
      BY <2>2, <3>1
  <2> QED
    BY <2>3
<1>9. TlmTypes'
  BY <1>1, <1>2, <1>4, <1>5, <1>8 DEF TlmTypes
<1>10. \A side \in Sides, e \in Channels :
         ~ (side = selection /\ e = ch) => ~ Busy(side, e) /\ ~ Busy(side, e)'
  BY <1>1, <1>2 DEF Busy
<1>11. RestWhole'
  <2> SUFFICES ASSUME NEW side \in Sides, NEW e \in Channels, ~ Busy(side, e)'
               PROVE  Whole(item'[side][e], item'[side][e].seconds,
                            item'[side][e].length)
    BY DEF RestWhole
  <2>1. ~ (side = selection /\ e = ch)
    BY <1>2 DEF Busy
  <2>2. item'[side][e] = item[side][e] /\ ~ Busy(side, e)
    BY <1>7, <1>10, <2>1
  <2> QED
    BY <1>1, <2>2 DEF RestWhole
<1>12. PartWritten'
  <2>1. item'[selection][ch].length = length
    BY <1>1, <1>6, <1>7 DEF Items
  <2> QED
    BY <1>2, <1>4, <1>5, <2>1, Small DEF PartWritten
<1>13. Told'
  <2> SUFFICES ASSUME NEW e \in Channels
               PROVE  (IF entry[e].selector = NeverSet
                       THEN latest[e] = NoValue /\ NeverSent(e) ELSE Sent(e))'
    BY DEF Told
  <2>1. CASE e # ch
    <3>1. \A side \in Sides :
            item'[side][e] = item[side][e] /\ ~ Busy(side, e) /\ ~ Busy(side, e)'
      BY <1>7, <1>10, <2>1
    <3>2. entry'[e] = entry[e] /\ latest'[e] = latest[e] /\ entry[e] \in Entries
      BY <1>1, <1>4, <1>5, <2>1 DEF TlmTypes
    <3>3. entry[e].selector # NeverSet =>
            entry[e].selector \in Sides /\ pingPongOpposite(entry[e].selector) \in Sides
      BY <3>2, Small DEF Entries
    <3> QED
      BY <1>1, <3>1, <3>2, <3>3 DEF Told, Sent, NeverSent
  <2>2. CASE e = ch
    <3>1. entry'[ch].selector = selection /\ entry'[ch].sequence = num
      BY <1>4
    <3>2. selection # NeverSet /\ Busy(selection, ch)'
      BY <1>1, <1>2, Small DEF NeverSet, Busy
    <3>3. item'[selection][ch].sequence = num
      BY <1>1, <1>6, <1>7 DEF Items
    <3>4. latest'[ch] # NoValue
      BY <1>5, Small DEF NoValue
    <3>5. opp \in Sides /\ opp # selection /\ item'[opp][ch] = item[opp][ch]
      BY <1>1, <1>7, Small
    <3>6. num = (item[opp][ch].sequence + 1) % SeqSize
      <4>1. CASE entry[ch].selector = NeverSet
        BY <1>1, <3>2, <3>5, <4>1 DEF Told, NeverSent, EmptyItem, NextEntry
      <4>2. CASE entry[ch].selector = selection
        BY <1>1, <3>2, <4>2 DEF Told, Sent, NextEntry
      <4>3. CASE entry[ch].selector = opp
        <5>1. item[opp][ch].sequence = entry[ch].sequence /\ opp # NeverSet
          BY <1>1, <3>5, <4>3, Small DEF Told, Sent, NeverSet
        <5> QED
          BY <3>5, <4>3, <5>1 DEF NextEntry
      <4>4. entry[ch].selector \in {selection, opp, NeverSet}
        BY <1>1, <3>5, Small DEF TlmTypes, Entries
      <4> QED
        BY <4>1, <4>2, <4>3, <4>4
    <3> QED
      BY <1>2, <2>2, <3>1, <3>2, <3>3, <3>4, <3>5, <3>6 DEF Sent
  <2> QED
    BY <2>1, <2>2
<1>14. tlmReady' = TRUE
  BY <1>1, <1>2 DEF TlmTypes
<1> QED
  BY <1>9, <1>11, <1>12, <1>13, <1>14 DEF TlmInv

\* A store of the write in progress changes its item only, and none of what is
\* known of the others.
LEMMA OthersStay ==
  ASSUME TlmInv, tlmReady, writing # NotWriting,
         UNCHANGED <<selection, entry, tlmReady, latest>>,
         item' \in [Sides -> [Channels -> Items]],
         \/ writing' = NotWriting
         \/ writing' \in Writings /\ writing'.chan = writing.chan,
         \A side \in Sides, e \in Channels :
           ~ Busy(side, e) => item'[side][e] = item[side][e],
         item'[selection][writing.chan].sequence =
           item[selection][writing.chan].sequence,
         writing' = NotWriting =>
           Whole(item'[selection][writing.chan], latest[writing.chan].value,
                 latest[writing.chan].length),
         PartWritten'
  PROVE  TlmInv'
<1>1. TlmTypes /\ RestWhole /\ PartWritten /\ Told /\ tlmReady' = TRUE
  BY DEF TlmInv, TlmTypes
<1>2. selection \in Sides /\ writing.chan \in Channels /\ writing \in Writings
  BY <1>1 DEF TlmTypes, Writings
<1>3. TlmTypes'
  BY <1>1 DEF TlmTypes
<1>4. \A side \in Sides, e \in Channels :
        Busy(side, e)' => Busy(side, e)
  BY <1>1 DEF Busy
<1>5. \A side \in Sides, e \in Channels :
        Busy(side, e) /\ ~ Busy(side, e)' =>
          /\ side = selection /\ e = writing.chan
          /\ Whole(item'[selection][e], latest[e].value, latest[e].length)
  BY DEF Busy
<1>6. RestWhole'
  <2> SUFFICES ASSUME NEW side \in Sides, NEW e \in Channels, ~ Busy(side, e)'
               PROVE  Whole(item'[side][e], item'[side][e].seconds,
                            item'[side][e].length)
    BY DEF RestWhole
  <2>1. CASE Busy(side, e)
    BY <1>5, <2>1 DEF Whole
  <2>2. CASE ~ Busy(side, e)
    BY <1>1, <2>2 DEF RestWhole
  <2> QED
    BY <2>1, <2>2
<1>7. Told'
  <2> SUFFICES ASSUME NEW e \in Channels
               PROVE  (IF entry[e].selector = NeverSet
                       THEN latest[e] = NoValue /\ NeverSent(e) ELSE Sent(e))'
    BY DEF Told
  <2>1. \A side \in Sides : item'[side][e].sequence = item[side][e].sequence
    BY <1>2 DEF Busy
  <2>2. CASE entry[e].selector = NeverSet
    <3>1. e # writing.chan
      BY <1>1, <1>2, <2>2, Small DEF PartWritten, NeverSet
    <3>2. \A side \in Sides : item'[side][e] = item[side][e]
      BY <3>1 DEF Busy
    <3> QED
      BY <1>1, <2>2, <3>2 DEF Told, NeverSent
  <2>3. CASE entry[e].selector # NeverSet
    <3> DEFINE side == entry[e].selector
    <3>1. side \in Sides /\ pingPongOpposite(side) \in Sides
      BY <1>1, <2>3, Small DEF TlmTypes, Entries
    <3>2. ~ Busy(side, e)' => /\ item'[side][e].seconds = latest[e].value
                              /\ item'[side][e].length = latest[e].length
      <4>1. CASE Busy(side, e)
        BY <1>5, <3>1, <4>1 DEF Whole
      <4>2. CASE ~ Busy(side, e)
        BY <1>1, <2>3, <3>1, <4>2 DEF Told, Sent
      <4> QED
        BY <4>1, <4>2
    <3> QED
      BY <1>1, <2>1, <2>3, <3>1, <3>2 DEF Told, Sent
  <2> QED
    BY <2>2, <2>3
<1> QED
  BY <1>1, <1>3, <1>6, <1>7 DEF TlmInv

\* What a store finds.
LEMMA WritingFinds ==
  ASSUME TlmInv, writing # NotWriting
  PROVE  /\ tlmReady /\ writing \in Writings /\ selection \in Sides
         /\ writing.chan \in Channels /\ writing.value \in Stamps
         /\ item[selection][writing.chan] \in Items
         /\ latest[writing.chan].length \in 1 .. ChannelWords
         /\ writing.word \in 1 .. latest[writing.chan].length
         /\ PartWritten
<1>1. tlmReady /\ PartWritten /\ TlmTypes
  BY DEF TlmInv, NothingSent
<1>2. writing \in Writings /\ selection \in Sides
  BY <1>1 DEF TlmTypes
<1>3. writing.chan \in Channels /\ writing.value \in Values
      /\ writing.word \in 1 .. ChannelWords
  BY <1>2 DEF Writings
<1>4. item[selection][writing.chan] \in Items
  BY <1>1, <1>2, <1>3 DEF TlmTypes
<1>5. /\ latest[writing.chan].value \in Values
      /\ writing.word <= latest[writing.chan].length
  BY <1>1, <1>3 DEF PartWritten
<1>6. latest[writing.chan].length \in 1 .. ChannelWords
  BY <1>1, <1>3, <1>5, Small DEF TlmTypes, LatestValues, NoValue
<1> QED
  BY <1>1, <1>2, <1>3, <1>4, <1>5, <1>6, Small DEF Stamps

\* The time is written.
LEMMA TimeStep ==
  ASSUME TlmInv, WriteTime
  PROVE  TlmInv'
<1> DEFINE it == item[selection][writing.chan]
           now == item'[selection][writing.chan]
<1>1. writing # NotWriting /\ writing.next \in {"seconds", "useconds"}
  BY DEF WriteTime, NotWriting
<1>2. /\ tlmReady /\ writing \in Writings /\ selection \in Sides
      /\ writing.chan \in Channels /\ writing.value \in Stamps /\ it \in Items
      /\ PartWritten /\ item \in [Sides -> [Channels -> Items]]
  BY <1>1, WritingFinds DEF TlmInv, TlmTypes
<1>3. /\ now = [it EXCEPT ![writing.next] = writing.value]
      /\ \A side \in Sides, e \in Channels :
           ~ (side = selection /\ e = writing.chan) => item'[side][e] = item[side][e]
      /\ item' = [side \in Sides |-> item'[side]]
      /\ \A side \in Sides : item'[side] = [e \in Channels |-> item'[side][e]]
  BY <1>2 DEF WriteTime
<1>4. /\ now \in Items /\ now.sequence = it.sequence /\ now.length = it.length
      /\ writing.next = "seconds" => now.seconds = writing.value
      /\ writing.next = "useconds" => now.useconds = writing.value
                                       /\ now.seconds = it.seconds
      /\ now.words = it.words
  <2>1. CASE writing.next = "seconds"
    BY <1>2, <1>3, <2>1, TimeStores DEF Items
  <2>2. CASE writing.next = "useconds"
    BY <1>2, <1>3, <2>2, TimeStores DEF Items
  <2> QED
    BY <1>1, <2>1, <2>2
<1>5. item' \in [Sides -> [Channels -> Items]]
  <2>1. \A side \in Sides, e \in Channels : item'[side][e] \in Items
    BY <1>2, <1>3, <1>4
  <2> QED
    BY <1>3, <2>1
<1>6. /\ writing' \in Writings /\ writing' # NotWriting
      /\ writing'.chan = writing.chan /\ writing'.value = writing.value
      /\ writing'.word = writing.word
      /\ writing'.next = IF writing.next = "seconds" THEN "useconds" ELSE "words"
  BY <1>1, <1>2 DEF WriteTime, Writings, NotWriting
<1>7. UNCHANGED <<selection, entry, tlmReady, latest>>
  BY DEF WriteTime
<1>8. PartWritten'
  BY <1>1, <1>2, <1>4, <1>6, <1>7 DEF PartWritten
<1>9. \A side \in Sides, e \in Channels :
        ~ Busy(side, e) => item'[side][e] = item[side][e]
  BY <1>1, <1>3 DEF Busy
<1> QED
  BY <1>1, <1>2, <1>4, <1>5, <1>6, <1>7, <1>8, <1>9, OthersStay

\* A word of the value is written, and the last one completes the item.
LEMMA WordStep ==
  ASSUME TlmInv, WriteWord
  PROVE  TlmInv'
<1> DEFINE it == item[selection][writing.chan]
           now == item'[selection][writing.chan]
           len == latest[writing.chan].length
<1>1. writing # NotWriting /\ writing.next = "words"
  BY DEF WriteWord, NotWriting
<1>2. /\ tlmReady /\ writing \in Writings /\ selection \in Sides
      /\ writing.chan \in Channels /\ writing.value \in Stamps /\ it \in Items
      /\ PartWritten /\ item \in [Sides -> [Channels -> Items]]
      /\ len \in 1 .. ChannelWords /\ writing.word \in 1 .. len
  BY <1>1, WritingFinds DEF TlmInv, TlmTypes
<1>3. /\ now = [it EXCEPT !.words[writing.word] = writing.value]
      /\ \A side \in Sides, e \in Channels :
           ~ (side = selection /\ e = writing.chan) => item'[side][e] = item[side][e]
      /\ item' = [side \in Sides |-> item'[side]]
      /\ \A side \in Sides : item'[side] = [e \in Channels |-> item'[side][e]]
  BY <1>2 DEF WriteWord
<1>4. /\ now \in Items /\ now.sequence = it.sequence /\ now.length = it.length
      /\ now.seconds = it.seconds /\ now.useconds = it.useconds
      /\ \A w \in 1 .. writing.word : now.words[w] = writing.value
  <2>1. writing.word \in 1 .. ChannelWords
    BY <1>2, Small
  <2>2. now \in Items
    <3> HIDE DEF it, now
    <3>1. [it EXCEPT !.words[writing.word] = writing.value] \in Items
      BY <1>2, <2>1, WordStore
    <3> QED
      BY <1>3, <3>1
  <2>3. /\ now.sequence = it.sequence /\ now.length = it.length
        /\ now.seconds = it.seconds /\ now.useconds = it.useconds
        /\ now.words = [it.words EXCEPT ![writing.word] = writing.value]
    BY <1>2, <1>3 DEF Items
  <2>4. \A w \in 1 .. writing.word - 1 : it.words[w] = writing.value
    BY <1>1, <1>2 DEF PartWritten
  <2>5. it.words \in [1 .. ChannelWords -> Stamps]
    BY <1>2 DEF Items
  <2>6. \A w \in 1 .. writing.word : now.words[w] = writing.value
    BY <1>2, <2>1, <2>3, <2>4, <2>5, Small
  <2> QED
    BY <2>2, <2>3, <2>6
<1>5. item' \in [Sides -> [Channels -> Items]]
  <2>1. \A side \in Sides, e \in Channels : item'[side][e] \in Items
    BY <1>2, <1>3, <1>4
  <2> QED
    BY <1>3, <2>1
<1>6. UNCHANGED <<selection, entry, tlmReady, latest>>
  BY DEF WriteWord
<1>7. \A side \in Sides, e \in Channels :
        ~ Busy(side, e) => item'[side][e] = item[side][e]
  BY <1>1, <1>3 DEF Busy
<1>8. CASE writing.word = len
  <2>1. writing' = NotWriting
    BY <1>8 DEF WriteWord
  <2>2. PartWritten'
    BY <2>1 DEF PartWritten
  <2>3. Whole(now, latest[writing.chan].value, len)
    BY <1>1, <1>2, <1>4, <1>8 DEF PartWritten, Whole
  <2> QED
    BY <1>1, <1>2, <1>4, <1>5, <1>6, <1>7, <2>1, <2>2, <2>3, OthersStay
<1>9. CASE writing.word # len
  <2>1. /\ writing' \in Writings /\ writing' # NotWriting
        /\ writing'.chan = writing.chan /\ writing'.value = writing.value
        /\ writing'.word = writing.word + 1 /\ writing'.next = "words"
    BY <1>1, <1>2, <1>9, Small DEF WriteWord, Writings, NotWriting
  <2>2. PartWritten'
    BY <1>1, <1>2, <1>4, <1>6, <1>9, <2>1, Small DEF PartWritten
  <2> QED
    BY <1>1, <1>2, <1>4, <1>5, <1>6, <1>7, <2>1, <2>2, OthersStay
<1> QED
  BY <1>8, <1>9

-----------------------------------------------------------------------------
\* Every step keeps the invariant.
LEMMA TlmStep == TlmInv /\ [TlmNext]_tlmVars => TlmInv'
<1> SUFFICES ASSUME TlmInv, [TlmNext]_tlmVars PROVE TlmInv'
  OBVIOUS
<1>1. selection \in Sides
  BY DEF TlmInv, TlmTypes
<1>2. CASE UNCHANGED tlmVars
  BY <1>1, <1>2, QuietStep DEF tlmVars
<1>3. CASE TlmRun
  <2>1. /\ UNCHANGED <<item, entry, writing, tlmReady, latest>>
        /\ selection' \in Sides /\ writing = NotWriting
    BY <1>1, <1>3 DEF TlmRun, TlmMayCall
  <2> QED
    BY <2>1, QuietStep
<1>4. ASSUME NEW ch \in Gaps, TlmUnknown(ch) PROVE TlmInv'
  BY <1>1, <1>4, QuietStep DEF TlmUnknown
<1>5. ASSUME NEW word \in Sides \cup {InvalidSelector}, GdsSelect(word) PROVE TlmInv'
  BY <1>1, <1>5, QuietStep DEF GdsSelect
<1> QED
  BY <1>2, <1>3, <1>4, <1>5, SetupStep, RecvStep, TimeStep, WordStep DEF TlmNext

\* The inductive invariant: every item but the one being written is whole, and the
\* entry of a channel names its newest item (TlmGdsChan.cpp:300-365).
THEOREM TlmInvariance == TlmSpec => []TlmInv
<1> QED
  BY TlmInitial, TlmStep, PTL DEF TlmSpec

\* The GDS takes whole values for what they are, whatever the width of the sequence
\* number (TlmGdsChan.cpp:167-257, :300-365).
THEOREM GdsIsNotMisled == TlmSpec => []GdsNotMisled
<1>1. TlmInv => GdsNotMisled
  <2> SUFFICES ASSUME TlmInv, tlmReady PROVE QuietSideWhole /\ NewestFound
    BY DEF GdsNotMisled
  <2>1. TlmTypes /\ RestWhole /\ Told /\ selection \in Sides
    BY DEF TlmInv, TlmTypes
  <2>2. QuietSideWhole
    <3>1. pingPongOpposite(selection) \in Sides \ {selection}
      BY <2>1, Small
    <3> QED
      BY <2>1, <3>1 DEF QuietSideWhole, RestWhole, Busy
  <2>3. ASSUME writing = NotWriting, NEW ch \in Channels, entry[ch].selector = NeverSet
        PROVE  /\ latest[ch] = NoValue
               /\ \A side \in Sides : item[side][ch].sequence = 0
               /\ TlmGet(ch).length = 0
    BY <2>1, <2>3 DEF Told, NeverSent, TlmGet, EmptyItem
  <2>4. ASSUME writing = NotWriting, NEW ch \in Channels, entry[ch].selector # NeverSet
        PROVE  /\ latest[ch] # NoValue
               /\ item[entry[ch].selector][ch].sequence =
                    (item[pingPongOpposite(entry[ch].selector)][ch].sequence + 1)
                      % SeqSize
               /\ Whole(TlmGet(ch), latest[ch].value, latest[ch].length)
    <3>1. Sent(ch) /\ entry[ch].selector \in Sides /\ ~ Busy(entry[ch].selector, ch)
      BY <2>1, <2>4, Small DEF Told, TlmTypes, Entries, Busy
    <3>2. TlmGet(ch) = item[entry[ch].selector][ch]
      BY <2>4 DEF TlmGet
    <3> QED
      BY <2>1, <3>1, <3>2 DEF Sent, RestWhole, Whole
  <2> QED
    BY <2>2, <2>3, <2>4 DEF NewestFound
<1> QED
  BY <1>1, TlmInvariance, PTL
================================================================================
