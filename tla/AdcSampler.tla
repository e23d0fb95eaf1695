------------------------------- MODULE AdcSampler ------------------------------
(***************************************************************************)
(* Va416x0/Drv/AdcSampler: a list of requests given to the ADC one by one, *)
(* first by the client (context 0) and then by the ADC's handler (1), with *)
(* the multiplexer set before each. A handler of higher priority sets a    *)
(* pin of its own on a port whose pins address the multiplexers; no one of *)
(* these preempts it, and it runs as one step whenever interrupts are      *)
(* enabled.                                                                *)
(***************************************************************************)
EXTENDS Cpu, Sequences, FiniteSetsExt

CONSTANTS
  RequestLists,  \* the lists a client reads
  Buffers,       \* the clients' AdcData
  DataSize,      \* AdcData::SIZE
  NoPin,         \* ADC_MUX_PINS_EN_MAX, the index of no enable pin
  AddressPins,   \* config.muxAddrPins
  OtherPin,      \* a pin that is none of the sampler's
  PortOf,        \* the port of each of these pins
  SysclkFreqs,   \* frequencies of the system clock
  BreakNs,       \* MUX_BREAK_BEFORE_MAKE_DELAY_NS
  NsPerSecond,   \* NANOSECONDS_PER_SECOND
  WordSize,      \* values of a U32
  MaxAdcReads    \* bound on the reads accepted

(***************************************************************************)
(* A request is a record of                                                *)
(*   chan    the lowest channel of its mask                                *)
(*   cnt     samples to take, less one                                     *)
(*   sweep   whether they are of as many channels                          *)
(*   isMux   whether a multiplexer is to be set: the enable pin en, and    *)
(*           the address pins addr that are to be high                     *)
(***************************************************************************)
Ports == 0 .. 1

ASSUME AdcAssumption ==
  /\ Irqs >= 1
  /\ \A l \in RequestLists :
       /\ l # <<>> /\ Len(l) \in Nat /\ DOMAIN l = 1 .. Len(l)
       /\ \A i \in DOMAIN l :
            /\ l[i].cnt \in Nat /\ l[i].chan \in Nat
            /\ l[i].sweep \in BOOLEAN /\ l[i].isMux \in BOOLEAN
            /\ l[i].addr \subseteq AddressPins
  /\ DataSize \in Nat /\ MaxAdcReads \in Nat
  /\ SysclkFreqs \subseteq Nat \ {0} /\ {BreakNs, NsPerSecond, WordSize} \subseteq Nat \ {0}
  /\ OtherPin \notin AddressPins
  /\ \A a \in AddressPins \cup {OtherPin} : PortOf[a] \in Ports

PinsOf(p) == {a \in AddressPins : PortOf[a] = p}

VARIABLES
  reqs, buffer,     \* m_pRequests (the first m_numReads of them) and m_pData
  requestIndex, dataIndex,
  curRequest, lastMux,
  rejected, readErrors,   \* the telemetry: any so far
  wasBusy, asked,   \* locals of startRead: busy, and its arguments
  port,             \* the loop's port in startReadInner, of each context
  enabled, fading,  \* enable pins that are on, and that were on a moment ago
  datamask, high,   \* DATAMASK and the pins that are high, of each port
  lastPins,         \* m_lastPinsValue
  otherHigh,        \* what the other handler has set its pin to (ghost)
  adc, fifo, irq,   \* the converter, its FIFO and its interrupt
  sysclk,           \* the frequency configure found the system clock at
  data,             \* the contents of the buffers
  accepted,         \* reads accepted, the number of the current one (ghost)
  adcStopped        \* an assertion has failed

clientVars == <<wasBusy, asked, rejected, accepted>>
readVars == <<reqs, buffer, requestIndex, dataIndex, curRequest, readErrors>>
muxVars == <<lastMux, port, enabled, fading, datamask, high, lastPins, otherHigh>>
adcVars == <<adc, fifo, irq, sysclk>>
samplerVars == <<clientVars, readVars, muxVars, adcVars, data, adcStopped>>

NoRequest == [chan |-> 0, cnt |-> 0, sweep |-> FALSE, isMux |-> TRUE, en |-> NoPin,
              addr |-> {}]
Words(r) == IF r.sweep THEN r.cnt + 1 ELSE 1      \* REQ_GET_NUM_WORDS

\* A word is the sum of some samples; ADC_READ_ERROR_VALUE is the sum of none.
ErrorWord == <<>>
OldWord == <<[read |-> 0, chan |-> 0, mux |-> <<>>, settled |-> TRUE]>>

\* configure: all enable pins off, and the dummy of the last multiplexed request.
SamplerInit ==
  /\ reqs = <<>> /\ buffer \in Buffers /\ requestIndex = 0 /\ dataIndex = 0
  /\ curRequest = NoRequest /\ lastMux = NoRequest
  /\ rejected = FALSE /\ readErrors = FALSE
  /\ wasBusy = FALSE /\ asked = [list |-> <<>>, buf |-> buffer]
  /\ port = [c \in Contexts |-> 0]
  /\ enabled = {} /\ fading = {}
  /\ datamask = [p \in Ports |-> {}] /\ high = [p \in Ports |-> {}]
  /\ lastPins = [p \in Ports |-> {}] /\ otherHigh = FALSE
  /\ adc = NoRequest /\ fifo = <<>> /\ irq = FALSE
  /\ sysclk \in SysclkFreqs
  /\ data = [b \in Buffers |-> [i \in 0 .. DataSize - 1 |-> OldWord]]
  /\ accepted = 0 /\ adcStopped = FALSE

Busy == requestIndex < Len(reqs)    \* checkRead

-----------------------------------------------------------------------------
(***************************************************************************)
(* startRead                                                               *)
(***************************************************************************)
\* const bool busy
StartRead(list, b) ==
  /\ MayStart(Main) /\ ~ adcStopped /\ accepted < MaxAdcReads
  /\ wasBusy' = Busy
  /\ asked' = [list |-> list, buf |-> b]
  /\ Goto(Main, "asked")
  /\ UNCHANGED <<primask, saved, rejected, accepted, readVars, muxVars, adcVars, data,
                 adcStopped>>

\* The words that the first n requests of a list fill.
WordsOf(list, n) == MapThenSumSet(LAMBDA i : Words(list[i]), 1 .. n)

\* Mutant of Prepopulated: whatever the buffer is.
AlwaysPrepopulated(d) ==
  [d EXCEPT ![asked.buf] =
     [i \in DOMAIN @ |-> IF i < WordsOf(asked.list, Len(asked.list)) THEN ErrorWord
                         ELSE @[i]]]

\* The buffer starts with errors, unless the read in progress is writing it.
Prepopulated(d) ==
  IF wasBusy /\ asked.buf = buffer THEN d
  ELSE [d EXCEPT ![asked.buf] =
          [i \in DOMAIN @ |-> IF i < WordsOf(asked.list, Len(asked.list)) THEN ErrorWord
                              ELSE @[i]]]

RejectRead ==
  /\ At(Main, "asked") /\ (asked.list = <<>> \/ wasBusy)
  /\ data' = Prepopulated(data)
  /\ rejected' = TRUE
  /\ Goto(Main, "idle")
  /\ UNCHANGED <<primask, saved, wasBusy, asked, accepted, readVars, muxVars, adcVars,
                 adcStopped>>

AcceptRead ==
  /\ At(Main, "asked") /\ asked.list # <<>> /\ ~ wasBusy
  /\ data' = Prepopulated(data)
  /\ reqs' = asked.list /\ buffer' = asked.buf
  /\ requestIndex' = 0 /\ dataIndex' = 0
  /\ accepted' = accepted + 1
  /\ Goto(Main, "request")
  /\ UNCHANGED <<primask, saved, wasBusy, asked, rejected, curRequest, readErrors,
                 muxVars, adcVars, adcStopped>>

-----------------------------------------------------------------------------
(***************************************************************************)
(* startReadInner, called by the client and by the handler                 *)
(***************************************************************************)
NextRequest(c) ==
  /\ At(c, "request")
  /\ LET r == reqs[requestIndex + 1]
     IN  /\ curRequest' = r
         /\ Goto(c, CASE ~ r.isMux -> "convert"
                      [] r.isMux /\ r.en # lastMux.en -> "release"
                      [] r.isMux /\ r.en = lastMux.en -> "address")
  /\ port' = [port EXCEPT ![c] = 0]
  /\ UNCHANGED <<primask, saved, clientVars, reqs, buffer, requestIndex, dataIndex,
                 readErrors, lastMux, enabled, fading, datamask, high, lastPins,
                 otherHigh, adcVars, data, adcStopped>>

\* The previous enable pin goes off; its multiplexer takes a moment to let go.
Release(c) ==
  /\ At(c, "release")
  /\ LET off == {lastMux.en} \ {NoPin}
     IN  /\ enabled' = enabled \ off
         /\ fading' = fading \cup off
         /\ Goto(c, IF off = {} THEN "make" ELSE "delay")
  /\ UNCHANGED <<primask, saved, clientVars, readVars, lastMux, port, datamask, high,
                 lastPins, otherHigh, adcVars, data, adcStopped>>

\* m_muxEnaDisDelay, computed in U32.
MuxDelay == ((sysclk * BreakNs) % WordSize) \div NsPerSecond

\* delay_cycles: a loop of 3 cycles, and 3 to compute how often it runs.
CyclesTaken(n) == 3 * (n \div 3) + 3

DelaySuffices == CyclesTaken(MuxDelay) * NsPerSecond >= sysclk * BreakNs

\* A multiplexer has let go after a delay of BreakNs; after a shorter one it may not.
Delay(c) ==
  /\ At(c, "delay")
  /\ fading' = IF DelaySuffices THEN {} ELSE fading
  /\ Goto(c, "make")
  /\ UNCHANGED <<primask, saved, clientVars, readVars, lastMux, port, enabled, datamask,
                 high, lastPins, otherHigh, adcVars, data, adcStopped>>

Fade ==
  /\ fading # {} /\ fading' = {}
  /\ UNCHANGED <<cpuVars, clientVars, readVars, lastMux, port, enabled, datamask, high,
                 lastPins, otherHigh, adcVars, data, adcStopped>>

Make(c) ==
  /\ At(c, "make")
  /\ enabled' = enabled \cup ({curRequest.en} \ {NoPin})
  /\ Goto(c, "address")
  /\ UNCHANGED <<primask, saved, clientVars, readVars, lastMux, port, fading, datamask,
                 high, lastPins, otherHigh, adcVars, data, adcStopped>>

\* calculateGpioPinsValue
PinsValue(p) == curRequest.addr \cap PinsOf(p)

\* Of each port in turn: the pins are written when they change.
Address(c) ==
  /\ At(c, "address")
  /\ Goto(c, IF lastPins[port[c]] # PinsValue(port[c]) THEN "save" ELSE "written")
  /\ UNCHANGED <<primask, saved, samplerVars>>

WriteDatamask(c) ==
  /\ At(c, "datamask")
  /\ datamask' = [datamask EXCEPT ![port[c]] = PinsOf(port[c])]
  /\ Goto(c, "dataout")
  /\ UNCHANGED <<primask, saved, clientVars, readVars, lastMux, port, enabled, fading,
                 high, lastPins, otherHigh, adcVars, data, adcStopped>>

\* DATAOUT changes the pins that DATAMASK selects.
Dataout(p, mask, value) == (high[p] \ mask) \cup (value \cap mask)

WriteDataout(c) ==
  /\ At(c, "dataout")
  /\ LET p == port[c]
     IN  high' = [high EXCEPT ![p] = Dataout(p, datamask[p], PinsValue(p))]
  /\ Goto(c, "restore")
  /\ UNCHANGED <<primask, saved, clientVars, readVars, lastMux, port, enabled, fading,
                 datamask, lastPins, otherHigh, adcVars, data, adcStopped>>

\* The critical section of the two writes.
SelectPins(c) ==
  /\ SavePrimask(c) \/ MaskInterrupts(c, "datamask") \/ RestoreInterrupts(c, "written")
  /\ UNCHANGED samplerVars

PinsWritten(c) ==
  /\ At(c, "written")
  /\ lastPins' = [lastPins EXCEPT ![port[c]] = PinsValue(port[c])]
  /\ IF port[c] + 1 \in Ports
     THEN /\ port' = [port EXCEPT ![c] = @ + 1]
          /\ Goto(c, "address")
          /\ UNCHANGED lastMux
     ELSE /\ lastMux' = curRequest
          /\ Goto(c, "convert")
          /\ UNCHANGED port
  /\ UNCHANGED <<primask, saved, clientVars, readVars, enabled, fading, datamask, high,
                 otherHigh, adcVars, data, adcStopped>>

\* The FIFO is cleared, CTRL written and the timer started.
Convert(c) ==
  /\ At(c, "convert")
  /\ fifo' = <<>>
  /\ adc' = curRequest
  /\ Goto(c, "idle")
  /\ UNCHANGED <<primask, saved, clientVars, readVars, muxVars, irq, sysclk, data,
                 adcStopped>>

-----------------------------------------------------------------------------
(***************************************************************************)
(* The ADC, and the other handler                                          *)
(***************************************************************************)
\* What is sampled: the read that asked for it, the channel, what the multiplexers
\* connect to it, and whether those that were on before have let go.
Sample(r, chan) ==
  [read |-> accepted, chan |-> chan,
   mux |-> IF r.isMux THEN <<enabled, (high[0] \cup high[1]) \ {OtherPin}>> ELSE <<>>,
   settled |-> r.isMux => fading = {}]

\* The timer triggers a conversion, which may lack a sample.
Samples ==
  /\ adc # NoRequest
  /\ \E n \in {adc.cnt, adc.cnt + 1} :
       fifo' = [k \in 1 .. n |-> Sample(adc, IF adc.sweep THEN adc.chan + k - 1
                                             ELSE adc.chan)]
  /\ irq' = TRUE
  /\ adc' = NoRequest
  /\ UNCHANGED <<cpuVars, clientVars, readVars, muxVars, sysclk, data, adcStopped>>

\* A handler above the ADC's writes a pin of the same port in the same way.
OtherHandler ==
  /\ primask = 0
  /\ LET p == PortOf[OtherPin]
     IN  /\ datamask' = [datamask EXCEPT ![p] = {OtherPin}]
         /\ high' = [high EXCEPT ![p] = Dataout(p, {OtherPin},
                                                IF otherHigh THEN {} ELSE {OtherPin})]
  /\ otherHigh' = ~ otherHigh
  /\ UNCHANGED <<cpuVars, clientVars, readVars, lastMux, port, enabled, fading,
                 lastPins, adcVars, data, adcStopped>>

-----------------------------------------------------------------------------
(***************************************************************************)
(* adcIrq                                                                  *)
(***************************************************************************)
\* The words of the request: the sum of several samples of a channel, or the
\* samples themselves, or as many errors.
WordsRead ==
  LET ok == Len(fifo) = curRequest.cnt + 1
      n == Words(curRequest)
  IN  [i \in 1 .. n |-> CASE ~ ok -> ErrorWord
                          [] ok /\ n = 1 -> fifo
                          [] ok /\ n > 1 -> <<fifo[i]>>]

AdcIrq ==
  /\ MayStart(1) /\ irq /\ ~ adcStopped
  /\ irq' = FALSE
  /\ LET w == WordsRead
     IN  IF dataIndex + Len(w) > DataSize
         THEN adcStopped' = TRUE /\ UNCHANGED <<readVars, data, pc>>
         ELSE /\ data' = [data EXCEPT ![buffer] =
                   [i \in DOMAIN @ |-> IF i \in dataIndex .. dataIndex + Len(w) - 1
                                       THEN w[i - dataIndex + 1] ELSE @[i]]]
              /\ dataIndex' = dataIndex + Len(w)
              /\ readErrors' = (readErrors \/ w[1] = ErrorWord)
              /\ requestIndex' = requestIndex + 1
              /\ Goto(1, IF requestIndex' < Len(reqs) THEN "request" ELSE "idle")
              /\ UNCHANGED <<reqs, buffer, curRequest, adcStopped>>
  /\ UNCHANGED <<primask, saved, clientVars, muxVars, adc, fifo, sysclk>>

SamplerNext ==
  \/ \E list \in RequestLists \cup {<<>>}, b \in Buffers : StartRead(list, b)
  \/ RejectRead \/ AcceptRead
  \/ \E c \in {Main, 1} :
       \/ NextRequest(c) \/ Release(c) \/ Delay(c) \/ Make(c) \/ Address(c)
       \/ WriteDatamask(c) \/ WriteDataout(c) \/ SelectPins(c) \/ PinsWritten(c)
       \/ Convert(c)
  \/ Fade \/ Samples \/ AdcIrq \/ OtherHandler

SamplerAloneInit == CpuInit /\ SamplerInit

SamplerSpec == SamplerAloneInit /\ [][SamplerNext]_<<cpuVars, samplerVars>>

-----------------------------------------------------------------------------
(***************************************************************************)
(* Properties.                                                             *)
(***************************************************************************)
\* A multiplexer is switched on when the one before it has let go (AdcSampler.cpp:77-78,
\* :297-300).
BreakBeforeMake == Cardinality(enabled \cup fading) <= 1

\* No two multiplexers are ever switched on at once, or still connected unless the
\* delay falls short, and no handler's pin is changed by the address of one.
OneInput ==
  /\ Cardinality(enabled) <= 1
  /\ DelaySuffices => BreakBeforeMake
  /\ (OtherPin \in high[PortOf[OtherPin]]) = otherHigh

\* The sample a request asks for.
Wanted(r, chan, settled) ==
  [read |-> accepted, chan |-> chan,
   mux |-> IF r.isMux THEN <<{r.en} \ {NoPin}, r.addr>> ELSE <<>>,
   settled |-> settled]

WantedWords(r, settled) ==
  IF r.sweep THEN [i \in 1 .. r.cnt + 1 |-> <<Wanted(r, r.chan + i - 1, settled)>>]
  ELSE <<[i \in 1 .. r.cnt + 1 |-> Wanted(r, r.chan, settled)]>>

\* Whether what was on before has let go: always, if the delay suffices.
Settlings(r) == IF r.isMux /\ ~ DelaySuffices THEN BOOLEAN ELSE {TRUE}

IsWanted(word, r, k) == \E settled \in Settlings(r) : word = WantedWords(r, settled)[k]

\* Between calls, when checkRead says SUCCESS, the buffer of the read holds what
\* was asked for, request by request, or errors that are counted.
ResultsBelong ==
  (~ Busy /\ pc[Main] = "idle" /\ ~ adcStopped) =>
    /\ dataIndex = WordsOf(reqs, Len(reqs))
    /\ \A i \in DOMAIN reqs, k \in 1 .. 2 :
         k <= Words(reqs[i]) =>
           LET word == data[buffer][WordsOf(reqs, i - 1) + k - 1]
           IN  ~ IsWanted(word, reqs[i], k) => word = ErrorWord /\ readErrors

\* Whatever the order of client, handler, converter and the other handler, a read
\* ends with its own samples of its own inputs, unmixed as long as the 32-bit product
\* of clock and delay does not wrap to too short a delay (AdcSampler.cpp:135-137,
\* :175-379).
SamplesTrue == OneInput /\ ResultsBelong
================================================================================
