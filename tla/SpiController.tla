----------------------------- MODULE SpiController -----------------------------
(***************************************************************************)
(* Va416x0/Drv/SpiController: exchanges bytes with a subordinate through   *)
(* the two FIFOs of the peripheral. In its loop it acts on the status it   *)
(* read at the end of the round before, while the wire goes on: by any     *)
(* number of words, as interrupts may keep the loop from its next round.   *)
(***************************************************************************)
EXTENDS Integers, Sequences

CONSTANTS
  FifoSize,        \* MAX_FIFO_WORDS
  MaxExchange,     \* bound on the bytes of a buffer
  SpiPorts,        \* the ports called
  MaxSs,           \* CTRL1_SS_MAX
  PeripheralHz,    \* frequency of the peripheral's clock
  MaxDivisor,      \* 1 + CTRL0_SCRDV_MAX
  SpiHz,           \* frequencies open is called with
  MaxExchanges     \* bound on the calls

ASSUME SpiAssumption ==
  /\ FifoSize \in Nat \ {0}
  /\ {MaxExchange, MaxSs, MaxExchanges} \subseteq Nat
  /\ SpiPorts \subseteq Nat
  /\ PeripheralHz \in Nat \ {0} /\ MaxDivisor \in Nat \ {0} /\ SpiHz \subseteq Nat

VARIABLES
  settings,    \* CTRL0 and CTRL1 as open has written them, or NotOpen
  exchange,    \* the call in progress: where it is, its number, port and size
  writeIndex, readIndex,
  status,      \* the status read last
  spiTx, shifting, spiRx,   \* the FIFOs, and the word on the wire
  readBuffer,
  overrun,     \* a byte has found no room in the transmit FIFO (ghost)
  lost,        \* answers that have found no room in the receive FIFO (ghost)
  spiStopped   \* "no", or what the failed assertion is about

wireVars == <<spiTx, shifting, spiRx, overrun, lost>>
spiVars == <<settings, exchange, writeIndex, readIndex, status, wireVars, readBuffer,
             spiStopped>>

NotOpen == [idle |-> "none"]
NoExchange == [at |-> "none", number |-> 0, port |-> 0, size |-> 0]

SpiInit ==
  /\ settings = NotOpen /\ exchange = NoExchange
  /\ writeIndex = 0 /\ readIndex = 0
  /\ status = [empty |-> TRUE, notFull |-> TRUE, notEmpty |-> FALSE, busy |-> FALSE]
  /\ spiTx = <<>> /\ shifting = <<>> /\ spiRx = <<>>
  /\ overrun = FALSE /\ lost = 0
  /\ readBuffer = <<>>
  /\ spiStopped = "no"

SpiAssert(holds, about) == spiStopped' = IF holds THEN spiStopped ELSE about

-----------------------------------------------------------------------------
Idles == {"low", "high"}
Edges == {"falling", "rising"}

\* The edge a word is shifted out on is named by whether SCK leaves its idle level.
SpiSettings(idle, out, in, hz) ==
  [idle |-> idle,
   onDeassert |-> (out = "falling") # (idle = "high"),
   delayed |-> out = in,
   divisor |-> PeripheralHz \div hz]

\* The frequency is to be an exact divisor of the peripheral's.
SpiOpen(idle, out, in, hz) ==
  /\ spiStopped = "no" /\ exchange.at = "none"
  /\ LET ok == /\ settings = NotOpen /\ hz > 0
               /\ PeripheralHz % hz = 0 /\ PeripheralHz \div hz <= MaxDivisor
     IN  /\ SpiAssert(ok, "open")
         /\ settings' = IF ok THEN SpiSettings(idle, out, in, hz) ELSE settings
  /\ spiTx' = <<>> /\ spiRx' = <<>>
  /\ UNCHANGED <<exchange, writeIndex, readIndex, status, shifting, overrun, lost,
                 readBuffer>>

-----------------------------------------------------------------------------
(***************************************************************************)
(* SpiReadWrite_handler                                                    *)
(***************************************************************************)
Status == [empty |-> spiTx = <<>>, notFull |-> Len(spiTx) < FifoSize,
           notEmpty |-> spiRx # <<>>, busy |-> shifting # <<>>]

\* Nothing is in the peripheral.
Quiet(s) == s.empty /\ ~ s.busy /\ ~ s.notEmpty

\* The buffers are of the same size; the subordinate is selected by the port.
ReadWrite(port, written, read) ==
  /\ spiStopped = "no" /\ exchange.at = "none" /\ exchange.number < MaxExchanges
  /\ SpiAssert(settings # NotOpen /\ written = read /\ port <= MaxSs, "call")
  /\ exchange' = [at |-> "entered", number |-> exchange.number + 1, port |-> port,
                  size |-> written]
  /\ readBuffer' = <<>> /\ writeIndex' = 0 /\ readIndex' = 0
  /\ UNCHANGED <<settings, status, wireVars>>

\* The status before the first round, of every round, and after the last.
ReadStatus ==
  /\ spiStopped = "no" /\ exchange.at \in {"entered", "status"}
  /\ status' = Status
  /\ LET over == writeIndex = exchange.size /\ readIndex = exchange.size
     IN  /\ SpiAssert(exchange.at = "entered" \/ over => Quiet(Status), "hardware")
         /\ exchange' = [exchange EXCEPT !.at = IF over THEN "none" ELSE "write"]
  /\ UNCHANGED <<settings, writeIndex, readIndex, wireVars, readBuffer>>

\* The guard of the loop, after as many rounds as a U32 counts: everything has been
\* written, and nothing is left in the peripheral to be read.
LoopGuard ==
  /\ spiStopped = "no" /\ exchange.at = "status"
  /\ writeIndex = exchange.size /\ readIndex < exchange.size /\ Quiet(Status)
  /\ spiStopped' = "stuck"
  /\ UNCHANGED <<settings, exchange, writeIndex, readIndex, status, wireVars, readBuffer>>

\* Mutant of MayWrite: a status that tells of room is not waited for.
MayWriteAlways == writeIndex < exchange.size

MayWrite == writeIndex < exchange.size /\ status.notFull

\* A byte is written if there was room ...
WriteData ==
  /\ exchange.at = "write" /\ spiStopped = "no"
  /\ IF MayWrite
     THEN /\ overrun' = (overrun \/ Len(spiTx) = FifoSize)
          /\ spiTx' = IF Len(spiTx) = FifoSize THEN spiTx
                      ELSE Append(spiTx, writeIndex + 1)
          /\ writeIndex' = writeIndex + 1
     ELSE UNCHANGED <<overrun, spiTx, writeIndex>>
  /\ exchange' = [exchange EXCEPT !.at = "read"]
  /\ UNCHANGED <<settings, readIndex, status, shifting, spiRx, lost, readBuffer,
                 spiStopped>>

\* ... and another one read if there was one.
ReadData ==
  /\ exchange.at = "read" /\ spiStopped = "no"
  /\ IF readIndex < exchange.size /\ status.notEmpty
     THEN /\ readBuffer' = Append(readBuffer, Head(spiRx))
          /\ spiRx' = Tail(spiRx)
          /\ readIndex' = readIndex + 1
     ELSE UNCHANGED <<readBuffer, spiRx, readIndex>>
  /\ exchange' = [exchange EXCEPT !.at = "status"]
  /\ UNCHANGED <<settings, writeIndex, status, spiTx, shifting, overrun, lost,
                 spiStopped>>

-----------------------------------------------------------------------------
\* The peripheral, external: a word goes out ...
ShiftOut ==
  /\ shifting = <<>> /\ spiTx # <<>>
  /\ shifting' = <<Head(spiTx)>> /\ spiTx' = Tail(spiTx)
  /\ UNCHANGED <<settings, exchange, writeIndex, readIndex, status, spiRx, overrun,
                 lost, readBuffer, spiStopped>>

\* ... while the answer to it comes in, and is lost when the FIFO is full.
ShiftIn ==
  /\ shifting # <<>>
  /\ IF Len(spiRx) = FifoSize
     THEN lost' = lost + 1 /\ UNCHANGED spiRx
     ELSE /\ spiRx' = Append(spiRx, <<exchange.number, exchange.port, shifting[1]>>)
          /\ UNCHANGED lost
  /\ shifting' = <<>>
  /\ UNCHANGED <<settings, exchange, writeIndex, readIndex, status, spiTx, overrun,
                 readBuffer, spiStopped>>

SpiNext ==
  \/ \E idle \in Idles, out, in \in Edges, hz \in SpiHz : SpiOpen(idle, out, in, hz)
  \/ \E port \in SpiPorts, m, n \in 0 .. MaxExchange :
       (m = n \/ n = 0) /\ ReadWrite(port, m, n)
  \/ ReadStatus \/ LoopGuard \/ WriteData \/ ReadData
  \/ ShiftOut \/ ShiftIn

SpiSpec == SpiInit /\ [][SpiNext]_spiVars

-----------------------------------------------------------------------------
(***************************************************************************)
(* Properties.                                                             *)
(***************************************************************************)
\* The clock edge on which a word is shifted out.
ShiftOutEdge(s) ==
  IF s.onDeassert THEN IF s.idle = "low" THEN "falling" ELSE "rising"
                  ELSE IF s.idle = "low" THEN "rising" ELSE "falling"

EdgesAsAsked ==
  \A idle \in Idles, out, in \in Edges :
    ShiftOutEdge(SpiSettings(idle, out, in, 1)) = out

\* Although every round acts on a status that is out of date, no byte is written into a
\* full FIFO, the peripheral is found quiet at both ends of a call, and the bytes read
\* are the subordinate's answers in this call to the bytes of the same index: all of
\* them when the call returns, and in any case until the receive FIFO has lost one. A
\* call that lost one does not return, and the loop's guard stops no other
\* (SpiController.cpp:120-190, :46-104).
BytesAnswered ==
  /\ EdgesAsAsked
  /\ ~ overrun /\ spiStopped # "hardware"
  /\ lost = 0 => \A i \in DOMAIN readBuffer :
                   readBuffer[i] = <<exchange.number, exchange.port, i>>
  /\ exchange.at = "none" => lost = 0 /\ Len(readBuffer) = exchange.size
  /\ spiStopped = "stuck" => lost > 0

\* The assertion of the loop's guard holds (SpiController.cpp:173-175).
NeverStuck == spiStopped # "stuck"
================================================================================
