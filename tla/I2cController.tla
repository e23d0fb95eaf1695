----------------------------- MODULE I2cController -----------------------------
(***************************************************************************)
(* Va416x0/Drv/I2cController: reads, writes and write-reads that poll the  *)
(* peripheral for a bounded time. The peripheral goes on by itself, also   *)
(* after the driver has given up.                                          *)
(***************************************************************************)
EXTENDS Integers, Sequences

CONSTANTS
  PollingTimeoutMax,   \* polling_timeout_max
  MaxBytes,            \* bound on the bytes of a buffer
  MaxXacts,            \* bound on the transactions begun
  Apb1Hz,              \* frequency of the peripheral's clock
  I2cBits              \* what FREQ * MULT may be: steps of the clock in a second

ASSUME I2cAssumption ==
  /\ PollingTimeoutMax \in Nat \ {0} /\ MaxBytes \in Nat \ {0} /\ MaxXacts \in Nat
  /\ Apb1Hz \in Nat \ {0} /\ I2cBits \subseteq Nat \ {0}

VARIABLES
  i2cReady,   \* m_i2c_peripheral has a value
  txfemd,     \* an empty FIFO ends a send (TXFEMD_END_XACT), or stalls it
  i2cCall,    \* the call in progress: its operation, the bytes to read after a
              \* write, its bytes and polls
  bus,        \* "idle", "sending", "receiving", or "waiting" for a command
  withStop,   \* the command in progress ends with STOP
  left,       \* WORDS, as far as it is to be done
  fault,      \* an error bit of STATUS
  txFifo, rxFifo,
  xact,       \* the transaction in progress or done last (ghost)
  sent,       \* bytes of it that the device has been sent (ghost)
  i2cResult,  \* of the last call: status and bytes read
  i2cStopped  \* an assertion has failed

i2cPeripheral == <<bus, withStop, left, fault, txFifo, rxFifo, xact, sent>>
i2cVars == <<i2cReady, txfemd, i2cCall, i2cPeripheral, i2cResult, i2cStopped>>

NoI2cCall == [op |-> "none", then |-> 0, bytes |-> 0, polls |-> 0]
NoResult == [status |-> "NONE", bytes |-> <<>>]
Failed(status) == [status |-> status, bytes |-> <<>>]

I2cInit ==
  /\ i2cReady = FALSE /\ txfemd = FALSE
  /\ i2cCall = NoI2cCall
  /\ bus = "idle" /\ withStop = FALSE /\ left = 0 /\ fault = FALSE
  /\ txFifo = <<>> /\ rxFifo = <<>> /\ xact = 0 /\ sent = 0
  /\ i2cResult = NoResult /\ i2cStopped = FALSE

\* The divider of the peripheral's clock, less one: an assertion unless 8 bits hold
\* it, which a clock that is too slow sees to as well, for it wraps.
ClkScaleFits(hz) == Apb1Hz \div hz \in 1 .. 256

I2cConfigure(mode, hz) ==
  /\ ~ i2cStopped /\ i2cCall = NoI2cCall
  /\ IF i2cReady \/ ~ ClkScaleFits(hz)
     THEN i2cStopped' = TRUE /\ UNCHANGED <<i2cReady, txfemd, txFifo, rxFifo>>
     ELSE /\ i2cReady' = TRUE /\ txfemd' = mode
          /\ txFifo' = <<>> /\ rxFifo' = <<>>
          /\ UNCHANGED i2cStopped
  /\ UNCHANGED <<i2cCall, bus, withStop, left, fault, xact, sent, i2cResult>>

\* A handler is called: an assertion unless configured.
MayCall == i2cCall = NoI2cCall /\ i2cReady /\ ~ i2cStopped

I2cCallTooEarly ==
  /\ ~ i2cReady /\ ~ i2cStopped
  /\ i2cStopped' = TRUE
  /\ UNCHANGED <<i2cReady, txfemd, i2cCall, i2cPeripheral, i2cResult>>

-----------------------------------------------------------------------------
\* The bytes of a transaction.
BytesOf(x, n) == [i \in 1 .. n |-> <<x, i>>]

\* Rx FIFO, WORDS, ADDRESS and CMD.
Receive(n) == bus' = "receiving" /\ left' = n /\ rxFifo' = <<>>

\* bus_is_busy: nothing is begun.
CallWhileBusy(status) ==
  /\ MayCall /\ bus # "idle"
  /\ i2cResult' = Failed(status)
  /\ UNCHANGED <<i2cReady, txfemd, i2cCall, i2cPeripheral, i2cStopped>>

BeginRead(n) ==
  /\ MayCall /\ bus = "idle" /\ xact < MaxXacts
  /\ Receive(n)
  /\ withStop' = TRUE /\ fault' = FALSE
  /\ xact' = xact + 1 /\ sent' = 0
  /\ i2cCall' = [NoI2cCall EXCEPT !.op = "read", !.bytes = n]
  /\ i2cResult' = NoResult
  /\ UNCHANGED <<i2cReady, txfemd, txFifo, i2cStopped>>

\* write_helper, of write (nothing is read then) and writeRead
BeginWrite(n, then) ==
  /\ MayCall /\ bus = "idle" /\ xact < MaxXacts
  /\ bus' = "sending" /\ left' = n /\ txFifo' = BytesOf(xact + 1, n)
  /\ withStop' = (then = 0) /\ fault' = FALSE
  /\ xact' = xact + 1 /\ sent' = 0
  /\ i2cCall' = [NoI2cCall EXCEPT !.op = "write", !.bytes = n, !.then = then]
  /\ i2cResult' = NoResult
  /\ UNCHANGED <<i2cReady, txfemd, rxFifo, i2cStopped>>

-----------------------------------------------------------------------------
(***************************************************************************)
(* The peripheral, external                                                *)
(***************************************************************************)
ReceiveByte ==
  /\ bus = "receiving" /\ left > 0
  /\ rxFifo' = Append(rxFifo, <<xact, sent + 1>>)
  /\ left' = left - 1 /\ sent' = sent + 1
  /\ UNCHANGED <<i2cReady, txfemd, i2cCall, bus, withStop, fault, txFifo, xact,
                 i2cResult, i2cStopped>>

SendByte ==
  /\ bus = "sending" /\ left > 0 /\ txFifo # <<>>
  /\ txFifo' = Tail(txFifo)
  /\ left' = left - 1 /\ sent' = sent + 1
  /\ UNCHANGED <<i2cReady, txfemd, i2cCall, bus, withStop, fault, rxFifo, xact,
                 i2cResult, i2cStopped>>

\* Where the bus goes when a command is done.
BusReleased == IF withStop THEN "idle" ELSE "waiting"

CommandDone ==
  /\ bus \in {"sending", "receiving"} /\ left = 0
  /\ bus' = BusReleased
  /\ UNCHANGED <<i2cReady, txfemd, i2cCall, withStop, left, fault, txFifo, rxFifo, xact,
                 sent, i2cResult, i2cStopped>>

\* The FIFO was cleared under a send.
SendRunsDry ==
  /\ bus = "sending" /\ left > 0 /\ txFifo = <<>>
  /\ IF txfemd THEN bus' = BusReleased /\ UNCHANGED fault
               ELSE fault' = TRUE /\ UNCHANGED bus
  /\ UNCHANGED <<i2cReady, txfemd, i2cCall, withStop, left, txFifo, rxFifo, xact, sent,
                 i2cResult, i2cStopped>>

\* The device does not answer, or arbitration is lost. Without STOP the bus may be
\* held all the same.
Nack ==
  /\ bus \in {"sending", "receiving"}
  /\ fault' = TRUE
  /\ bus' \in {"idle", BusReleased}
  /\ UNCHANGED <<i2cReady, txfemd, i2cCall, withStop, left, txFifo, rxFifo, xact, sent,
                 i2cResult, i2cStopped>>

-----------------------------------------------------------------------------
(***************************************************************************)
(* The polling loops                                                       *)
(***************************************************************************)
\* A loop ends when it has polled enough, whatever the last status is.
Ended(done) == done \/ i2cCall.polls + 1 >= PollingTimeoutMax

\* Mutant of TimedOut: the count is not looked at.
NeverTimedOut == FALSE

TimedOut == i2cCall.polls + 1 >= PollingTimeoutMax

\* STATUS_IDLE, or STATUS_WAITING too in a write without STOP.
Done == bus = "idle" \/ (i2cCall.then > 0 /\ bus = "waiting")

PollAgain ==
  /\ i2cCall.op # "none" /\ ~ Ended(Done)
  /\ i2cCall' = [i2cCall EXCEPT !.polls = @ + 1]
  /\ UNCHANGED <<i2cReady, txfemd, i2cPeripheral, i2cResult, i2cStopped>>

EndRead ==
  /\ i2cCall.op = "read" /\ Ended(Done)
  /\ i2cResult' = IF fault \/ TimedOut \/ Len(rxFifo) # i2cCall.bytes
                  THEN Failed("I2C_READ_ERR")
                  ELSE [status |-> "I2C_OK", bytes |-> rxFifo]
  /\ rxFifo' = <<>>
  /\ i2cCall' = NoI2cCall
  /\ UNCHANGED <<i2cReady, txfemd, bus, withStop, left, fault, txFifo, xact, sent,
                 i2cStopped>>

FailWrite ==
  /\ i2cCall.op = "write" /\ Ended(Done) /\ (fault \/ TimedOut)
  /\ txFifo' = <<>>
  /\ i2cResult' = Failed("I2C_WRITE_ERR")
  /\ i2cCall' = NoI2cCall
  /\ UNCHANGED <<i2cReady, txfemd, bus, withStop, left, fault, rxFifo, xact, sent,
                 i2cStopped>>

EndWrite ==
  /\ i2cCall.op = "write" /\ i2cCall.then = 0 /\ Ended(Done) /\ ~ (fault \/ TimedOut)
  /\ i2cResult' = [status |-> "I2C_OK", bytes |-> <<>>]
  /\ i2cCall' = NoI2cCall
  /\ UNCHANGED <<i2cReady, txfemd, i2cPeripheral, i2cStopped>>

\* The read of a writeRead, with the bus still held: a restart and then STOP.
ReadAfterWrite ==
  /\ i2cCall.op = "write" /\ i2cCall.then > 0 /\ Ended(Done) /\ ~ (fault \/ TimedOut)
  /\ Receive(i2cCall.then)
  /\ withStop' = TRUE
  /\ xact' = xact + 1 /\ sent' = 0
  /\ i2cCall' = [NoI2cCall EXCEPT !.op = "read", !.bytes = i2cCall.then]
  /\ UNCHANGED <<i2cReady, txfemd, fault, txFifo, i2cResult, i2cStopped>>

I2cNext ==
  \/ \E mode \in BOOLEAN, hz \in I2cBits : I2cConfigure(mode, hz)
  \/ I2cCallTooEarly
  \/ \E status \in {"I2C_READ_ERR", "I2C_WRITE_ERR"} : CallWhileBusy(status)
  \/ \E n \in 1 .. MaxBytes :
       BeginRead(n) \/ \E then \in 0 .. MaxBytes : BeginWrite(n, then)
  \/ ReceiveByte \/ SendByte \/ CommandDone \/ SendRunsDry \/ Nack
  \/ PollAgain \/ EndRead \/ FailWrite \/ EndWrite \/ ReadAfterWrite

I2cSpec == I2cInit /\ [][I2cNext]_i2cVars

-----------------------------------------------------------------------------
(***************************************************************************)
(* Properties.                                                             *)
(***************************************************************************)
\* I2C_OK is said of a transaction that is over: the bytes read are all of its own,
\* the bytes written have all been sent and the bus is free. Until the next call
\* the bus is held by nothing but a call that has failed, and the FIFO of a call never
\* holds bytes of another transaction, whenever an earlier one was given up
\* (I2cController.cpp:99-256).
TransactionsApart ==
  /\ i2cCall.op = "read" => \A i \in DOMAIN rxFifo : rxFifo[i][1] = xact
  /\ i2cCall.op = "write" => \A i \in DOMAIN txFifo : txFifo[i][1] = xact
  /\ i2cCall = NoI2cCall /\ bus # "idle" =>
       i2cResult.status \in {"I2C_READ_ERR", "I2C_WRITE_ERR"}
  /\ i2cResult.status = "I2C_OK" =>
       left = 0 /\ bus = "idle" /\ i2cResult.bytes \in {<<>>, BytesOf(xact, sent)}
================================================================================
