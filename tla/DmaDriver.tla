------------------------------- MODULE DmaDriver -------------------------------
(***************************************************************************)
(* Va416x0/Drv/DmaDriver, with the control structure in memory that it     *)
(* shares with the DMA engine. Its ports are guarded: one call at a time,  *)
(* while the engine goes on with the other channels and with this one.     *)
(***************************************************************************)
EXTENDS Integers, Sequences, FiniteSets

CONSTANTS
  DmaChannels,   \* the DMA channels in use
  Transactions,  \* the transactions asked for
  MaxTransfers,  \* MAX_TRANSFER_COUNT, what the count's field can hold
  Boundary       \* DMA_INVALID_CROSSING_BOUNDARY

(***************************************************************************)
(* A transaction is a record of src, dst (addresses), srcInc, dstInc (how  *)
(* much they grow per transfer), size (bytes of a transfer), count (of     *)
(* transfers) and sreq (its request type is DMA_SREQ).                     *)
(***************************************************************************)
ASSUME DmaAssumption ==
  /\ IsFiniteSet(DmaChannels) /\ MaxTransfers \in Nat /\ Boundary \in Nat
  /\ \A t \in Transactions :
       /\ {t.src, t.dst, t.srcInc, t.dstInc, t.size, t.count} \subseteq Nat
       /\ t.sreq \in BOOLEAN

VARIABLES
  executing,     \* the channels whose currently_executing is set
  control,       \* src and dst end pointers, increments and the transfers left
                 \* after the next (n_minus_1), of each channel's primary half
  chnlEnable, chnlReqMask, dmattsel,   \* the channels whose bit is set
  active,        \* channels in the middle of a transfer
  activePending, \* channels whose active interrupt is pending
  dmaCall,       \* the call in progress and the channel it is of
  job,           \* the transaction each channel was started with last
  copied,        \* the transfers made since: source and destination (ghost)
  remaining,     \* what stop has answered since, or Unstopped
  excess,        \* by how much status has overstated the transfers left (ghost)
  dmaStopped     \* an assertion has failed

dmaVars == <<executing, control, chnlEnable, chnlReqMask, dmattsel, active,
             activePending, dmaCall, job, copied, remaining, excess, dmaStopped>>

Unstopped == -1
NoDmaCall == [at |-> "none", of |-> CHOOSE ch \in DmaChannels : TRUE]
NoJob == [src |-> 0, dst |-> 0, srcInc |-> 0, dstInc |-> 0, size |-> 1, count |-> 0,
          sreq |-> FALSE]

Calls(at) == dmaCall.at = at /\ ~ dmaStopped

\* The constructor: all channels disabled and unmasked.
DmaInit ==
  /\ executing = {} /\ chnlEnable = {} /\ chnlReqMask = {} /\ dmattsel = {}
  /\ control = [ch \in DmaChannels |->
                  [src |-> 0, dst |-> 0, srcInc |-> 0, dstInc |-> 0, left |-> 0]]
  /\ active = {} /\ activePending = {}
  /\ dmaCall = NoDmaCall
  /\ job = [ch \in DmaChannels |-> NoJob] /\ copied = [ch \in DmaChannels |-> <<>>]
  /\ remaining = [ch \in DmaChannels |-> Unstopped]
  /\ excess = 0 /\ dmaStopped = FALSE

-----------------------------------------------------------------------------
(***************************************************************************)
(* start_dma_transaction                                                   *)
(***************************************************************************)
\* calc_transaction_src_ptr and calc_transaction_dst_ptr
SrcPtr(t, index) == t.src + t.srcInc * index
DstPtr(t, index) == t.dst + t.dstInc * index

\* What the call asserts of a transaction.
MayTransfer(t) ==
  /\ t.count \in 1 .. MaxTransfers
  /\ t.src >= Boundary \/ SrcPtr(t, t.count - 1) + t.size <= Boundary
  /\ t.dst >= Boundary \/ DstPtr(t, t.count - 1) + t.size <= Boundary

\* write_dmattsel_for_channel: dmattsel |= ~(1 << channel) for DMA_SREQ.
DmattselFor(ch, sreq) ==
  IF sreq THEN dmattsel \cup (DmaChannels \ {ch}) ELSE dmattsel \ {ch}

StartDma(ch, t) ==
  /\ Calls("none")
  /\ IF ch \in executing \/ ~ MayTransfer(t)
     THEN /\ dmaStopped' = TRUE
          /\ UNCHANGED <<executing, control, chnlEnable, chnlReqMask, dmattsel, job,
                         copied, remaining>>
     ELSE /\ executing' = executing \cup {ch}
          /\ dmattsel' = DmattselFor(ch, t.sreq)
          /\ control' = [control EXCEPT ![ch] =
                           [src |-> SrcPtr(t, t.count - 1),
                             dst |-> DstPtr(t, t.count - 1),
                            srcInc |-> t.srcInc, dstInc |-> t.dstInc,
                            left |-> t.count - 1]]
          /\ chnlEnable' = chnlEnable \cup {ch}
          /\ chnlReqMask' = chnlReqMask \ {ch}
          /\ job' = [job EXCEPT ![ch] = t]
          /\ copied' = [copied EXCEPT ![ch] = <<>>]
          /\ remaining' = [remaining EXCEPT ![ch] = Unstopped]
          /\ UNCHANGED dmaStopped
  /\ UNCHANGED <<active, activePending, dmaCall, excess>>

-----------------------------------------------------------------------------
(***************************************************************************)
(* The engine (PL230), external                                            *)
(***************************************************************************)
\* A request of the peripheral is taken, when the channel lets it through.
TakeRequest(ch) ==
  /\ ch \in (chnlEnable \ chnlReqMask) \ active
  /\ active' = active \cup {ch}
  /\ activePending' = activePending \cup {ch}
  /\ UNCHANGED <<executing, control, chnlEnable, chnlReqMask, dmattsel, dmaCall, job,
                 copied, remaining, excess, dmaStopped>>

\* The transfer, counted back from the end pointers; the last one disables the
\* channel.
Transfer(ch) ==
  /\ ch \in active
  /\ LET k == control[ch]
     IN  /\ copied' = [copied EXCEPT ![ch] =
                         Append(@, <<k.src - (k.srcInc * k.left),
                                     k.dst - (k.dstInc * k.left)>>)]
         /\ IF k.left = 0
            THEN chnlEnable' = chnlEnable \ {ch} /\ UNCHANGED control
            ELSE control' = [control EXCEPT ![ch].left = @ - 1] /\ UNCHANGED chnlEnable
  /\ active' = active \ {ch}
  /\ UNCHANGED <<executing, chnlReqMask, dmattsel, activePending, dmaCall, job,
                 remaining, excess, dmaStopped>>

-----------------------------------------------------------------------------
(***************************************************************************)
(* status_dma_transaction: the enable bit is read, and then the count.     *)
(***************************************************************************)
Overstated(ch, n) == n - (job[ch].count - Len(copied[ch]))

StatusEnabled(ch) ==
  /\ Calls("none") /\ ch \in executing
  /\ IF ch \in chnlEnable
     THEN dmaCall' = [at |-> "status", of |-> ch] /\ UNCHANGED excess
     ELSE excess' = Overstated(ch, 0) /\ UNCHANGED dmaCall
  /\ UNCHANGED <<executing, control, chnlEnable, chnlReqMask, dmattsel, active,
                 activePending, job, copied, remaining, dmaStopped>>

StatusCount ==
  /\ Calls("status")
  /\ excess' = Overstated(dmaCall.of, control[dmaCall.of].left + 1)
  /\ dmaCall' = NoDmaCall
  /\ UNCHANGED <<executing, control, chnlEnable, chnlReqMask, dmattsel, active,
                 activePending, job, copied, remaining, dmaStopped>>

-----------------------------------------------------------------------------
(***************************************************************************)
(* stop_dma_transaction                                                    *)
(***************************************************************************)
\* Mutant of StopMask: requests are still let through.
StopUnmasked(ch) ==
  /\ Calls("none") /\ ch \in executing
  /\ executing' = executing \ {ch}
  /\ dmaCall' = [at |-> "test", of |-> ch]
  /\ UNCHANGED <<control, chnlEnable, chnlReqMask, dmattsel, active, activePending, job,
                 copied, remaining, excess, dmaStopped>>

StopMask(ch) ==
  /\ Calls("none") /\ ch \in executing
  /\ executing' = executing \ {ch}
  /\ chnlReqMask' = chnlReqMask \cup {ch}
  /\ dmaCall' = [at |-> "test", of |-> ch]
  /\ UNCHANGED <<control, chnlEnable, dmattsel, active, activePending, job, copied,
                 remaining, excess, dmaStopped>>

\* After a wait the active interrupt is cleared, and stays pending if the channel
\* is still active: an assertion.
StopTest ==
  /\ Calls("test")
  /\ activePending' = activePending \ ({dmaCall.of} \ active)
  /\ IF dmaCall.of \in activePending'
     THEN dmaStopped' = TRUE /\ UNCHANGED dmaCall
     ELSE dmaCall' = [dmaCall EXCEPT !.at = "stop"] /\ UNCHANGED dmaStopped
  /\ UNCHANGED <<executing, control, chnlEnable, chnlReqMask, dmattsel, active, job,
                 copied, remaining, excess>>

StopEnabled ==
  /\ Calls("stop")
  /\ IF dmaCall.of \in chnlEnable
     THEN dmaCall' = [dmaCall EXCEPT !.at = "count"] /\ UNCHANGED remaining
     ELSE /\ remaining' = [remaining EXCEPT ![dmaCall.of] = 0]
          /\ dmaCall' = NoDmaCall
  /\ UNCHANGED <<executing, control, chnlEnable, chnlReqMask, dmattsel, active,
                 activePending, job, copied, excess, dmaStopped>>

StopCount ==
  /\ Calls("count")
  /\ remaining' = [remaining EXCEPT ![dmaCall.of] = control[dmaCall.of].left + 1]
  /\ dmaCall' = NoDmaCall
  /\ UNCHANGED <<executing, control, chnlEnable, chnlReqMask, dmattsel, active,
                 activePending, job, copied, excess, dmaStopped>>

\* status and stop assert that the channel has been started.
CallTooEarly(ch) ==
  /\ Calls("none") /\ ch \notin executing
  /\ dmaStopped' = TRUE
  /\ UNCHANGED <<executing, control, chnlEnable, chnlReqMask, dmattsel, active,
                 activePending, dmaCall, job, copied, remaining, excess>>

DmaNext ==
  \/ \E ch \in DmaChannels :
       \/ \E t \in Transactions : StartDma(ch, t)
       \/ TakeRequest(ch) \/ Transfer(ch)
       \/ StatusEnabled(ch) \/ StopMask(ch) \/ CallTooEarly(ch)
  \/ StatusCount \/ StopTest \/ StopEnabled \/ StopCount

DmaSpec == DmaInit /\ [][DmaNext]_dmaVars

-----------------------------------------------------------------------------
(***************************************************************************)
(* Properties.                                                             *)
(***************************************************************************)
\* The elements of a transaction, copied in order, none of them twice and none
\* across the boundary.
CopiedInOrder ==
  \A ch \in DmaChannels, i \in 1 .. MaxTransfers :
    i <= Len(copied[ch]) =>
      LET t == job[ch]
          within(a) == a >= Boundary \/ a + t.size <= Boundary
      IN  /\ i <= t.count
          /\ copied[ch][i] = <<SrcPtr(t, i - 1), DstPtr(t, i - 1)>>
          /\ within(copied[ch][i][1]) /\ within(copied[ch][i][2])

\* What stop answers is what has not been and will not be copied, however the
\* call and the engine interleave; status overstates it by one at most
\* (DmaDriver.cpp:63-178).
TransfersExact ==
  /\ CopiedInOrder
  /\ \A ch \in DmaChannels :
       remaining[ch] # Unstopped => Len(copied[ch]) + remaining[ch] = job[ch].count
  /\ excess \in {0, 1}

\* A channel being used has the request type of its transaction, in the bit that
\* read_dmattsel_for_channel takes for it (IrqRouter.cpp:91-95, DmaDriver.cpp:71).
\* The code does not do so: DMA_SREQ sets the bits of the other channels.
RequestTypesTaken ==
  \A ch \in executing : (ch \in dmattsel) = job[ch].sreq
================================================================================
