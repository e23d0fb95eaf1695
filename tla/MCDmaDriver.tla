------------------------------ MODULE MCDmaDriver ------------------------------
(***************************************************************************)
(* The DMA driver by itself.                                               *)
(***************************************************************************)
EXTENDS DmaDriver

Transaction(src, dstInc, size, count, sreq) ==
  [src |-> src, dst |-> 20, srcInc |-> 1, dstInc |-> dstInc, size |-> size,
   count |-> count, sreq |-> sreq]

\* Transactions that are too long, that end at the boundary and beyond it, and one
\* by single requests.
FourTransactions ==
  {Transaction(20, 1, 1, 4, FALSE), Transaction(8, 1, 1, 2, FALSE),
   Transaction(8, 0, 2, 2, FALSE), Transaction(20, 2, 2, 3, TRUE)}
================================================================================
