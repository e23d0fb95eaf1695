----------------------------- MODULE Drivers_proofs ----------------------------
(***************************************************************************)
(* Proofs about the drivers of peripherals: DmaDriver, with any channels,  *)
(* any transactions and any boundary; SpiController, with any depth of its *)
(* FIFOs, any number of exchanges of any size and any advance of the wire; *)
(* and I2cController, with any number of transactions, bytes and polls.    *)
(***************************************************************************)
EXTENDS DmaDriver, SpiController, I2cController, TLAPS

-----------------------------------------------------------------------------
(***************************************************************************)
(* DmaDriver                                                               *)
(***************************************************************************)
DmaCalls == {"none", "status", "test", "stop", "count"}
Primaries == [src : Nat, dst : Nat, srcInc : Nat, dstInc : Nat, left : Nat]

DmaTypes ==
  /\ executing \subseteq DmaChannels /\ chnlReqMask \subseteq DmaChannels
  /\ active \subseteq chnlEnable /\ chnlEnable \subseteq DmaChannels
  /\ active \subseteq activePending
  /\ control \in [DmaChannels -> Primaries]
  /\ job \in [DmaChannels -> Transactions \cup {NoJob}]
  /\ copied \in [DmaChannels -> Seq(Int \X Int)]
  /\ remaining \in [DmaChannels -> Int]
  /\ dmaCall \in [at : DmaCalls, of : DmaChannels \cup {NoDmaCall.of}]
  /\ dmaCall.at # "none" => dmaCall.of \in DmaChannels
  /\ excess \in {0, 1} /\ dmaStopped \in BOOLEAN

\* How far a channel is: what has been copied and what the control structure still
\* holds make up the transaction.
Progress(ch) ==
  /\ job[ch].count # 0 => MayTransfer(job[ch])
  /\ ch \in chnlEnable =>
       /\ job[ch].count # 0
       /\ Len(copied[ch]) + control[ch].left + 1 = job[ch].count
       /\ control[ch].src = SrcPtr(job[ch], job[ch].count - 1)
       /\ control[ch].dst = DstPtr(job[ch], job[ch].count - 1)
       /\ control[ch].srcInc = job[ch].srcInc /\ control[ch].dstInc = job[ch].dstInc
  /\ ch \notin chnlEnable => Len(copied[ch]) = job[ch].count /\ control[ch].left = 0
  /\ \A i \in 1 .. Len(copied[ch]) :
       copied[ch][i] = <<SrcPtr(job[ch], i - 1), DstPtr(job[ch], i - 1)>>

\* The engine does nothing more with a channel.
Frozen(ch) == ch \notin active /\ (ch \in chnlEnable => ch \in chnlReqMask)

\* Stop has masked the requests before it waits, so after the wait the channel is
\* at rest; what it has answered stays true.
Stopping ==
  /\ ~ dmaStopped =>
       /\ \A ch \in DmaChannels \ executing :
            ~ (dmaCall.at = "test" /\ dmaCall.of = ch) => Frozen(ch)
       /\ dmaCall.at = "test" => dmaCall.of \in chnlReqMask
       /\ dmaCall.at \in {"test", "stop", "count"} => dmaCall.of \notin executing
       /\ dmaCall.at = "count" => dmaCall.of \in chnlEnable
  /\ \A ch \in DmaChannels :
       remaining[ch] # Unstopped =>
         /\ Frozen(ch) /\ ch \notin executing
         /\ Len(copied[ch]) + remaining[ch] = job[ch].count

DmaInv == DmaTypes /\ (\A ch \in DmaChannels : Progress(ch)) /\ Stopping

\* A transaction's fields are numbers.
LEMMA JobFields ==
  \A t \in Transactions \cup {NoJob} :
    /\ t.src \in Nat /\ t.dst \in Nat /\ t.srcInc \in Nat /\ t.dstInc \in Nat
    /\ t.size \in Nat /\ t.count \in Nat
BY DmaAssumption DEF NoJob

\* Products of what an element is and how many there are.
LEMMA Products ==
  ASSUME NEW b \in Nat, NEW n \in Nat, NEW l \in Nat, l <= n
  PROVE  /\ b * n \in Nat /\ b * l \in Nat /\ b * (n - l) \in Nat
         /\ b * n - b * l = b * (n - l) /\ b * l <= b * n
<1>1. PICK m \in Nat : n = l + m
  <2>1. n - l \in Nat /\ n = l + (n - l)
    OBVIOUS
  <2> QED
    BY <2>1
<1>2. b * n = b * l + b * m /\ b * m \in Nat /\ b * l \in Nat
  BY <1>1
<1>3. n - l = m
  BY <1>1
<1> QED
  BY <1>2, <1>3

\* What has been copied, what is left after the next and the next itself.
LEMMA CountsAdd ==
  ASSUME NEW n \in Nat, NEW l \in Nat, NEW c \in Nat, n + l + 1 = c
  PROVE  /\ c - 1 \in Nat /\ l <= c - 1 /\ (c - 1) - l = n
         /\ l = 0 => n + 1 = c
         /\ l # 0 => (n + 1) + (l - 1) + 1 = c
OBVIOUS

\* The element counted back from the end pointer is the one counted from the start.
LEMMA CountedBack ==
  ASSUME NEW a \in Nat, NEW b \in Nat, NEW n \in Nat, NEW l \in Nat, l <= n
  PROVE  /\ a + b * n \in Nat
         /\ (a + b * n) - (b * l) = a + b * (n - l)
<1>1. /\ b * n \in Nat /\ b * l \in Nat /\ b * (n - l) \in Nat
      /\ b * n - b * l = b * (n - l)
  BY Products
<1> DEFINE p == b * n
           q == b * l
           r == b * (n - l)
<1> HIDE DEF p, q, r
<1>2. p \in Nat /\ q \in Nat /\ r \in Nat /\ p - q = r
  BY <1>1 DEF p, q, r
<1>3. a + p \in Nat /\ (a + p) - q = a + r
  BY <1>2
<1> QED
  BY <1>3 DEF p, q, r

\* So the end pointers of a transaction are what the engine takes them for.
LEMMA EndPtrs ==
  ASSUME NEW t, t.src \in Nat, t.dst \in Nat, t.srcInc \in Nat, t.dstInc \in Nat,
         NEW m \in Nat, NEW l \in Nat, l <= m, NEW n \in Nat, m - l = n
  PROVE  /\ SrcPtr(t, m) - (t.srcInc * l) = SrcPtr(t, n)
         /\ DstPtr(t, m) - (t.dstInc * l) = DstPtr(t, n)
<1>1. ASSUME NEW a \in Nat, NEW b \in Nat PROVE (a + b * m) - (b * l) = a + b * n
  BY CountedBack
<1> QED
  BY <1>1 DEF SrcPtr, DstPtr

\* What begins beyond the boundary stays there, and what ends before it has been
\* before it all along.
LEMMA WithinBoundary ==
  ASSUME NEW a \in Nat, NEW b \in Nat, NEW size \in Nat, NEW n \in Nat, NEW l \in Nat,
         l <= n, a >= Boundary \/ (a + b * n) + size <= Boundary
  PROVE  a + b * l >= Boundary \/ (a + b * l) + size <= Boundary
<1>1. b * n \in Nat /\ b * l \in Nat /\ b * l <= b * n /\ Boundary \in Nat
  BY Products, DmaAssumption
<1> DEFINE p == b * n
           q == b * l
<1>2. p \in Nat /\ q \in Nat /\ q <= p
  BY <1>1
<1>3. a >= Boundary \/ (a + p) + size <= Boundary
  OBVIOUS
<1> HIDE DEF p, q
<1>4. a + q >= Boundary \/ (a + q) + size <= Boundary
  BY <1>1, <1>2, <1>3
<1> QED
  BY <1>4 DEF q

\* What Stopping says of two moments when only the call and the answers change.
LEMMA FrozenSame ==
  ASSUME UNCHANGED <<active, chnlEnable, chnlReqMask>>, NEW ch
  PROVE  Frozen(ch)' <=> Frozen(ch)
BY DEF Frozen

\* A channel that nothing is done to.
LEMMA ProgressSame ==
  ASSUME NEW ch \in DmaChannels, Progress(ch), job'[ch] = job[ch],
         copied'[ch] = copied[ch], control'[ch] = control[ch],
         ch \in chnlEnable' <=> ch \in chnlEnable
  PROVE  Progress(ch)'
BY DEF Progress

\* A transaction is started, on a channel that is at rest.
LEMMA StartDmaInv ==
  ASSUME DmaInv, NEW ch \in DmaChannels, NEW t \in Transactions, StartDma(ch, t)
  PROVE  DmaInv'
<1> USE DEF DmaInv
<1>1. /\ dmaCall.at = "none" /\ ~ dmaStopped
      /\ UNCHANGED <<active, activePending, dmaCall, excess>>
  BY DEF StartDma, Calls
<1>2. CASE ch \in executing \/ ~ MayTransfer(t)
  <2>1. /\ dmaStopped' = TRUE
        /\ UNCHANGED <<executing, control, chnlEnable, chnlReqMask, job, copied,
                       remaining>>
    BY <1>2 DEF StartDma
  <2>2. DmaTypes'
    BY <1>1, <2>1 DEF DmaTypes
  <2>3. \A d \in DmaChannels : Progress(d)'
    BY <2>1, ProgressSame
  <2>4. Stopping'
    BY <1>1, <2>1 DEF Stopping, Frozen
  <2> QED
    BY <2>2, <2>3, <2>4
<1>3. CASE ch \notin executing /\ MayTransfer(t)
  <2> DEFINE k == [src |-> SrcPtr(t, t.count - 1), dst |-> DstPtr(t, t.count - 1),
                   srcInc |-> t.srcInc, dstInc |-> t.dstInc, left |-> t.count - 1]
  <2>1. /\ executing' = executing \cup {ch} /\ chnlEnable' = chnlEnable \cup {ch}
        /\ chnlReqMask' = chnlReqMask \ {ch}
        /\ control' = [control EXCEPT ![ch] = k] /\ job' = [job EXCEPT ![ch] = t]
        /\ copied' = [copied EXCEPT ![ch] = <<>>]
        /\ remaining' = [remaining EXCEPT ![ch] = Unstopped]
        /\ dmaStopped' = dmaStopped
    BY <1>3 DEF StartDma
  <2>2. /\ t.src \in Nat /\ t.dst \in Nat /\ t.srcInc \in Nat /\ t.dstInc \in Nat
        /\ t.size \in Nat /\ t.count \in Nat
    BY JobFields
  <2>3. t.count - 1 \in Nat /\ t.count # 0 /\ (t.count - 1) + 1 = t.count
    BY <1>3, <2>2, DmaAssumption DEF MayTransfer
  <2>4. SrcPtr(t, t.count - 1) \in Nat /\ DstPtr(t, t.count - 1) \in Nat
    <3>1. t.count - 1 <= t.count - 1
      BY <2>3
    <3> QED
      BY <2>2, <2>3, <3>1, CountedBack DEF SrcPtr, DstPtr
  <2>5. k \in Primaries
    BY <2>2, <2>3, <2>4 DEF Primaries
  <2>6. /\ k.src = SrcPtr(t, t.count - 1) /\ k.dst = DstPtr(t, t.count - 1)
        /\ k.srcInc = t.srcInc /\ k.dstInc = t.dstInc /\ k.left = t.count - 1
    OBVIOUS
  <2> HIDE DEF k
  <2>7. Unstopped \in Int /\ <<>> \in Seq(Int \X Int) /\ Len(<<>>) = 0
    BY DEF Unstopped
  <2>8. /\ control' \in [DmaChannels -> Primaries] /\ control'[ch] = k
        /\ job' \in [DmaChannels -> Transactions \cup {NoJob}] /\ job'[ch] = t
        /\ copied' \in [DmaChannels -> Seq(Int \X Int)] /\ copied'[ch] = <<>>
        /\ remaining' \in [DmaChannels -> Int] /\ remaining'[ch] = Unstopped
        /\ \A d \in DmaChannels \ {ch} :
             /\ control'[d] = control[d] /\ job'[d] = job[d] /\ copied'[d] = copied[d]
             /\ remaining'[d] = remaining[d]
    BY <2>1, <2>5, <2>7 DEF DmaTypes
  <2>9. Frozen(ch)
    BY <1>1, <1>3 DEF Stopping
  <2>10. DmaTypes'
    BY <1>1, <2>1, <2>8 DEF DmaTypes
  <2>11. Progress(ch)'
    <3>1. Len(copied'[ch]) = 0 /\ \A i \in 1 .. Len(copied'[ch]) : FALSE
      BY <2>7, <2>8
    <3>2. MayTransfer(job'[ch]) /\ ch \in chnlEnable'
      BY <1>3, <2>1, <2>8
    <3>3. Len(copied'[ch]) + control'[ch].left + 1 = job'[ch].count
      BY <2>2, <2>3, <2>6, <2>8, <3>1
    <3>4. /\ control'[ch].src = SrcPtr(job'[ch], job'[ch].count - 1)
          /\ control'[ch].dst = DstPtr(job'[ch], job'[ch].count - 1)
          /\ control'[ch].srcInc = job'[ch].srcInc
          /\ control'[ch].dstInc = job'[ch].dstInc
          /\ job'[ch].count # 0
      BY <2>3, <2>6, <2>8
    <3>5. \A i \in 1 .. Len(copied'[ch]) :
            copied'[ch][i] = <<SrcPtr(job'[ch], i - 1), DstPtr(job'[ch], i - 1)>>
      BY <3>1
    <3>6. MayTransfer(job[ch])' <=> MayTransfer(job'[ch])
      BY DEF MayTransfer, SrcPtr, DstPtr
    <3> QED
      BY <3>2, <3>3, <3>4, <3>5, <3>6 DEF Progress, SrcPtr, DstPtr
  <2>12. \A d \in DmaChannels \ {ch} : Progress(d)'
    BY <2>1, <2>8, ProgressSame
  <2>13. \A d \in DmaChannels \ {ch} : Frozen(d)' <=> Frozen(d)
    BY <1>1, <2>1 DEF Frozen
  <2>14. Stopping'
    BY <1>1, <2>1, <2>8, <2>13 DEF Stopping
  <2> QED
    BY <2>10, <2>11, <2>12, <2>14
<1> QED
  BY <1>2, <1>3

\* The engine takes a request on a channel that lets it through.
LEMMA TakeRequestInv ==
  ASSUME DmaInv, NEW ch \in DmaChannels, TakeRequest(ch)
  PROVE  DmaInv'
<1> USE DEF DmaInv
<1>1. /\ ch \in chnlEnable /\ ch \notin chnlReqMask
      /\ active' = active \cup {ch} /\ activePending' = activePending \cup {ch}
      /\ UNCHANGED <<executing, control, chnlEnable, chnlReqMask, dmaCall, job,
                     copied, remaining, excess, dmaStopped>>
  BY DEF TakeRequest
<1>2. ~ Frozen(ch)
  BY <1>1 DEF Frozen
<1>3. \A d \in DmaChannels : Frozen(d) => Frozen(d)'
  BY <1>1, <1>2 DEF Frozen
<1>4. DmaTypes'
  BY <1>1 DEF DmaTypes
<1>5. \A d \in DmaChannels : Progress(d)'
  BY <1>1, ProgressSame
<1>6. Stopping'
  BY <1>1, <1>3 DEF Stopping
<1> QED
  BY <1>4, <1>5, <1>6

\* The engine copies the next element.
LEMMA TransferInv ==
  ASSUME DmaInv, NEW ch \in DmaChannels, Transfer(ch)
  PROVE  DmaInv'
<1> USE DEF DmaInv
<1> DEFINE k == control[ch]
           t == job[ch]
           n == Len(copied[ch])
           e == <<k.src - (k.srcInc * k.left), k.dst - (k.dstInc * k.left)>>
<1>1. /\ ch \in active /\ active' = active \ {ch}
      /\ copied' = [copied EXCEPT ![ch] = Append(@, e)]
      /\ k.left = 0 => chnlEnable' = chnlEnable \ {ch} /\ UNCHANGED control
      /\ k.left # 0 => UNCHANGED chnlEnable
      /\ UNCHANGED <<executing, chnlReqMask, activePending, dmaCall, job,
                     remaining, excess, dmaStopped>>
  BY DEF Transfer
<1>2. /\ copied[ch] \in Seq(Int \X Int) /\ n \in Nat /\ k \in Primaries
      /\ k.left \in Nat /\ k.src \in Nat /\ k.dst \in Nat /\ k.srcInc \in Nat
      /\ k.dstInc \in Nat /\ ch \in chnlEnable
  BY <1>1 DEF DmaTypes, Primaries
<1>3. /\ t.src \in Nat /\ t.dst \in Nat /\ t.srcInc \in Nat /\ t.dstInc \in Nat
      /\ t.count \in Nat
  BY JobFields DEF DmaTypes
<1>4. /\ t.count # 0 /\ MayTransfer(t) /\ n + k.left + 1 = t.count
      /\ k.src = SrcPtr(t, t.count - 1) /\ k.dst = DstPtr(t, t.count - 1)
      /\ k.srcInc = t.srcInc /\ k.dstInc = t.dstInc
  BY <1>2 DEF Progress
<1>5. /\ t.count - 1 \in Nat /\ k.left <= t.count - 1 /\ (t.count - 1) - k.left = n
      /\ k.left = 0 => n + 1 = t.count
      /\ k.left # 0 => (n + 1) + (k.left - 1) + 1 = t.count
  <2> DEFINE l == k.left
             c == t.count
  <2>1. n \in Nat /\ l \in Nat /\ c \in Nat /\ n + l + 1 = c
    BY <1>2, <1>3, <1>4
  <2> HIDE DEF n, l, c
  <2>2. /\ c - 1 \in Nat /\ l <= c - 1 /\ (c - 1) - l = n
        /\ l = 0 => n + 1 = c
        /\ l # 0 => (n + 1) + (l - 1) + 1 = c
    BY <2>1, CountsAdd
  <2> QED
    BY <2>2 DEF l, c
<1>6. e = <<SrcPtr(t, n), DstPtr(t, n)>> /\ e \in Int \X Int
  <2>1. /\ SrcPtr(t, t.count - 1) - (t.srcInc * k.left) = SrcPtr(t, n)
        /\ DstPtr(t, t.count - 1) - (t.dstInc * k.left) = DstPtr(t, n)
    <3> DEFINE m == t.count - 1
               l == k.left
    <3>1. m \in Nat /\ l \in Nat /\ l <= m /\ m - l = n /\ n \in Nat
      BY <1>2, <1>5
    <3> HIDE DEF m, l, n
    <3>2. /\ SrcPtr(t, m) - (t.srcInc * l) = SrcPtr(t, n)
          /\ DstPtr(t, m) - (t.dstInc * l) = DstPtr(t, n)
      BY <1>3, <3>1, EndPtrs
    <3> QED
      BY <3>2 DEF m, l
  <2>2. n <= n
    BY <1>2
  <2>3. SrcPtr(t, n) \in Nat /\ DstPtr(t, n) \in Nat
    BY <1>2, <1>3, <2>2, CountedBack DEF SrcPtr, DstPtr
  <2>4. e = <<SrcPtr(t, n), DstPtr(t, n)>>
    BY <1>4, <2>1
  <2> HIDE DEF e
  <2> QED
    BY <2>3, <2>4
<1> HIDE DEF e
<1>7. /\ copied' \in [DmaChannels -> Seq(Int \X Int)] /\ Len(copied'[ch]) = n + 1
      /\ \A i \in 1 .. n : copied'[ch][i] = copied[ch][i]
      /\ copied'[ch][n + 1] = e
      /\ \A d \in DmaChannels \ {ch} : copied'[d] = copied[d]
  BY <1>1, <1>2, <1>6 DEF DmaTypes
<1>8. /\ control' \in [DmaChannels -> Primaries]
      /\ \A d \in DmaChannels \ {ch} : control'[d] = control[d]
      /\ k.left = 0 => control'[ch] = k
      /\ k.left # 0 => /\ control'[ch].left = k.left - 1 /\ control'[ch].src = k.src
                       /\ control'[ch].dst = k.dst /\ control'[ch].srcInc = k.srcInc
                       /\ control'[ch].dstInc = k.dstInc
  <2>1. CASE k.left = 0
    BY <1>1, <2>1 DEF DmaTypes
  <2>2. CASE k.left # 0
    <3> DEFINE r == [k EXCEPT !.left = k.left - 1]
    <3>1. control' = [control EXCEPT ![ch] = r]
      BY <2>2 DEF Transfer
    <3>2. k.left - 1 \in Nat
      BY <1>2, <2>2
    <3>3. /\ r \in Primaries /\ r.left = k.left - 1 /\ r.src = k.src /\ r.dst = k.dst
          /\ r.srcInc = k.srcInc /\ r.dstInc = k.dstInc
      BY <1>2, <3>2 DEF Primaries
    <3> HIDE DEF r
    <3> QED
      BY <2>2, <3>1, <3>3 DEF DmaTypes
  <2> QED
    BY <2>1, <2>2
<1>9. \A d \in DmaChannels \ {ch} : d \in chnlEnable' <=> d \in chnlEnable
  BY <1>1
<1>10. chnlEnable' \subseteq chnlEnable /\ chnlEnable \ {ch} \subseteq chnlEnable'
  BY <1>1
<1>11. DmaTypes'
  BY <1>1, <1>7, <1>8, <1>10 DEF DmaTypes
<1>12. Progress(ch)'
  <2>1. \A i \in 1 .. n + 1 : copied'[ch][i] = <<SrcPtr(t, i - 1), DstPtr(t, i - 1)>>
    <3>1. \A i \in 1 .. n : copied'[ch][i] = <<SrcPtr(t, i - 1), DstPtr(t, i - 1)>>
      BY <1>7 DEF Progress
    <3>2. (n + 1) - 1 = n
      BY <1>2
    <3>3. copied'[ch][n + 1] = <<SrcPtr(t, (n + 1) - 1), DstPtr(t, (n + 1) - 1)>>
      BY <1>6, <1>7, <3>2
    <3>4. \A i \in 1 .. n + 1 : i \in 1 .. n \/ i = n + 1
      BY <1>2
    <3> QED
      BY <3>1, <3>3, <3>4
  <2>2. job'[ch] = t /\ Len(copied'[ch]) = n + 1
    BY <1>1, <1>7
  <2>3. CASE k.left = 0
    <3>1. ch \notin chnlEnable' /\ control'[ch].left = 0 /\ n + 1 = t.count
      BY <1>1, <1>2, <1>5, <1>8, <2>3
    <3> QED
      BY <1>4, <2>1, <2>2, <3>1 DEF Progress, MayTransfer, SrcPtr, DstPtr
  <2>4. CASE k.left # 0
    <3>1. ch \in chnlEnable' /\ (n + 1) + control'[ch].left + 1 = t.count
      BY <1>1, <1>2, <1>5, <1>8, <2>4
    <3> QED
      BY <1>4, <1>8, <2>1, <2>2, <2>4, <3>1 DEF Progress, MayTransfer, SrcPtr, DstPtr
  <2> QED
    BY <2>3, <2>4
<1>13. \A d \in DmaChannels \ {ch} : Progress(d)'
  BY <1>1, <1>7, <1>8, <1>9, ProgressSame
<1>14. ~ Frozen(ch)
  BY <1>1 DEF Frozen
<1>15. \A d \in DmaChannels \ {ch} : Frozen(d)' <=> Frozen(d)
  BY <1>1, <1>9 DEF Frozen
<1>16. Stopping'
  <2>1. /\ ~ dmaStopped => ch \in executing \/ (dmaCall.at = "test" /\ dmaCall.of = ch)
        /\ remaining[ch] = Unstopped
    BY <1>14 DEF Stopping, DmaTypes
  <2>2. ~ dmaStopped => (dmaCall.at = "count" => dmaCall.of # ch)
    BY <2>1 DEF Stopping
  <2>3. \A d \in DmaChannels :
          remaining'[d] # Unstopped => Len(copied'[d]) + remaining'[d] = job'[d].count
    BY <1>1, <1>7, <2>1 DEF Stopping
  <2> QED
    BY <1>1, <1>9, <1>15, <2>1, <2>2, <2>3 DEF Stopping
<1> QED
  BY <1>11, <1>12, <1>13, <1>16

\* The calls that read: they leave the engine and its control structure alone.
dmaEngine == <<control, chnlEnable, active, job, copied>>

\* Status overstates what is left by one at most: the channel may have ended since it
\* was found enabled.
LEMMA StatusInv ==
  ASSUME DmaInv, StatusCount \/ \E ch \in DmaChannels : StatusEnabled(ch)
  PROVE  DmaInv'
<1> USE DEF DmaInv
<1>1. /\ UNCHANGED dmaEngine
      /\ UNCHANGED <<executing, chnlReqMask, activePending, remaining, dmaStopped>>
  BY DEF StatusCount, StatusEnabled, dmaEngine
<1>2. PICK ch \in DmaChannels : \/ StatusEnabled(ch)
                                \/ StatusCount /\ ch = dmaCall.of
  BY DEF StatusCount, Calls, DmaTypes
<1>3. /\ Len(copied[ch]) \in Nat /\ control[ch].left \in Nat /\ job[ch].count \in Nat
  BY JobFields DEF DmaTypes, Primaries
<1>4. /\ \/ dmaCall' = [at |-> "status", of |-> ch]
         \/ dmaCall' = dmaCall
         \/ dmaCall' = NoDmaCall
      /\ excess' \in {0, 1}
  <2>1. CASE StatusEnabled(ch) /\ ch \in chnlEnable
    BY <2>1 DEF StatusEnabled, DmaTypes
  <2>2. CASE StatusEnabled(ch) /\ ch \notin chnlEnable
    <3>1. Len(copied[ch]) = job[ch].count
      BY <2>2 DEF Progress
    <3>2. excess' = 0 - (job[ch].count - Len(copied[ch])) /\ dmaCall' = dmaCall
      BY <2>2 DEF StatusEnabled, Overstated
    <3> QED
      BY <1>3, <3>1, <3>2
  <2>3. CASE StatusCount /\ ch = dmaCall.of
    <3> DEFINE n == Len(copied[ch])
               l == control[ch].left
               c == job[ch].count
    <3>1. n + l + 1 = c \/ (n = c /\ l = 0)
      BY DEF Progress
    <3>2. excess' = (l + 1) - (c - n) /\ dmaCall' = NoDmaCall
      BY <2>3 DEF StatusCount, Overstated
    <3>3. n \in Nat /\ l \in Nat /\ c \in Nat
      BY <1>3
    <3> HIDE DEF n, l, c
    <3>4. excess' \in {0, 1}
      BY <3>1, <3>2, <3>3
    <3> QED
      BY <3>2, <3>4
  <2> QED
    BY <1>2, <2>1, <2>2, <2>3
<1>5. /\ dmaCall' \in [at : DmaCalls, of : DmaChannels \cup {NoDmaCall.of}]
      /\ dmaCall'.at # "none" => dmaCall'.of \in DmaChannels
      /\ dmaCall'.at \in {"none", "status"} \/ dmaCall' = dmaCall
  BY <1>4 DEF DmaTypes, DmaCalls, NoDmaCall
<1>6. DmaTypes'
  BY <1>1, <1>4, <1>5 DEF DmaTypes, dmaEngine
<1>7. \A d \in DmaChannels : Progress(d)'
  BY <1>1, ProgressSame DEF dmaEngine
<1>8. \A d \in DmaChannels : Frozen(d)' <=> Frozen(d)
  BY <1>1 DEF Frozen, dmaEngine
<1>9. dmaCall.at = "none" \/ dmaCall.at = "status"
  BY <1>2 DEF StatusEnabled, StatusCount, Calls
<1>10. dmaCall'.at \in {"none", "status"}
  BY <1>5, <1>9
<1>11. Stopping'
  BY <1>1, <1>8, <1>9, <1>10 DEF Stopping, dmaEngine
<1> QED
  BY <1>6, <1>7, <1>11

\* Stop masks the channel's requests before it waits.
LEMMA StopMaskInv ==
  ASSUME DmaInv, NEW ch \in DmaChannels, StopMask(ch)
  PROVE  DmaInv'
<1> USE DEF DmaInv
<1>1. /\ ~ dmaStopped /\ dmaCall.at = "none" /\ ch \in executing
      /\ executing' = executing \ {ch} /\ chnlReqMask' = chnlReqMask \cup {ch}
      /\ dmaCall' = [at |-> "test", of |-> ch]
      /\ UNCHANGED dmaEngine
      /\ UNCHANGED <<activePending, remaining, excess, dmaStopped>>
  BY DEF StopMask, Calls, dmaEngine
<1>2. DmaTypes'
  BY <1>1 DEF DmaTypes, dmaEngine, DmaCalls
<1>3. \A d \in DmaChannels : Progress(d)'
  BY <1>1, ProgressSame DEF dmaEngine
<1>4. \A d \in DmaChannels : Frozen(d) => Frozen(d)'
  BY <1>1 DEF Frozen, dmaEngine
<1>5. dmaCall'.at = "test" /\ dmaCall'.of = ch
  BY <1>1
<1>6. Stopping'
  BY <1>1, <1>4, <1>5 DEF Stopping, dmaEngine
<1> QED
  BY <1>2, <1>3, <1>6

\* After the wait the channel is found at rest, or the call asserts.
LEMMA StopTestInv == ASSUME DmaInv, StopTest PROVE DmaInv'
<1> USE DEF DmaInv
<1> DEFINE ch == dmaCall.of
<1>1. /\ ~ dmaStopped /\ dmaCall.at = "test" /\ ch \in DmaChannels
      /\ activePending' = activePending \ ({ch} \ active)
      /\ UNCHANGED dmaEngine
      /\ UNCHANGED <<executing, chnlReqMask, remaining, excess>>
      /\ dmaCall \in [at : DmaCalls, of : DmaChannels \cup {NoDmaCall.of}]
  BY DEF StopTest, Calls, dmaEngine, DmaTypes
<1>2. active \subseteq activePending'
  BY <1>1 DEF DmaTypes
<1>3. \A d \in DmaChannels : Progress(d)'
  BY <1>1, ProgressSame DEF dmaEngine
<1>4. \A d \in DmaChannels : Frozen(d)' <=> Frozen(d)
  BY <1>1 DEF Frozen, dmaEngine
<1>5. CASE ch \in activePending'
  <2>1. dmaStopped' = TRUE /\ dmaCall' = dmaCall
    BY <1>5 DEF StopTest
  <2>2. DmaTypes'
    BY <1>1, <1>2, <2>1 DEF DmaTypes, dmaEngine
  <2>3. Stopping'
    BY <1>1, <1>4, <2>1 DEF Stopping, dmaEngine
  <2> QED
    BY <1>3, <2>2, <2>3
<1>6. CASE ch \notin activePending'
  <2>1. dmaStopped' = dmaStopped /\ dmaCall' = [dmaCall EXCEPT !.at = "stop"]
    BY <1>6 DEF StopTest
  <2>2. /\ dmaCall' \in [at : DmaCalls, of : DmaChannels \cup {NoDmaCall.of}]
        /\ dmaCall'.at = "stop" /\ dmaCall'.of = ch
    BY <1>1, <2>1 DEF DmaCalls
  <2>3. DmaTypes'
    BY <1>1, <1>2, <2>1, <2>2 DEF DmaTypes, dmaEngine
  <2>4. Frozen(ch)
    BY <1>1, <1>2, <1>6 DEF Frozen, Stopping
  <2>5. Stopping'
    BY <1>1, <1>4, <2>1, <2>2, <2>4 DEF Stopping, dmaEngine
  <2> QED
    BY <1>3, <2>3, <2>5
<1> QED
  BY <1>5, <1>6

\* What stop answers is what has not been copied, of a channel at rest.
LEMMA StopAnswersInv == ASSUME DmaInv, StopEnabled \/ StopCount PROVE DmaInv'
<1> USE DEF DmaInv
<1> DEFINE ch == dmaCall.of
<1>1. /\ ~ dmaStopped /\ dmaCall.at \in {"stop", "count"} /\ ch \in DmaChannels
      /\ UNCHANGED dmaEngine
      /\ UNCHANGED <<executing, chnlReqMask, activePending, excess, dmaStopped>>
      /\ dmaCall \in [at : DmaCalls, of : DmaChannels \cup {NoDmaCall.of}]
      /\ remaining \in [DmaChannels -> Int]
  BY DEF StopEnabled, StopCount, Calls, dmaEngine, DmaTypes
<1>2. \A d \in DmaChannels : Progress(d)'
  BY <1>1, ProgressSame DEF dmaEngine
<1>3. \A d \in DmaChannels : Frozen(d)' <=> Frozen(d)
  BY <1>1 DEF Frozen, dmaEngine
<1>4. Frozen(ch) /\ ch \notin executing
  BY <1>1 DEF Stopping
<1>5. CASE StopEnabled /\ ch \in chnlEnable
  <2>1. remaining' = remaining /\ dmaCall' = [dmaCall EXCEPT !.at = "count"]
    BY <1>5 DEF StopEnabled
  <2>2. /\ dmaCall' \in [at : DmaCalls, of : DmaChannels \cup {NoDmaCall.of}]
        /\ dmaCall'.at = "count" /\ dmaCall'.of = ch
    BY <1>1, <2>1 DEF DmaCalls
  <2>3. DmaTypes'
    BY <1>1, <2>1, <2>2 DEF DmaTypes, dmaEngine
  <2>4. Stopping'
    BY <1>1, <1>3, <1>4, <1>5, <2>1, <2>2 DEF Stopping, dmaEngine
  <2> QED
    BY <1>2, <2>3, <2>4
<1>6. CASE (StopEnabled /\ ch \notin chnlEnable) \/ StopCount
  <2> DEFINE n == Len(copied[ch])
             l == control[ch].left
             c == job[ch].count
  <2>1. PICK r \in Int : /\ remaining' = [remaining EXCEPT ![ch] = r]
                         /\ dmaCall' = NoDmaCall /\ n + r = c
    <3>1. n \in Nat /\ l \in Nat /\ c \in Nat
      BY <1>1, JobFields DEF DmaTypes, Primaries
    <3>2. CASE StopEnabled /\ ch \notin chnlEnable
      <4>1. remaining' = [remaining EXCEPT ![ch] = 0] /\ dmaCall' = NoDmaCall
        BY <3>2 DEF StopEnabled
      <4>2. n = c
        BY <1>1, <3>2 DEF Progress
      <4> HIDE DEF n, l, c
      <4>3. 0 \in Int /\ n + 0 = c
        BY <3>1, <4>2
      <4> QED
        BY <4>1, <4>3
    <3>3. CASE StopCount
      <4>1. remaining' = [remaining EXCEPT ![ch] = l + 1] /\ dmaCall' = NoDmaCall
        BY <3>3 DEF StopCount
      <4>2. ch \in chnlEnable
        BY <1>1, <3>3 DEF StopCount, Calls, Stopping
      <4>3. n + l + 1 = c
        BY <1>1, <4>2 DEF Progress
      <4> HIDE DEF n, l, c
      <4>4. l + 1 \in Int /\ n + (l + 1) = c
        BY <3>1, <4>3
      <4> QED
        BY <4>1, <4>4
    <3> QED
      BY <1>6, <3>2, <3>3
  <2>2. /\ remaining' \in [DmaChannels -> Int] /\ remaining'[ch] = r
        /\ \A d \in DmaChannels \ {ch} : remaining'[d] = remaining[d]
    BY <1>1, <2>1
  <2>3. /\ dmaCall' \in [at : DmaCalls, of : DmaChannels \cup {NoDmaCall.of}]
        /\ dmaCall'.at = "none"
    BY <2>1 DEF NoDmaCall, DmaCalls
  <2>4. DmaTypes'
    BY <1>1, <2>2, <2>3 DEF DmaTypes, dmaEngine
  <2>5. \A d \in DmaChannels : remaining'[d] # Unstopped =>
          /\ Frozen(d) /\ d \notin executing
          /\ Len(copied[d]) + remaining'[d] = job[d].count
    BY <1>4, <2>1, <2>2 DEF Stopping
  <2>6. Stopping'
    <3>1. \A d \in DmaChannels \ executing : Frozen(d)
      BY <1>1, <1>4 DEF Stopping
    <3> QED
      BY <1>1, <1>3, <2>3, <2>5, <3>1 DEF Stopping, dmaEngine
  <2> QED
    BY <1>2, <2>4, <2>6
<1> QED
  BY <1>5, <1>6

\* Every step of the driver and the engine keeps the invariant.
LEMMA DmaKeepsInv == ASSUME DmaInv, [DmaNext]_dmaVars PROVE DmaInv'
<1>1. ASSUME NEW ch \in DmaChannels, CallTooEarly(ch) PROVE DmaInv'
  <2>1. /\ ~ dmaStopped /\ dmaStopped' = TRUE
        /\ UNCHANGED <<executing, control, chnlEnable, chnlReqMask, active,
                       activePending, dmaCall, job, copied, remaining, excess>>
    BY <1>1 DEF CallTooEarly, Calls
  <2>2. DmaTypes' /\ Stopping'
    BY <2>1 DEF DmaInv, DmaTypes, Stopping, Frozen
  <2>3. \A d \in DmaChannels : Progress(d)'
    BY <2>1, ProgressSame DEF DmaInv
  <2> QED
    BY <2>2, <2>3 DEF DmaInv
<1>2. CASE UNCHANGED dmaVars
  <2>1. UNCHANGED <<executing, control, chnlEnable, chnlReqMask, active, activePending,
                    dmaCall, job, copied, remaining, excess, dmaStopped>>
    BY <1>2 DEF dmaVars
  <2>2. DmaTypes' /\ Stopping'
    BY <2>1 DEF DmaInv, DmaTypes, Stopping, Frozen
  <2>3. \A d \in DmaChannels : Progress(d)'
    BY <2>1, ProgressSame DEF DmaInv
  <2> QED
    BY <2>2, <2>3 DEF DmaInv
<1> QED
  BY <1>1, <1>2, StartDmaInv, TakeRequestInv, TransferInv, StatusInv, StopMaskInv,
     StopTestInv, StopAnswersInv
  DEF DmaNext

\* All channels are disabled and nothing has been copied.
LEMMA DmaStarts == ASSUME DmaInit PROVE DmaInv
<1>1. DmaTypes
  <2>1. [src |-> 0, dst |-> 0, srcInc |-> 0, dstInc |-> 0, left |-> 0] \in Primaries
    BY DEF Primaries
  <2>2. <<>> \in Seq(Int \X Int) /\ Unstopped \in Int
    BY DEF Unstopped
  <2> QED
    BY <2>1, <2>2 DEF DmaInit, DmaTypes, NoDmaCall, DmaCalls
<1>2. ASSUME NEW ch \in DmaChannels PROVE Progress(ch)
  <2>1. /\ job[ch].count = 0 /\ copied[ch] = <<>> /\ control[ch].left = 0
        /\ ch \notin chnlEnable
    BY DEF DmaInit, NoJob
  <2>2. Len(copied[ch]) = 0
    BY <2>1
  <2> QED
    BY <2>1, <2>2 DEF Progress
<1>3. Stopping
  BY DEF DmaInit, Stopping, Frozen, NoDmaCall
<1> QED
  BY <1>1, <1>2, <1>3 DEF DmaInv

\* The driver's invariant.
THEOREM DmaInvariance == DmaSpec => []DmaInv
<1>1. DmaInit => DmaInv
  BY DmaStarts
<1>2. DmaInv /\ [DmaNext]_dmaVars => DmaInv'
  BY DmaKeepsInv
<1> QED
  BY <1>1, <1>2, PTL DEF DmaSpec

\* What stop answers is what has not been and will not be copied, the elements of a
\* transaction are copied in order and within the boundary, and status overstates what
\* is left by one at most: for any transactions on any channels.
THEOREM TransfersAreExact == DmaSpec => []TransfersExact
<1>1. DmaInv => TransfersExact
  <2> SUFFICES ASSUME DmaInv PROVE TransfersExact
    OBVIOUS
  <2>1. CopiedInOrder
    <3> SUFFICES ASSUME NEW ch \in DmaChannels, NEW i \in 1 .. MaxTransfers,
                        i <= Len(copied[ch])
                 PROVE  LET t == job[ch]
                            within(a) == a >= Boundary \/ a + t.size <= Boundary
                        IN  /\ i <= t.count
                            /\ copied[ch][i] = <<SrcPtr(t, i - 1), DstPtr(t, i - 1)>>
                            /\ within(copied[ch][i][1]) /\ within(copied[ch][i][2])
      BY DEF CopiedInOrder
    <3> DEFINE t == job[ch]
               n == Len(copied[ch])
    <3>1. /\ t.src \in Nat /\ t.dst \in Nat /\ t.srcInc \in Nat /\ t.dstInc \in Nat
          /\ t.size \in Nat /\ t.count \in Nat /\ n \in Nat /\ control[ch].left \in Nat
      <4>1. /\ t \in Transactions \cup {NoJob} /\ copied[ch] \in Seq(Int \X Int)
            /\ control[ch] \in Primaries
        BY DEF DmaInv, DmaTypes
      <4>2. n \in Nat /\ control[ch].left \in Nat
        BY <4>1 DEF Primaries
      <4> HIDE DEF t, n
      <4> QED
        BY <4>1, <4>2, JobFields
    <3>2. Progress(ch)
      BY DEF DmaInv
    <3>3. i \in 1 .. n /\ n <= t.count
      <4>1. n + control[ch].left + 1 = t.count \/ n = t.count
        BY <3>2 DEF Progress
      <4>2. i \in Nat /\ i >= 1
        BY DmaAssumption
      <4> QED
        BY <3>1, <4>1, <4>2
    <3>4. copied[ch][i] = <<SrcPtr(t, i - 1), DstPtr(t, i - 1)>>
      BY <3>2, <3>3 DEF Progress
    <3>5. i <= t.count /\ t.count # 0
      BY <3>1, <3>3
    <3>6. MayTransfer(t)
      BY <3>2, <3>5 DEF Progress
    <3> DEFINE m == t.count - 1
               l == i - 1
    <3>7. m \in Nat /\ l \in Nat /\ l <= m
      BY <3>1, <3>3, <3>5
    <3>8. /\ t.src >= Boundary \/ (t.src + t.srcInc * m) + t.size <= Boundary
          /\ t.dst >= Boundary \/ (t.dst + t.dstInc * m) + t.size <= Boundary
      BY <3>6 DEF MayTransfer, SrcPtr, DstPtr
    <3> HIDE DEF m, l, n, t
    <3>9. /\ SrcPtr(t, l) >= Boundary \/ SrcPtr(t, l) + t.size <= Boundary
          /\ DstPtr(t, l) >= Boundary \/ DstPtr(t, l) + t.size <= Boundary
      BY <3>1, <3>7, <3>8, WithinBoundary DEF SrcPtr, DstPtr
    <3> QED
      BY <3>4, <3>5, <3>9 DEF t, l
  <2>2. \A ch \in DmaChannels :
          remaining[ch] # Unstopped => Len(copied[ch]) + remaining[ch] = job[ch].count
    BY DEF DmaInv, Stopping
  <2>3. excess \in {0, 1}
    BY DEF DmaInv, DmaTypes
  <2> QED
    BY <2>1, <2>2, <2>3 DEF TransfersExact
<1> QED
  BY <1>1, DmaInvariance, PTL

-----------------------------------------------------------------------------
(***************************************************************************)
(* SpiController                                                           *)
(***************************************************************************)
ExchangeLabels == {"none", "entered", "write", "read", "status"}
Answers == Nat \X Nat \X Nat

SpiTypes ==
  /\ exchange \in [at : ExchangeLabels, number : Nat, port : Nat, size : Nat]
  /\ writeIndex \in Nat /\ readIndex \in Nat
  /\ status \in [empty : BOOLEAN, notFull : BOOLEAN, notEmpty : BOOLEAN, busy : BOOLEAN]
  /\ spiTx \in Seq(Nat) /\ shifting \in Seq(Nat) /\ Len(shifting) <= 1
  /\ spiRx \in Seq(Answers) /\ readBuffer \in Seq(Answers)
  /\ lost \in Nat

\* Each byte written in this call has been read, is in the receive FIFO, on the wire or
\* in the transmit FIFO, or its answer was lost ...
AllCounted ==
  /\ writeIndex <= exchange.size
  /\ writeIndex = readIndex + Len(spiRx) + Len(shifting) + Len(spiTx) + lost
  /\ Len(readBuffer) = readIndex
  /\ exchange.at = "none" => writeIndex = exchange.size /\ readIndex = exchange.size
  /\ exchange.at = "entered" => writeIndex = 0 /\ readIndex = 0

\* ... and as long as none was, they are on their way in order.
OnTheirWay ==
  /\ \A i \in 1 .. readIndex : readBuffer[i] = <<exchange.number, exchange.port, i>>
  /\ \A i \in 1 .. Len(spiRx) :
       spiRx[i] = <<exchange.number, exchange.port, readIndex + i>>
  /\ \A i \in 1 .. Len(shifting) : shifting[i] = readIndex + Len(spiRx) + i
  /\ \A i \in 1 .. Len(spiTx) :
       spiTx[i] = readIndex + Len(spiRx) + Len(shifting) + i

\* A status that is out of date errs on the safe side: the transmit FIFO has only
\* drained since, and the receive FIFO has only filled.
StatusSafe ==
  /\ ~ overrun /\ spiStopped # "hardware"
  /\ exchange.at = "write" /\ status.notFull => Len(spiTx) < FifoSize
  /\ exchange.at \in {"write", "read"} /\ status.notEmpty => Len(spiRx) >= 1
  /\ spiStopped = "stuck" => lost > 0

SpiInv == SpiTypes /\ AllCounted /\ (lost = 0 => OnTheirWay) /\ StatusSafe

\* What a FIFO holds when a word is put in.
LEMMA PutIn ==
  ASSUME NEW S, NEW s \in Seq(S), NEW e \in S
  PROVE  /\ Append(s, e) \in Seq(S) /\ Len(Append(s, e)) = Len(s) + 1
         /\ Len(s) \in Nat
         /\ \A i \in 1 .. Len(s) : Append(s, e)[i] = s[i]
         /\ Append(s, e)[Len(s) + 1] = e
         /\ \A i \in 1 .. Len(s) + 1 : i \in 1 .. Len(s) \/ i = Len(s) + 1
OBVIOUS

\* What it holds when one is taken out.
LEMMA TakenOut ==
  ASSUME NEW S, NEW s \in Seq(S), s # <<>>
  PROVE  /\ Tail(s) \in Seq(S) /\ Len(s) \in Nat /\ Len(s) >= 1
         /\ Len(Tail(s)) = Len(s) - 1 /\ Head(s) = s[1] /\ Head(s) \in S
         /\ \A i \in 1 .. Len(s) - 1 : Tail(s)[i] = s[i + 1]
OBVIOUS

\* What it is to have one word on the wire.
LEMMA OneWord ==
  ASSUME NEW s \in Seq(Nat), s # <<>>, Len(s) <= 1
  PROVE  Len(s) = 1 /\ s[1] \in Nat
<1> DEFINE n == Len(s)
<1>1. n \in Nat /\ n # 0 /\ n <= 1
  OBVIOUS
<1>2. n = 1
  <2> HIDE DEF n
  <2> QED
    BY <1>1
<1> QED
  BY <1>2

\* Nothing is in the peripheral when as many bytes were read as written.
LEMMA Drained ==
  ASSUME SpiTypes, AllCounted, writeIndex = readIndex
  PROVE  spiRx = <<>> /\ shifting = <<>> /\ spiTx = <<>> /\ lost = 0
<1>1. /\ spiTx \in Seq(Nat) /\ shifting \in Seq(Nat) /\ spiRx \in Seq(Answers)
      /\ readIndex \in Nat /\ lost \in Nat
  BY DEF SpiTypes
<1>2. Len(spiTx) \in Nat /\ Len(shifting) \in Nat /\ Len(spiRx) \in Nat
  BY <1>1
<1>3. Len(spiTx) = 0 /\ Len(shifting) = 0 /\ Len(spiRx) = 0 /\ lost = 0
  BY <1>1, <1>2 DEF AllCounted
<1> QED
  BY <1>1, <1>3

\* Calls find the peripheral quiet, and read what they have not yet been answered.
LEMMA SpiOpenInv ==
  ASSUME SpiInv, NEW idle, NEW out, NEW in, NEW hz, SpiOpen(idle, out, in, hz)
  PROVE  SpiInv'
<1>1. /\ exchange.at = "none" /\ spiTx' = <<>> /\ spiRx' = <<>>
      /\ spiStopped' \in {"no", "open"}
      /\ UNCHANGED <<exchange, writeIndex, readIndex, status, shifting, overrun, lost,
                     readBuffer>>
  BY DEF SpiOpen, SpiAssert
<1>2. spiRx = <<>> /\ shifting = <<>> /\ spiTx = <<>>
  BY <1>1, Drained DEF SpiInv, AllCounted
<1>3. spiTx' = spiTx /\ spiRx' = spiRx
  BY <1>1, <1>2
<1> QED
  BY <1>1, <1>3 DEF SpiInv, SpiTypes, AllCounted, OnTheirWay, StatusSafe

\* A call begins with nothing in the peripheral.
LEMMA ReadWriteInv ==
  ASSUME SpiInv, NEW port \in SpiPorts, NEW written \in 0 .. MaxExchange, NEW read,
         ReadWrite(port, written, read)
  PROVE  SpiInv'
<1>1. /\ exchange.at = "none" /\ spiStopped' \in {"no", "call"}
      /\ exchange' = [at |-> "entered", number |-> exchange.number + 1, port |-> port,
                      size |-> written]
      /\ readBuffer' = <<>> /\ writeIndex' = 0 /\ readIndex' = 0
      /\ UNCHANGED <<status, spiTx, shifting, spiRx, overrun, lost>>
  BY DEF ReadWrite, SpiAssert, wireVars
<1>2. spiRx = <<>> /\ shifting = <<>> /\ spiTx = <<>> /\ lost = 0
  BY <1>1, Drained DEF SpiInv, AllCounted
<1>3. port \in Nat /\ written \in Nat /\ exchange.number + 1 \in Nat
  BY SpiAssumption DEF SpiInv, SpiTypes
<1>4. /\ exchange'.at = "entered" /\ exchange'.size = written
      /\ exchange' \in [at : ExchangeLabels, number : Nat, port : Nat, size : Nat]
  BY <1>1, <1>3 DEF ExchangeLabels
<1>5. <<>> \in Seq(Answers) /\ Len(<<>>) = 0
  OBVIOUS
<1>6. SpiTypes'
  BY <1>1, <1>3, <1>4, <1>5 DEF SpiInv, SpiTypes
<1>7. /\ spiRx' = <<>> /\ shifting' = <<>> /\ spiTx' = <<>> /\ Len(spiRx') = 0
      /\ Len(shifting') = 0 /\ Len(spiTx') = 0 /\ Len(readBuffer') = 0 /\ lost' = 0
  BY <1>1, <1>2, <1>5
<1>8. AllCounted' /\ OnTheirWay'
  BY <1>1, <1>3, <1>4, <1>7 DEF AllCounted, OnTheirWay
<1>9. StatusSafe'
  BY <1>1, <1>4 DEF SpiInv, StatusSafe
<1> QED
  BY <1>6, <1>8, <1>9 DEF SpiInv

\* The status is read: before the call and after it the peripheral is quiet.
LEMMA ReadStatusInv == ASSUME SpiInv, ReadStatus PROVE SpiInv'
<1> DEFINE over == writeIndex = exchange.size /\ readIndex = exchange.size
<1>1. /\ exchange.at \in {"entered", "status"} /\ status' = Status
      /\ exchange' = [exchange EXCEPT !.at = IF over THEN "none" ELSE "write"]
      /\ UNCHANGED <<writeIndex, readIndex, spiTx, shifting, spiRx, overrun, lost,
                     readBuffer>>
  BY DEF ReadStatus, wireVars
<1>2. spiStopped' \notin {"hardware", "stuck"}
  <2>1. CASE exchange.at = "entered" \/ over
    <3>1. writeIndex = readIndex
      BY <2>1 DEF SpiInv, AllCounted
    <3>2. spiRx = <<>> /\ shifting = <<>> /\ spiTx = <<>>
      BY <3>1, Drained DEF SpiInv
    <3>3. Quiet(Status)
      BY <3>2 DEF Quiet, Status
    <3> QED
      BY <3>3 DEF ReadStatus, SpiAssert
  <2>2. CASE ~ (exchange.at = "entered" \/ over)
    BY <2>2 DEF ReadStatus, SpiAssert
  <2> QED
    BY <2>1, <2>2
<1>3. /\ exchange \in [at : ExchangeLabels, number : Nat, port : Nat, size : Nat]
      /\ Len(spiTx) \in Nat /\ Len(spiRx) \in Nat /\ spiRx \in Seq(Answers)
  BY DEF SpiInv, SpiTypes
<1>4. /\ exchange' \in [at : ExchangeLabels, number : Nat, port : Nat, size : Nat]
      /\ exchange'.at = IF over THEN "none" ELSE "write"
      /\ exchange'.number = exchange.number /\ exchange'.port = exchange.port
      /\ exchange'.size = exchange.size
  BY <1>1, <1>3 DEF ExchangeLabels
<1>5. /\ status' \in [empty : BOOLEAN, notFull : BOOLEAN, notEmpty : BOOLEAN,
                      busy : BOOLEAN]
      /\ status'.notFull = (Len(spiTx) < FifoSize) /\ status'.notEmpty = (spiRx # <<>>)
  BY <1>1 DEF Status
<1>6. SpiTypes'
  BY <1>1, <1>4, <1>5 DEF SpiInv, SpiTypes
<1>7. AllCounted' /\ (lost' = 0 => OnTheirWay')
  BY <1>1, <1>4 DEF SpiInv, AllCounted, OnTheirWay
<1>8. spiRx # <<>> => Len(spiRx) >= 1
  BY <1>3
<1>9. StatusSafe'
  BY <1>1, <1>2, <1>5, <1>8 DEF SpiInv, StatusSafe
<1> QED
  BY <1>6, <1>7, <1>9 DEF SpiInv

\* The guard of the loop stops only a call that lost an answer: what was written and
\* not read is nowhere else.
LEMMA LoopGuardInv == ASSUME SpiInv, LoopGuard PROVE SpiInv'
<1>1. /\ writeIndex = exchange.size /\ readIndex < exchange.size /\ Quiet(Status)
      /\ spiStopped' = "stuck"
      /\ UNCHANGED <<exchange, writeIndex, readIndex, status, spiTx, shifting, spiRx,
                     overrun, lost, readBuffer>>
  BY DEF LoopGuard, wireVars
<1>2. Len(spiRx) = 0 /\ Len(shifting) = 0 /\ Len(spiTx) = 0
  <2>1. /\ Status.empty = (spiTx = <<>>) /\ Status.busy = (shifting # <<>>)
        /\ Status.notEmpty = (spiRx # <<>>)
    BY DEF Status
  <2>2. spiTx = <<>> /\ shifting = <<>> /\ spiRx = <<>>
    BY <1>1, <2>1, Zenon DEF Quiet
  <2> QED
    BY <2>2
<1>3. writeIndex = readIndex + lost /\ readIndex \in Nat /\ lost \in Nat
  BY <1>2 DEF SpiInv, SpiTypes, AllCounted
<1>4. readIndex < writeIndex
  BY <1>1
<1>5. lost > 0
  BY <1>3, <1>4
<1> QED
  BY <1>1, <1>5 DEF SpiInv, SpiTypes, AllCounted, OnTheirWay, StatusSafe

\* A byte goes into the transmit FIFO, which has room if the status said so.
LEMMA WriteDataInv == ASSUME SpiInv, WriteData PROVE SpiInv'
<1>1. /\ exchange.at = "write" /\ exchange' = [exchange EXCEPT !.at = "read"]
      /\ UNCHANGED <<readIndex, status, shifting, spiRx, lost, readBuffer, spiStopped>>
  BY DEF WriteData
<1>2. /\ exchange \in [at : ExchangeLabels, number : Nat, port : Nat, size : Nat]
      /\ spiTx \in Seq(Nat) /\ writeIndex \in Nat /\ readIndex \in Nat
      /\ Len(spiRx) \in Nat /\ Len(shifting) \in Nat /\ lost \in Nat
  BY DEF SpiInv, SpiTypes
<1>3. /\ exchange' \in [at : ExchangeLabels, number : Nat, port : Nat, size : Nat]
      /\ exchange'.at = "read" /\ exchange'.number = exchange.number
      /\ exchange'.port = exchange.port /\ exchange'.size = exchange.size
  BY <1>1, <1>2 DEF ExchangeLabels
<1>4. CASE ~ MayWrite
  <2>1. UNCHANGED <<overrun, spiTx, writeIndex>>
    BY <1>4 DEF WriteData
  <2>2. SpiTypes'
    BY <1>1, <1>3, <2>1 DEF SpiInv, SpiTypes
  <2>3. AllCounted' /\ (lost' = 0 => OnTheirWay')
    BY <1>1, <1>3, <2>1 DEF SpiInv, AllCounted, OnTheirWay
  <2>4. StatusSafe'
    BY <1>1, <1>3, <2>1 DEF SpiInv, StatusSafe
  <2> QED
    BY <2>2, <2>3, <2>4 DEF SpiInv
<1>5. CASE MayWrite
  <2>1. writeIndex < exchange.size /\ Len(spiTx) < FifoSize /\ Len(spiTx) \in Nat
    BY <1>1, <1>2, <1>5 DEF MayWrite, SpiInv, StatusSafe
  <2>2. /\ ~ overrun' /\ spiTx' = Append(spiTx, writeIndex + 1)
        /\ writeIndex' = writeIndex + 1
    <3>1. Len(spiTx) # FifoSize /\ ~ overrun
      BY <2>1, SpiAssumption DEF SpiInv, StatusSafe
    <3>2. /\ overrun' = (overrun \/ Len(spiTx) = FifoSize)
          /\ spiTx' = IF Len(spiTx) = FifoSize THEN spiTx
                      ELSE Append(spiTx, writeIndex + 1)
          /\ writeIndex' = writeIndex + 1
      BY <1>5, Zenon DEF WriteData
    <3> QED
      BY <3>1, <3>2
  <2>3. writeIndex + 1 \in Nat /\ exchange.size \in Nat
    BY <1>2
  <2>4. /\ spiTx' \in Seq(Nat) /\ Len(spiTx') = Len(spiTx) + 1
        /\ \A i \in 1 .. Len(spiTx) : spiTx'[i] = spiTx[i]
        /\ spiTx'[Len(spiTx) + 1] = writeIndex + 1
        /\ \A i \in 1 .. Len(spiTx) + 1 : i \in 1 .. Len(spiTx) \/ i = Len(spiTx) + 1
    BY <1>2, <2>2, <2>3, PutIn
  <2>5. SpiTypes'
    BY <1>1, <1>3, <2>2, <2>3, <2>4 DEF SpiInv, SpiTypes
  <2>6. /\ writeIndex = readIndex + Len(spiRx) + Len(shifting) + Len(spiTx) + lost
        /\ writeIndex' <= exchange.size
    BY <1>2, <2>1, <2>2, <2>3 DEF SpiInv, AllCounted
  <2>7. ASSUME lost = 0, NEW i \in 1 .. Len(spiTx')
        PROVE  spiTx'[i] = readIndex + Len(spiRx) + Len(shifting) + i
    <3>1. i \in 1 .. Len(spiTx) \/ i = Len(spiTx) + 1
      BY <2>4, <2>7
    <3>2. CASE i \in 1 .. Len(spiTx)
      BY <2>4, <2>7, <3>2 DEF SpiInv, OnTheirWay
    <3>3. CASE i = Len(spiTx) + 1
      BY <1>2, <2>1, <2>4, <2>6, <2>7, <3>3
    <3> QED
      BY <3>1, <3>2, <3>3
  <2>8. writeIndex' = readIndex + Len(spiRx) + Len(shifting) + Len(spiTx') + lost
    BY <1>2, <2>1, <2>2, <2>4, <2>6
  <2>9. AllCounted'
    BY <1>1, <1>3, <2>6, <2>8 DEF SpiInv, AllCounted
  <2>10. lost' = 0 => OnTheirWay'
    BY <1>1, <1>3, <2>7 DEF SpiInv, OnTheirWay
  <2>11. StatusSafe'
    BY <1>1, <1>3, <2>2 DEF SpiInv, StatusSafe
  <2> QED
    BY <2>5, <2>9, <2>10, <2>11 DEF SpiInv
<1> QED
  BY <1>4, <1>5

\* The answer at the head of the receive FIFO is the one to the next byte.
LEMMA ReadDataInv == ASSUME SpiInv, ReadData PROVE SpiInv'
<1>1. /\ exchange.at = "read" /\ exchange' = [exchange EXCEPT !.at = "status"]
      /\ UNCHANGED <<writeIndex, status, spiTx, shifting, overrun, lost, spiStopped>>
  BY DEF ReadData
<1>2. /\ exchange \in [at : ExchangeLabels, number : Nat, port : Nat, size : Nat]
      /\ spiRx \in Seq(Answers) /\ readBuffer \in Seq(Answers)
      /\ writeIndex \in Nat /\ readIndex \in Nat /\ lost \in Nat
      /\ Len(spiTx) \in Nat /\ Len(shifting) \in Nat /\ Len(spiRx) \in Nat
  BY DEF SpiInv, SpiTypes
<1>3. /\ exchange' \in [at : ExchangeLabels, number : Nat, port : Nat, size : Nat]
      /\ exchange'.at = "status" /\ exchange'.number = exchange.number
      /\ exchange'.port = exchange.port /\ exchange'.size = exchange.size
      /\ exchange.size \in Nat
  BY <1>1, <1>2 DEF ExchangeLabels
<1>4. /\ writeIndex = readIndex + Len(spiRx) + Len(shifting) + Len(spiTx) + lost
      /\ writeIndex <= exchange.size /\ Len(readBuffer) = readIndex
  BY DEF SpiInv, AllCounted
<1>5. StatusSafe'
  BY <1>1, <1>3 DEF SpiInv, StatusSafe
<1>6. CASE ~ (readIndex < exchange.size /\ status.notEmpty)
  <2>1. UNCHANGED <<readBuffer, spiRx, readIndex>>
    BY <1>6 DEF ReadData
  <2>2. SpiTypes'
    BY <1>1, <1>3, <2>1 DEF SpiInv, SpiTypes
  <2>3. AllCounted' /\ (lost' = 0 => OnTheirWay')
    BY <1>1, <1>3, <2>1 DEF SpiInv, AllCounted, OnTheirWay
  <2> QED
    BY <1>5, <2>2, <2>3 DEF SpiInv
<1>7. CASE readIndex < exchange.size /\ status.notEmpty
  <2>1. /\ readBuffer' = Append(readBuffer, Head(spiRx))
        /\ spiRx' = Tail(spiRx) /\ readIndex' = readIndex + 1
    BY <1>7 DEF ReadData
  <2>2. Len(spiRx) >= 1
    BY <1>1, <1>7 DEF SpiInv, StatusSafe
  <2>3. spiRx # <<>>
    BY <2>2
  <2>4. /\ spiRx' \in Seq(Answers) /\ Len(spiRx') = Len(spiRx) - 1
        /\ Head(spiRx) = spiRx[1] /\ Head(spiRx) \in Answers
        /\ \A i \in 1 .. Len(spiRx) - 1 : spiRx'[i] = spiRx[i + 1]
    BY <1>2, <2>1, <2>3, TakenOut
  <2>5. /\ readBuffer' \in Seq(Answers) /\ Len(readBuffer') = readIndex + 1
        /\ \A i \in 1 .. readIndex : readBuffer'[i] = readBuffer[i]
        /\ readBuffer'[readIndex + 1] = spiRx[1]
        /\ \A i \in 1 .. readIndex + 1 : i \in 1 .. readIndex \/ i = readIndex + 1
    BY <1>2, <1>4, <2>1, <2>4, PutIn
  <2>6. SpiTypes'
    BY <1>1, <1>2, <1>3, <2>1, <2>4, <2>5 DEF SpiInv, SpiTypes
  <2>7. readIndex' + Len(spiRx') = readIndex + Len(spiRx) /\ readIndex' \in Nat
    BY <1>2, <2>1, <2>4
  <2>8. writeIndex' = readIndex' + Len(spiRx') + Len(shifting') + Len(spiTx') + lost'
    BY <1>1, <1>4, <2>7
  <2>9. AllCounted'
    BY <1>1, <1>3, <1>4, <2>1, <2>5, <2>8 DEF AllCounted
  <2>10. ASSUME lost = 0 PROVE OnTheirWay'
    <3>1. OnTheirWay /\ spiRx[1] = <<exchange.number, exchange.port, readIndex + 1>>
      BY <1>2, <2>2, <2>10 DEF SpiInv, OnTheirWay
    <3>2. ASSUME NEW i \in 1 .. readIndex'
          PROVE  readBuffer'[i] = <<exchange.number, exchange.port, i>>
      <4>1. CASE i \in 1 .. readIndex
        BY <2>5, <3>1, <4>1 DEF OnTheirWay
      <4>2. CASE i = readIndex + 1
        BY <2>5, <3>1, <4>2
      <4> QED
        BY <2>1, <2>5, <3>2, <4>1, <4>2
    <3>3. ASSUME NEW i \in 1 .. Len(spiRx')
          PROVE  spiRx'[i] = <<exchange.number, exchange.port, readIndex' + i>>
      <4>1. i \in 1 .. Len(spiRx) - 1 /\ i + 1 \in 1 .. Len(spiRx) /\ i \in Nat
        BY <1>2, <2>4, <3>3
      <4>2. spiRx'[i] = <<exchange.number, exchange.port, readIndex + (i + 1)>>
        BY <2>4, <3>1, <4>1 DEF OnTheirWay
      <4>3. readIndex + (i + 1) = readIndex' + i
        BY <1>2, <2>1, <4>1
      <4> QED
        BY <4>2, <4>3
    <3> QED
      BY <1>1, <1>3, <2>7, <3>1, <3>2, <3>3 DEF OnTheirWay
  <2> QED
    BY <1>1, <1>5, <2>6, <2>9, <2>10 DEF SpiInv
<1> QED
  BY <1>6, <1>7

\* The next word goes on the wire.
LEMMA ShiftOutInv == ASSUME SpiInv, ShiftOut PROVE SpiInv'
<1>1. /\ shifting = <<>> /\ spiTx # <<>> /\ shifting' = <<Head(spiTx)>>
      /\ spiTx' = Tail(spiTx)
      /\ UNCHANGED <<exchange, writeIndex, readIndex, status, spiRx, overrun, lost,
                     readBuffer, spiStopped>>
  BY DEF ShiftOut
<1>2. /\ spiTx \in Seq(Nat) /\ readIndex \in Nat /\ Len(spiRx) \in Nat
      /\ Len(shifting) = 0 /\ lost \in Nat
  BY <1>1 DEF SpiInv, SpiTypes
<1>3. /\ spiTx' \in Seq(Nat) /\ Len(spiTx) \in Nat /\ Len(spiTx) >= 1
      /\ Len(spiTx') = Len(spiTx) - 1 /\ Head(spiTx) = spiTx[1] /\ Head(spiTx) \in Nat
      /\ \A i \in 1 .. Len(spiTx) - 1 : spiTx'[i] = spiTx[i + 1]
  BY <1>1, <1>2, TakenOut
<1>4. shifting' \in Seq(Nat) /\ Len(shifting') = 1 /\ shifting'[1] = spiTx[1]
  BY <1>1, <1>3
<1>5. SpiTypes'
  BY <1>1, <1>3, <1>4 DEF SpiInv, SpiTypes
<1>6. writeIndex = readIndex + Len(spiRx) + 0 + Len(spiTx) + lost
  BY <1>2 DEF SpiInv, AllCounted
<1>7. writeIndex = readIndex + Len(spiRx) + Len(shifting') + Len(spiTx') + lost
  BY <1>2, <1>3, <1>4, <1>6
<1>8. AllCounted'
  BY <1>1, <1>7 DEF SpiInv, AllCounted
<1>9. ASSUME lost = 0 PROVE OnTheirWay'
  <2>1. OnTheirWay /\ spiTx[1] = readIndex + Len(spiRx) + 0 + 1
    <3>1. OnTheirWay
      BY <1>9 DEF SpiInv
    <3>2. 1 \in 1 .. Len(spiTx)
      BY <1>3
    <3>3. spiTx[1] = readIndex + Len(spiRx) + Len(shifting) + 1
      BY <3>1, <3>2 DEF OnTheirWay
    <3> QED
      BY <1>2, <3>1, <3>3
  <2>2. ASSUME NEW i \in 1 .. Len(shifting')
        PROVE  shifting'[i] = readIndex + Len(spiRx) + i
    <3>1. i = 1
      BY <1>4, <2>2
    <3> QED
      BY <1>2, <1>4, <2>1, <3>1
  <2>3. ASSUME NEW i \in 1 .. Len(spiTx')
        PROVE  spiTx'[i] = readIndex + Len(spiRx) + 1 + i
    <3>1. i \in 1 .. Len(spiTx) - 1 /\ i + 1 \in 1 .. Len(spiTx) /\ i \in Nat
      BY <1>3, <2>3
    <3>2. spiTx'[i] = readIndex + Len(spiRx) + Len(shifting) + (i + 1)
      BY <1>3, <2>1, <3>1 DEF OnTheirWay
    <3> QED
      BY <1>2, <3>1, <3>2
  <2> QED
    BY <1>1, <1>4, <2>1, <2>2, <2>3 DEF OnTheirWay
<1>10. exchange.at = "write" /\ status.notFull => Len(spiTx') < FifoSize
  BY <1>3, SpiAssumption DEF SpiInv, StatusSafe
<1>11. StatusSafe'
  BY <1>1, <1>10 DEF SpiInv, StatusSafe
<1> QED
  BY <1>1, <1>5, <1>8, <1>9, <1>11 DEF SpiInv

\* The answer finds room in the receive FIFO, or is lost and counted.
LEMMA ShiftInInv == ASSUME SpiInv, ShiftIn PROVE SpiInv'
<1> DEFINE answer == <<exchange.number, exchange.port, shifting[1]>>
<1>1. /\ shifting # <<>> /\ shifting' = <<>>
      /\ UNCHANGED <<exchange, writeIndex, readIndex, status, spiTx, overrun,
                     readBuffer, spiStopped>>
  BY DEF ShiftIn
<1>2. /\ exchange \in [at : ExchangeLabels, number : Nat, port : Nat, size : Nat]
      /\ spiRx \in Seq(Answers) /\ readIndex \in Nat /\ writeIndex \in Nat
      /\ Len(spiRx) \in Nat /\ Len(spiTx) \in Nat /\ shifting \in Seq(Nat)
      /\ lost \in Nat
  BY DEF SpiInv, SpiTypes
<1>3. Len(shifting) = 1 /\ shifting[1] \in Nat
  <2>1. shifting # <<>> /\ shifting \in Seq(Nat) /\ Len(shifting) <= 1
    BY <1>1 DEF SpiInv, SpiTypes
  <2> QED
    BY <2>1, OneWord
<1>4. writeIndex = readIndex + Len(spiRx) + 1 + Len(spiTx) + lost
  BY <1>3 DEF SpiInv, AllCounted
<1>5. <<>> \in Seq(Nat) /\ Len(<<>>) = 0
  OBVIOUS
<1>6. CASE Len(spiRx) = FifoSize
  <2>1. lost' = lost + 1 /\ spiRx' = spiRx
    BY <1>6 DEF ShiftIn
  <2>2. SpiTypes'
    BY <1>1, <1>2, <1>5, <2>1 DEF SpiInv, SpiTypes
  <2>3. writeIndex = readIndex + Len(spiRx') + Len(shifting') + Len(spiTx) + lost'
    BY <1>1, <1>2, <1>4, <1>5, <2>1
  <2>4. AllCounted'
    BY <1>1, <2>3 DEF SpiInv, AllCounted
  <2>5. lost' > 0
    BY <1>2, <2>1
  <2>6. StatusSafe'
    BY <1>1, <2>1, <2>5 DEF SpiInv, StatusSafe
  <2> QED
    BY <2>2, <2>4, <2>5, <2>6 DEF SpiInv
<1>7. CASE Len(spiRx) # FifoSize
  <2>1. spiRx' = Append(spiRx, answer) /\ lost' = lost
    BY <1>7, Zenon DEF ShiftIn
  <2>2. answer \in Answers
    BY <1>2, <1>3 DEF Answers
  <2>3. /\ spiRx' \in Seq(Answers) /\ Len(spiRx') = Len(spiRx) + 1
        /\ \A i \in 1 .. Len(spiRx) : spiRx'[i] = spiRx[i]
        /\ spiRx'[Len(spiRx) + 1] = answer
        /\ \A i \in 1 .. Len(spiRx) + 1 : i \in 1 .. Len(spiRx) \/ i = Len(spiRx) + 1
    BY <1>2, <2>1, <2>2, PutIn
  <2>4. SpiTypes'
    BY <1>1, <1>5, <2>1, <2>3 DEF SpiInv, SpiTypes
  <2>5. writeIndex = readIndex + Len(spiRx') + Len(shifting') + Len(spiTx) + lost'
    BY <1>1, <1>2, <1>4, <1>5, <2>1, <2>3
  <2>6. AllCounted'
    BY <1>1, <2>5 DEF SpiInv, AllCounted
  <2>7. ASSUME lost = 0 PROVE OnTheirWay'
    <3>1. OnTheirWay /\ shifting[1] = readIndex + Len(spiRx) + 1
      <4>1. OnTheirWay
        BY <2>7 DEF SpiInv
      <4>2. 1 \in 1 .. Len(shifting)
        BY <1>3
      <4> QED
        BY <4>1, <4>2 DEF OnTheirWay
    <3>2. ASSUME NEW i \in 1 .. Len(spiRx')
          PROVE  spiRx'[i] = <<exchange.number, exchange.port, readIndex + i>>
      <4>1. i \in 1 .. Len(spiRx) \/ i = Len(spiRx) + 1
        BY <2>3, <3>2
      <4>2. CASE i \in 1 .. Len(spiRx)
        BY <2>3, <3>1, <4>2 DEF OnTheirWay
      <4>3. CASE i = Len(spiRx) + 1
        <5>1. shifting[1] = readIndex + i
          BY <1>2, <3>1, <4>3
        <5>2. spiRx'[i] = answer
          BY <2>3, <4>3
        <5> QED
          BY <5>1, <5>2
      <4> QED
        BY <4>1, <4>2, <4>3
    <3>3. ASSUME NEW i \in 1 .. Len(spiTx)
          PROVE  spiTx[i] = readIndex + Len(spiRx') + Len(shifting') + i
      <4>1. spiTx[i] = readIndex + Len(spiRx) + Len(shifting) + i
        BY <3>1 DEF OnTheirWay
      <4> QED
        BY <1>1, <1>2, <1>3, <1>5, <2>3, <4>1
    <3>4. \A i \in 1 .. Len(shifting') :
            shifting'[i] = readIndex + Len(spiRx') + i
      BY <1>1, <1>5
    <3> QED
      BY <1>1, <3>1, <3>2, <3>3, <3>4 DEF OnTheirWay
  <2>8. StatusSafe'
    BY <1>1, <1>2, <2>1, <2>3 DEF SpiInv, StatusSafe
  <2> QED
    BY <2>1, <2>4, <2>6, <2>7, <2>8 DEF SpiInv
<1> QED
  BY <1>6, <1>7

\* The exchange begins closed, with empty FIFOs.
LEMMA SpiStarts == SpiInit => SpiInv
<1> SUFFICES ASSUME SpiInit PROVE SpiInv
  OBVIOUS
<1>1. /\ exchange = NoExchange /\ writeIndex = 0 /\ readIndex = 0
      /\ spiTx = <<>> /\ shifting = <<>> /\ spiRx = <<>> /\ readBuffer = <<>>
      /\ lost = 0 /\ overrun = FALSE /\ spiStopped = "no"
      /\ status = [empty |-> TRUE, notFull |-> TRUE, notEmpty |-> FALSE, busy |-> FALSE]
  BY DEF SpiInit
<1>2. exchange.at = "none" /\ exchange.size = 0
  BY <1>1 DEF NoExchange
<1>3. Len(<<>>) = 0 /\ <<>> \in Seq(Nat) /\ <<>> \in Seq(Answers)
  OBVIOUS
<1>4. /\ exchange \in [at : ExchangeLabels, number : Nat, port : Nat, size : Nat]
      /\ status \in [empty : BOOLEAN, notFull : BOOLEAN, notEmpty : BOOLEAN,
                     busy : BOOLEAN]
  BY <1>1 DEF NoExchange, ExchangeLabels
<1>5. /\ spiTx \in Seq(Nat) /\ shifting \in Seq(Nat) /\ Len(shifting) <= 1
      /\ spiRx \in Seq(Answers) /\ readBuffer \in Seq(Answers)
  BY <1>1, <1>3
<1>6. SpiTypes
  BY <1>1, <1>4, <1>5 DEF SpiTypes
<1>7. AllCounted /\ OnTheirWay
  BY <1>1, <1>2, <1>3 DEF AllCounted, OnTheirWay
<1>8. StatusSafe
  BY <1>1, <1>2 DEF StatusSafe
<1> QED
  BY <1>6, <1>7, <1>8 DEF SpiInv

\* Every step of the call and of the wire keeps the invariant.
LEMMA SpiKeepsInv == ASSUME SpiInv, [SpiNext]_spiVars PROVE SpiInv'
<1>1. CASE \E idle \in Idles, out, in \in Edges, hz \in SpiHz :
             SpiOpen(idle, out, in, hz)
  BY <1>1, SpiOpenInv
<1>2. CASE \E port \in SpiPorts, m, n \in 0 .. MaxExchange :
             (m = n \/ n = 0) /\ ReadWrite(port, m, n)
  BY <1>2, ReadWriteInv
<1>3. CASE ReadStatus
  BY <1>3, ReadStatusInv
<1>4. CASE LoopGuard
  BY <1>4, LoopGuardInv
<1>5. CASE WriteData
  BY <1>5, WriteDataInv
<1>6. CASE ReadData
  BY <1>6, ReadDataInv
<1>7. CASE ShiftOut
  BY <1>7, ShiftOutInv
<1>8. CASE ShiftIn
  BY <1>8, ShiftInInv
<1>9. CASE UNCHANGED spiVars
  BY <1>9 DEF spiVars, wireVars, SpiInv, SpiTypes, AllCounted, OnTheirWay, StatusSafe
<1> QED
  BY <1>1, <1>2, <1>3, <1>4, <1>5, <1>6, <1>7, <1>8, <1>9 DEF SpiNext

\* Of the exchange with the subordinate, each byte written is read, in the peripheral or
\* counted as lost, in order while none is lost, and no status read errs on the unsafe
\* side, wherever interrupts hold up the loop (SpiController.cpp:120-190).
THEOREM SpiInvariance == SpiSpec => []SpiInv
BY SpiStarts, SpiKeepsInv, PTL DEF SpiSpec

\* No byte is written into a full FIFO, the peripheral is quiet at both ends of a call, a
\* call that returns has read the subordinate's answer to each of its bytes, and a call
\* that the loop's guard stops has lost one (SpiController.cpp:120-190, :46-104).
THEOREM BytesAlwaysAnswered == SpiSpec => []BytesAnswered
<1>1. EdgesAsAsked
  BY DEF EdgesAsAsked, Idles, Edges, SpiSettings, ShiftOutEdge
<1>2. SpiInv => BytesAnswered
  <2> SUFFICES ASSUME SpiInv PROVE BytesAnswered
    OBVIOUS
  <2>1. ~ overrun /\ spiStopped # "hardware" /\ (spiStopped = "stuck" => lost > 0)
    BY DEF SpiInv, StatusSafe
  <2>2. DOMAIN readBuffer = 1 .. readIndex
    BY DEF SpiInv, SpiTypes, AllCounted
  <2>3. lost = 0 => \A i \in DOMAIN readBuffer :
                      readBuffer[i] = <<exchange.number, exchange.port, i>>
    BY <2>2 DEF SpiInv, OnTheirWay
  <2>4. exchange.at = "none" => lost = 0 /\ Len(readBuffer) = exchange.size
    BY Drained DEF SpiInv, AllCounted
  <2> QED
    BY <1>1, <2>1, <2>3, <2>4 DEF BytesAnswered
<1> QED
  BY <1>2, SpiInvariance, PTL

-----------------------------------------------------------------------------
(***************************************************************************)
(* I2cController                                                           *)
(***************************************************************************)
I2cBytes == Nat \X Nat

I2cTypes ==
  /\ i2cCall \in [op : {"none", "read", "write"}, then : Nat, bytes : Nat, polls : Nat]
  /\ bus \in {"idle", "sending", "receiving", "waiting"}
  /\ withStop \in BOOLEAN /\ fault \in BOOLEAN
  /\ left \in Nat /\ xact \in Nat /\ sent \in Nat
  /\ txFifo \in Seq(I2cBytes) /\ rxFifo \in Seq(I2cBytes)

\* A read has received the first bytes of its transaction, and no other.
ReadInOrder ==
  i2cCall.op = "read" =>
    /\ bus \in {"receiving", "idle"} /\ withStop /\ i2cCall.then = 0
    /\ rxFifo = BytesOf(xact, sent) /\ left + sent = i2cCall.bytes

\* A write has in the FIFO just what is left of its transaction, so that the FIFO does
\* not run dry under it, and ends before that only with a fault.
WriteInOrder ==
  i2cCall.op = "write" =>
    /\ bus \in {"sending", "waiting", "idle"}
    /\ left = Len(txFifo) /\ \A i \in 1 .. Len(txFifo) : txFifo[i][1] = xact
    /\ bus # "sending" /\ ~ fault => left = 0

\* What the last call has told, and what it leaves on the bus.
ResultKept ==
  /\ i2cCall.op # "none" => i2cResult = NoResult
  /\ i2cCall.op = "none" /\ bus # "idle" =>
       i2cResult.status \in {"I2C_READ_ERR", "I2C_WRITE_ERR"}
  /\ i2cResult.status = "I2C_OK" =>
       /\ left = 0 /\ bus = "idle"
       /\ i2cResult.bytes \in {<<>>, BytesOf(xact, sent)}

I2cInv == I2cTypes /\ ReadInOrder /\ WriteInOrder /\ ResultKept

\* The bytes of a transaction, all of it and one more.
LEMMA BytesInOrder ==
  ASSUME NEW x \in Nat, NEW n \in Nat
  PROVE  /\ BytesOf(x, n) \in Seq(I2cBytes) /\ Len(BytesOf(x, n)) = n
         /\ \A i \in 1 .. n : BytesOf(x, n)[i][1] = x
         /\ BytesOf(x, 0) = <<>>
         /\ Append(BytesOf(x, n), <<x, n + 1>>) = BytesOf(x, n + 1)
<1> USE DEF BytesOf
<1>1. /\ BytesOf(x, n) \in Seq(I2cBytes) /\ Len(BytesOf(x, n)) = n
      /\ \A i \in 1 .. n : BytesOf(x, n)[i] = <<x, i>>
  BY DEF I2cBytes
<1>2. \A i \in 1 .. n : BytesOf(x, n)[i][1] = x
  BY <1>1
<1>3. BytesOf(x, 0) = <<>>
  OBVIOUS
<1>4. Append(BytesOf(x, n), <<x, n + 1>>) = BytesOf(x, n + 1)
  <2> DEFINE a == Append(BytesOf(x, n), <<x, n + 1>>)
             b == BytesOf(x, n + 1)
  <2>1. <<x, n + 1>> \in I2cBytes
    BY DEF I2cBytes
  <2>2. /\ a \in Seq(I2cBytes) /\ Len(a) = n + 1
        /\ \A i \in 1 .. n : a[i] = BytesOf(x, n)[i]
        /\ a[n + 1] = <<x, n + 1>>
        /\ \A i \in 1 .. n + 1 : i \in 1 .. n \/ i = n + 1
    BY <1>1, <2>1, PutIn
  <2>3. b \in Seq(I2cBytes) /\ Len(b) = n + 1 /\ \A i \in 1 .. n + 1 : b[i] = <<x, i>>
    BY DEF I2cBytes
  <2>4. \A i \in 1 .. n + 1 : a[i] = b[i]
    BY <1>1, <2>2, <2>3
  <2> HIDE DEF a, b
  <2>5. a = b
    BY <2>2, <2>3, <2>4
  <2> QED
    BY <2>5 DEF a, b
<1> QED
  BY <1>1, <1>2, <1>3, <1>4

\* No call is in progress when one begins.
LEMMA NoCallInProgress ==
  /\ NoI2cCall.op = "none" /\ NoI2cCall.then = 0
  /\ NoI2cCall \in [op : {"none", "read", "write"}, then : Nat, bytes : Nat,
                     polls : Nat]
BY DEF NoI2cCall

\* The configuration clears the FIFOs, which are of no call.
LEMMA I2cConfigureInv ==
  ASSUME I2cInv, NEW mode, NEW hz, I2cConfigure(mode, hz)
  PROVE  I2cInv'
<1>1. /\ i2cCall.op = "none"
      /\ UNCHANGED <<i2cCall, bus, withStop, left, fault, xact, sent, i2cResult>>
  BY NoCallInProgress DEF I2cConfigure
<1>2. /\ txFifo' = txFifo \/ txFifo' = <<>>
      /\ rxFifo' = rxFifo \/ rxFifo' = <<>>
  BY DEF I2cConfigure
<1>3. <<>> \in Seq(I2cBytes)
  OBVIOUS
<1>4. I2cTypes'
  BY <1>1, <1>2, <1>3 DEF I2cInv, I2cTypes
<1>5. ReadInOrder' /\ WriteInOrder'
  BY <1>1 DEF ReadInOrder, WriteInOrder
<1>6. ResultKept'
  BY <1>1 DEF I2cInv, ResultKept
<1> QED
  BY <1>4, <1>5, <1>6 DEF I2cInv

\* A call that finds the bus busy begins nothing.
LEMMA CallWhileBusyInv ==
  ASSUME I2cInv, NEW st \in {"I2C_READ_ERR", "I2C_WRITE_ERR"}, CallWhileBusy(st)
  PROVE  I2cInv'
<1>1. /\ i2cCall.op = "none" /\ i2cResult' = Failed(st)
      /\ UNCHANGED <<i2cCall, bus, withStop, left, fault, txFifo, rxFifo, xact, sent>>
  BY NoCallInProgress DEF CallWhileBusy, MayCall, i2cPeripheral
<1>2. i2cResult'.status = st
  BY <1>1 DEF Failed
<1>3. I2cTypes' /\ ReadInOrder' /\ WriteInOrder'
  BY <1>1 DEF I2cInv, I2cTypes, ReadInOrder, WriteInOrder
<1>4. ResultKept'
  BY <1>1, <1>2 DEF ResultKept
<1> QED
  BY <1>3, <1>4 DEF I2cInv

\* A read begins with an empty FIFO.
LEMMA BeginReadInv ==
  ASSUME I2cInv, NEW n \in 1 .. MaxBytes, BeginRead(n)
  PROVE  I2cInv'
<1>1. /\ bus' = "receiving" /\ left' = n /\ rxFifo' = <<>> /\ txFifo' = txFifo
      /\ withStop' = TRUE /\ fault' = FALSE /\ xact' = xact + 1 /\ sent' = 0
      /\ i2cResult' = NoResult
  BY DEF BeginRead, Receive
<1>2. i2cCall' = [NoI2cCall EXCEPT !.op = "read", !.bytes = n]
  BY DEF BeginRead
<1>3. n \in Nat
  BY I2cAssumption
<1>4. /\ i2cCall'.op = "read" /\ i2cCall'.then = 0 /\ i2cCall'.bytes = n
      /\ i2cCall' \in [op : {"none", "read", "write"}, then : Nat, bytes : Nat,
                       polls : Nat]
  BY <1>2, <1>3 DEF NoI2cCall
<1>5. /\ <<>> \in Seq(I2cBytes) /\ xact' \in Nat /\ BytesOf(xact', 0) = <<>>
  <2>1. xact' \in Nat
    BY <1>1 DEF I2cInv, I2cTypes
  <2> QED
    BY <2>1, BytesInOrder
<1>6. I2cTypes'
  BY <1>1, <1>3, <1>4, <1>5 DEF I2cInv, I2cTypes
<1>7. ReadInOrder' /\ WriteInOrder'
  BY <1>1, <1>3, <1>4, <1>5 DEF ReadInOrder, WriteInOrder
<1>8. ResultKept'
  BY <1>1, <1>4 DEF ResultKept, NoResult
<1> QED
  BY <1>6, <1>7, <1>8 DEF I2cInv

\* A write begins with all its bytes in the FIFO.
LEMMA BeginWriteInv ==
  ASSUME I2cInv, NEW n \in 1 .. MaxBytes, NEW then \in 0 .. MaxBytes,
         BeginWrite(n, then)
  PROVE  I2cInv'
<1>1. /\ bus' = "sending" /\ left' = n /\ txFifo' = BytesOf(xact', n)
      /\ rxFifo' = rxFifo /\ withStop' \in BOOLEAN /\ fault' = FALSE
      /\ xact' = xact + 1 /\ sent' = 0 /\ i2cResult' = NoResult
  BY DEF BeginWrite
<1>2. i2cCall' = [NoI2cCall EXCEPT !.op = "write", !.bytes = n, !.then = then]
  BY DEF BeginWrite
<1>3. n \in Nat /\ then \in Nat /\ xact' \in Nat
  BY <1>1, I2cAssumption DEF I2cInv, I2cTypes
<1>4. /\ i2cCall'.op = "write"
      /\ i2cCall' \in [op : {"none", "read", "write"}, then : Nat, bytes : Nat,
                       polls : Nat]
  BY <1>2, <1>3 DEF NoI2cCall
<1>5. /\ txFifo' \in Seq(I2cBytes) /\ Len(txFifo') = n
      /\ \A i \in 1 .. n : txFifo'[i][1] = xact'
  BY <1>1, <1>3, BytesInOrder
<1>6. I2cTypes'
  BY <1>1, <1>3, <1>4, <1>5 DEF I2cInv, I2cTypes
<1>7. ReadInOrder' /\ WriteInOrder'
  BY <1>1, <1>4, <1>5 DEF ReadInOrder, WriteInOrder
<1>8. ResultKept'
  BY <1>1, <1>4 DEF ResultKept, NoResult
<1> QED
  BY <1>6, <1>7, <1>8 DEF I2cInv

\* The device sends the next byte of the transaction.
LEMMA ReceiveByteInv == ASSUME I2cInv, ReceiveByte PROVE I2cInv'
<1>1. /\ bus = "receiving" /\ left > 0
      /\ rxFifo' = Append(rxFifo, <<xact, sent + 1>>)
      /\ left' = left - 1 /\ sent' = sent + 1
      /\ UNCHANGED <<i2cCall, bus, withStop, fault, txFifo, xact, i2cResult>>
  BY DEF ReceiveByte
<1>2. /\ left \in Nat /\ sent \in Nat /\ xact \in Nat /\ rxFifo \in Seq(I2cBytes)
      /\ i2cCall.bytes \in Nat
  BY DEF I2cInv, I2cTypes
<1>3. left' \in Nat /\ sent' \in Nat /\ left' + sent' = left + sent
  BY <1>1, <1>2
<1>4. rxFifo' \in Seq(I2cBytes)
  <2>1. <<xact, sent + 1>> \in I2cBytes
    BY <1>2 DEF I2cBytes
  <2> QED
    BY <1>1, <1>2, <2>1
<1>5. I2cTypes'
  BY <1>1, <1>3, <1>4 DEF I2cInv, I2cTypes
<1>6. ReadInOrder'
  <2>1. BytesOf(xact, sent + 1) = Append(BytesOf(xact, sent), <<xact, sent + 1>>)
    BY <1>2, BytesInOrder
  <2> QED
    BY <1>1, <1>3, <2>1 DEF I2cInv, ReadInOrder
<1>7. WriteInOrder'
  BY <1>1 DEF I2cInv, WriteInOrder
<1>8. ResultKept'
  BY <1>1 DEF I2cInv, ResultKept
<1> QED
  BY <1>5, <1>6, <1>7, <1>8 DEF I2cInv

\* The next byte of the FIFO goes to the device.
LEMMA SendByteInv == ASSUME I2cInv, SendByte PROVE I2cInv'
<1>1. /\ bus = "sending" /\ left > 0 /\ txFifo # <<>> /\ txFifo' = Tail(txFifo)
      /\ left' = left - 1 /\ sent' = sent + 1
      /\ UNCHANGED <<i2cCall, bus, withStop, fault, rxFifo, xact, i2cResult>>
  BY DEF SendByte
<1>2. left \in Nat /\ sent \in Nat /\ txFifo \in Seq(I2cBytes)
  BY DEF I2cInv, I2cTypes
<1>3. /\ txFifo' \in Seq(I2cBytes) /\ Len(txFifo) \in Nat /\ Len(txFifo) >= 1
      /\ Len(txFifo') = Len(txFifo) - 1
      /\ \A i \in 1 .. Len(txFifo) - 1 : txFifo'[i] = txFifo[i + 1]
  BY <1>1, <1>2, TakenOut
<1>4. left' \in Nat /\ sent' \in Nat
  BY <1>1, <1>2
<1>5. I2cTypes'
  BY <1>1, <1>3, <1>4 DEF I2cInv, I2cTypes
<1>6. ReadInOrder'
  BY <1>1 DEF I2cInv, ReadInOrder
<1>7. ASSUME i2cCall.op = "write" PROVE WriteInOrder'
  <2>1. left = Len(txFifo) /\ \A i \in 1 .. Len(txFifo) : txFifo[i][1] = xact
    BY <1>7 DEF I2cInv, WriteInOrder
  <2>2. ASSUME NEW i \in 1 .. Len(txFifo') PROVE txFifo'[i][1] = xact
    <3>1. i \in 1 .. Len(txFifo) - 1 /\ i + 1 \in 1 .. Len(txFifo)
      BY <1>3, <2>2
    <3>2. txFifo'[i] = txFifo[i + 1] /\ txFifo[i + 1][1] = xact
      BY <1>3, <2>1, <3>1
    <3> QED
      BY <3>2
  <2>3. left' = Len(txFifo')
    BY <1>1, <1>3, <2>1
  <2> QED
    BY <1>1, <2>2, <2>3 DEF WriteInOrder
<1>8. WriteInOrder'
  BY <1>1, <1>7 DEF WriteInOrder
<1>9. ResultKept'
  BY <1>1 DEF I2cInv, ResultKept
<1> QED
  BY <1>5, <1>6, <1>8, <1>9 DEF I2cInv

\* A command that is done releases the bus, or holds it for the read that follows.
LEMMA CommandDoneInv == ASSUME I2cInv, CommandDone PROVE I2cInv'
<1>1. /\ bus \in {"sending", "receiving"} /\ left = 0 /\ bus' = BusReleased
      /\ UNCHANGED <<i2cCall, withStop, left, fault, txFifo, rxFifo, xact, sent,
                     i2cResult>>
  BY DEF CommandDone
<1>2. bus' \in {"idle", "waiting"} /\ (withStop => bus' = "idle")
  BY <1>1 DEF BusReleased
<1>3. I2cTypes'
  BY <1>1, <1>2 DEF I2cInv, I2cTypes
<1>4. ReadInOrder'
  BY <1>1, <1>2 DEF I2cInv, ReadInOrder
<1>5. WriteInOrder'
  BY <1>1, <1>2 DEF I2cInv, WriteInOrder
<1>6. ResultKept'
  BY <1>1, <1>2 DEF I2cInv, ResultKept
<1> QED
  BY <1>3, <1>4, <1>5, <1>6 DEF I2cInv

\* Only a send of no call finds the FIFO empty.
LEMMA SendRunsDryInv == ASSUME I2cInv, SendRunsDry PROVE I2cInv'
<1>1. /\ bus = "sending" /\ left > 0 /\ txFifo = <<>>
      /\ bus' \in {"sending", "idle", "waiting"} /\ fault' \in {fault, TRUE}
      /\ UNCHANGED <<i2cCall, withStop, left, txFifo, rxFifo, xact, sent, i2cResult>>
  BY DEF SendRunsDry, BusReleased
<1>2. i2cCall.op # "write" /\ i2cCall.op # "read"
  <2>1. left # Len(txFifo)
    BY <1>1
  <2> QED
    BY <1>1, <2>1 DEF I2cInv, ReadInOrder, WriteInOrder
<1>3. I2cTypes'
  BY <1>1 DEF I2cInv, I2cTypes
<1>4. ReadInOrder' /\ WriteInOrder'
  BY <1>1, <1>2 DEF ReadInOrder, WriteInOrder
<1>5. ResultKept'
  BY <1>1 DEF I2cInv, ResultKept
<1> QED
  BY <1>3, <1>4, <1>5 DEF I2cInv

\* An error leaves its bit for the poll to see.
LEMMA NackInv == ASSUME I2cInv, Nack PROVE I2cInv'
<1>1. /\ bus \in {"sending", "receiving"} /\ fault' = TRUE
      /\ bus' \in {"idle", "waiting"} /\ (withStop => bus' = "idle")
      /\ UNCHANGED <<i2cCall, withStop, left, txFifo, rxFifo, xact, sent, i2cResult>>
  BY DEF Nack, BusReleased
<1>2. I2cTypes'
  BY <1>1 DEF I2cInv, I2cTypes
<1>3. ReadInOrder'
  BY <1>1 DEF I2cInv, ReadInOrder
<1>4. WriteInOrder'
  BY <1>1 DEF I2cInv, WriteInOrder
<1>5. ResultKept'
  BY <1>1 DEF I2cInv, ResultKept
<1> QED
  BY <1>2, <1>3, <1>4, <1>5 DEF I2cInv

\* Another poll changes nothing but the count.
LEMMA PollAgainInv == ASSUME I2cInv, PollAgain PROVE I2cInv'
<1>1. /\ i2cCall' = [i2cCall EXCEPT !.polls = @ + 1]
      /\ UNCHANGED <<bus, withStop, left, fault, txFifo, rxFifo, xact, sent, i2cResult>>
  BY DEF PollAgain, i2cPeripheral
<1>2. i2cCall \in [op : {"none", "read", "write"}, then : Nat, bytes : Nat, polls : Nat]
  BY DEF I2cInv, I2cTypes
<1>3. /\ i2cCall' \in [op : {"none", "read", "write"}, then : Nat, bytes : Nat,
                       polls : Nat]
      /\ i2cCall'.op = i2cCall.op /\ i2cCall'.then = i2cCall.then
      /\ i2cCall'.bytes = i2cCall.bytes
  BY <1>1, <1>2
<1>4. I2cTypes'
  BY <1>1, <1>3 DEF I2cInv, I2cTypes
<1>5. ReadInOrder' /\ WriteInOrder' /\ ResultKept'
  BY <1>1, <1>3 DEF I2cInv, ReadInOrder, WriteInOrder, ResultKept
<1> QED
  BY <1>4, <1>5 DEF I2cInv

\* A read that is told to be good has received all of its transaction.
LEMMA EndReadInv == ASSUME I2cInv, EndRead PROVE I2cInv'
<1>1. /\ i2cCall.op = "read" /\ i2cCall' = NoI2cCall /\ rxFifo' = <<>>
      /\ UNCHANGED <<bus, withStop, left, fault, txFifo, xact, sent>>
  BY DEF EndRead
<1>2. <<>> \in Seq(I2cBytes)
  OBVIOUS
<1>3. I2cTypes'
  BY <1>1, <1>2, NoCallInProgress DEF I2cInv, I2cTypes
<1>4. ReadInOrder' /\ WriteInOrder'
  BY <1>1, NoCallInProgress DEF ReadInOrder, WriteInOrder
<1>5. CASE fault \/ TimedOut \/ Len(rxFifo) # i2cCall.bytes
  <2>1. i2cResult' = Failed("I2C_READ_ERR")
    BY <1>5 DEF EndRead
  <2>2. i2cResult'.status = "I2C_READ_ERR"
    BY <2>1 DEF Failed
  <2>3. ResultKept'
    BY <1>1, <2>2, NoCallInProgress DEF ResultKept
  <2> QED
    BY <1>3, <1>4, <2>3 DEF I2cInv
<1>6. CASE ~ (fault \/ TimedOut \/ Len(rxFifo) # i2cCall.bytes)
  <2>1. i2cResult' = [status |-> "I2C_OK", bytes |-> rxFifo]
    BY <1>6 DEF EndRead
  <2>2. i2cResult'.bytes = rxFifo
    BY <2>1
  <2>3. /\ i2cCall.then = 0 /\ rxFifo = BytesOf(xact, sent)
        /\ left + sent = i2cCall.bytes /\ bus \in {"receiving", "idle"}
    BY <1>1 DEF I2cInv, ReadInOrder
  <2>4. bus = "idle"
    <3>1. Done
      <4>1. Ended(Done)
        BY Zenon DEF EndRead
      <4>2. ~ TimedOut
        BY <1>6
      <4> QED
        BY <4>1, <4>2, Zenon DEF Ended, TimedOut
    <3> QED
      BY <2>3, <3>1 DEF Done
  <2>5. left = 0
    <3>1. left \in Nat /\ sent \in Nat /\ xact \in Nat
      BY DEF I2cInv, I2cTypes
    <3>2. Len(rxFifo) = sent
      BY <2>3, <3>1, BytesInOrder
    <3>3. sent = left + sent
      BY <1>6, <2>3, <3>2
    <3> QED
      BY <3>1, <3>3
  <2>6. ResultKept'
    BY <1>1, <2>2, <2>3, <2>4, <2>5, NoCallInProgress DEF ResultKept
  <2> QED
    BY <1>3, <1>4, <2>6 DEF I2cInv
<1> QED
  BY <1>5, <1>6

\* A write that fails gives up what is left of it.
LEMMA FailWriteInv == ASSUME I2cInv, FailWrite PROVE I2cInv'
<1>1. /\ i2cCall' = NoI2cCall /\ txFifo' = <<>>
      /\ i2cResult' = Failed("I2C_WRITE_ERR")
      /\ UNCHANGED <<bus, withStop, left, fault, rxFifo, xact, sent>>
  BY DEF FailWrite
<1>2. i2cResult'.status = "I2C_WRITE_ERR" /\ <<>> \in Seq(I2cBytes)
  BY <1>1 DEF Failed
<1>3. I2cTypes'
  BY <1>1, <1>2, NoCallInProgress DEF I2cInv, I2cTypes
<1>4. ReadInOrder' /\ WriteInOrder'
  BY <1>1, NoCallInProgress DEF ReadInOrder, WriteInOrder
<1>5. ResultKept'
  BY <1>1, <1>2, NoCallInProgress DEF ResultKept
<1> QED
  BY <1>3, <1>4, <1>5 DEF I2cInv

\* A write that is told to be good has sent all of its transaction.
LEMMA EndWriteInv == ASSUME I2cInv, EndWrite PROVE I2cInv'
<1>1. /\ i2cCall.op = "write" /\ i2cCall.then = 0 /\ ~ fault
      /\ i2cCall' = NoI2cCall
      /\ i2cResult' = [status |-> "I2C_OK", bytes |-> <<>>]
      /\ UNCHANGED <<bus, withStop, left, fault, txFifo, rxFifo, xact, sent>>
  BY DEF EndWrite, i2cPeripheral
<1>2. bus = "idle"
  <2>1. Done
    BY DEF EndWrite, Ended, TimedOut
  <2> QED
    BY <1>1, <2>1 DEF Done, I2cInv, I2cTypes
<1>3. left = 0
  BY <1>1, <1>2 DEF I2cInv, WriteInOrder
<1>4. i2cResult'.bytes = <<>>
  BY <1>1
<1>5. I2cTypes'
  BY <1>1, NoCallInProgress DEF I2cInv, I2cTypes
<1>6. ReadInOrder' /\ WriteInOrder'
  BY <1>1, NoCallInProgress DEF ReadInOrder, WriteInOrder
<1>7. ResultKept'
  BY <1>1, <1>2, <1>3, <1>4, NoCallInProgress DEF ResultKept
<1> QED
  BY <1>5, <1>6, <1>7 DEF I2cInv

\* The read of a writeRead is a transaction of its own.
LEMMA ReadAfterWriteInv == ASSUME I2cInv, ReadAfterWrite PROVE I2cInv'
<1> DEFINE n == i2cCall.then
<1>1. /\ i2cCall.op = "write" /\ bus' = "receiving" /\ left' = n /\ rxFifo' = <<>>
      /\ withStop' = TRUE /\ xact' = xact + 1 /\ sent' = 0
      /\ UNCHANGED <<fault, txFifo, i2cResult>>
  BY DEF ReadAfterWrite, Receive
<1>2. i2cCall' = [NoI2cCall EXCEPT !.op = "read", !.bytes = n]
  BY DEF ReadAfterWrite
<1>3. n \in Nat /\ xact \in Nat
  BY DEF I2cInv, I2cTypes
<1>4. /\ i2cCall'.op = "read" /\ i2cCall'.then = 0 /\ i2cCall'.bytes = n
      /\ i2cCall' \in [op : {"none", "read", "write"}, then : Nat, bytes : Nat,
                       polls : Nat]
  BY <1>2, <1>3 DEF NoI2cCall
<1>5. /\ <<>> \in Seq(I2cBytes) /\ xact' \in Nat /\ BytesOf(xact', 0) = <<>>
  <2>1. xact' \in Nat
    BY <1>1, <1>3
  <2> QED
    BY <2>1, BytesInOrder
<1>6. I2cTypes'
  BY <1>1, <1>3, <1>4, <1>5 DEF I2cInv, I2cTypes
<1>7. ReadInOrder' /\ WriteInOrder'
  BY <1>1, <1>3, <1>4, <1>5 DEF ReadInOrder, WriteInOrder
<1>8. i2cResult' = NoResult
  BY <1>1 DEF I2cInv, ResultKept
<1>9. ResultKept'
  BY <1>4, <1>8 DEF ResultKept, NoResult
<1> QED
  BY <1>6, <1>7, <1>9 DEF I2cInv

\* The bus begins free, with no call.
LEMMA I2cStarts == I2cInit => I2cInv
<1> SUFFICES ASSUME I2cInit PROVE I2cInv
  OBVIOUS
<1>1. /\ i2cCall = NoI2cCall /\ bus = "idle" /\ withStop = FALSE /\ left = 0
      /\ fault = FALSE /\ txFifo = <<>> /\ rxFifo = <<>> /\ xact = 0 /\ sent = 0
      /\ i2cResult = NoResult
  BY DEF I2cInit
<1>2. <<>> \in Seq(I2cBytes)
  OBVIOUS
<1>3. I2cTypes
  BY <1>1, <1>2, NoCallInProgress DEF I2cTypes
<1>4. ReadInOrder /\ WriteInOrder /\ ResultKept
  BY <1>1, NoCallInProgress DEF ReadInOrder, WriteInOrder, ResultKept, NoResult
<1> QED
  BY <1>3, <1>4 DEF I2cInv

\* Every step of the driver and of the peripheral keeps the invariant.
LEMMA I2cKeepsInv == ASSUME I2cInv, [I2cNext]_i2cVars PROVE I2cInv'
<1>1. CASE \E mode \in BOOLEAN, hz \in I2cBits : I2cConfigure(mode, hz)
  BY <1>1, I2cConfigureInv
<1>2. CASE I2cCallTooEarly \/ UNCHANGED i2cVars
  <2>1. UNCHANGED <<i2cCall, bus, withStop, left, fault, txFifo, rxFifo, xact, sent,
                    i2cResult>>
    BY <1>2 DEF I2cCallTooEarly, i2cVars, i2cPeripheral
  <2> QED
    BY <2>1 DEF I2cInv, I2cTypes, ReadInOrder, WriteInOrder, ResultKept
<1>3. CASE \E st \in {"I2C_READ_ERR", "I2C_WRITE_ERR"} : CallWhileBusy(st)
  BY <1>3, CallWhileBusyInv
<1>4. CASE \E n \in 1 .. MaxBytes :
             BeginRead(n) \/ \E then \in 0 .. MaxBytes : BeginWrite(n, then)
  BY <1>4, BeginReadInv, BeginWriteInv
<1>5. CASE ReceiveByte \/ SendByte \/ CommandDone \/ SendRunsDry \/ Nack
  BY <1>5, ReceiveByteInv, SendByteInv, CommandDoneInv, SendRunsDryInv, NackInv
<1>6. CASE PollAgain \/ EndRead \/ FailWrite \/ EndWrite \/ ReadAfterWrite
  BY <1>6, PollAgainInv, EndReadInv, FailWriteInv, EndWriteInv, ReadAfterWriteInv
<1> QED
  BY <1>1, <1>2, <1>3, <1>4, <1>5, <1>6 DEF I2cNext

\* Of the I2C driver, the FIFOs and the bus always hold what the call in progress is
\* about, and what the last call left.
THEOREM I2cInvariance == I2cSpec => []I2cInv
BY I2cStarts, I2cKeepsInv, PTL DEF I2cSpec

\* I2C_OK is said of a transaction that is over, and no call finds bytes of another
\* transaction in its FIFO (I2cController.cpp:99-256).
THEOREM TransactionsStayApart == I2cSpec => []TransactionsApart
<1>1. I2cInv => TransactionsApart
  <2> SUFFICES ASSUME I2cInv PROVE TransactionsApart
    OBVIOUS
  <2>1. i2cCall.op = "read" => \A i \in DOMAIN rxFifo : rxFifo[i][1] = xact
    <3> SUFFICES ASSUME i2cCall.op = "read"
                 PROVE  \A i \in DOMAIN rxFifo : rxFifo[i][1] = xact
      OBVIOUS
    <3>1. xact \in Nat /\ sent \in Nat /\ rxFifo = BytesOf(xact, sent)
      BY DEF I2cInv, I2cTypes, ReadInOrder
    <3>2. DOMAIN rxFifo = 1 .. sent
      BY <3>1 DEF BytesOf
    <3>3. \A i \in 1 .. sent : BytesOf(xact, sent)[i][1] = xact
      BY <3>1, BytesInOrder
    <3> QED
      BY <3>1, <3>2, <3>3, Zenon
  <2>2. i2cCall.op = "write" => \A i \in DOMAIN txFifo : txFifo[i][1] = xact
    <3>1. DOMAIN txFifo = 1 .. Len(txFifo)
      BY DEF I2cInv, I2cTypes
    <3> QED
      BY <3>1 DEF I2cInv, WriteInOrder
  <2>3. i2cCall = NoI2cCall /\ bus # "idle" =>
          i2cResult.status \in {"I2C_READ_ERR", "I2C_WRITE_ERR"}
    BY NoCallInProgress DEF I2cInv, ResultKept
  <2>4. i2cResult.status = "I2C_OK" =>
          /\ left = 0 /\ bus = "idle"
          /\ i2cResult.bytes \in {<<>>, BytesOf(xact, sent)}
    BY DEF I2cInv, ResultKept
  <2> QED
    BY <2>1, <2>2, <2>3, <2>4 DEF TransactionsApart
<1> QED
  BY <1>1, I2cInvariance, PTL
================================================================================
