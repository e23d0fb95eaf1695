------------------------------ MODULE Clocks_proofs ----------------------------
(***************************************************************************)
(* Theorems of RawTimes, for timers of any width, any frequencies and any  *)
(* spacing of the reads that is less than a round of the low timer, and of *)
(* ClkTree, for any trees and any limits.                                  *)
(*                                                                         *)
(* RawTimes: a reading is that of the tick of its second or of its fourth  *)
(* read, which Carry decides: in less than a round the low timer reloads   *)
(* at most once. ClkTree: between calls the registers are what the active  *)
(* tree says, and a call that selects the PLL has seen it lock. Pins, for  *)
(* any pins and any number of calls: the steps of a call leave in the word *)
(* and the registers what a later one of them or another pin's keep.       *)
(***************************************************************************)
EXTENDS RawTimes, ClkTree, Pins, SequenceTheorems, WellFoundedInduction, TLAPS

(***************************************************************************)
(* Division                                                                *)
(***************************************************************************)
LEMMA Division ==
  ASSUME NEW n \in Int, NEW d \in Nat \ {0}
  PROVE  /\ n \div d \in Int /\ n % d \in 0 .. d - 1
         /\ n = d * (n \div d) + (n % d)
  OBVIOUS

LEMMA Multiples ==
  ASSUME NEW d \in Nat, NEW a \in Int, NEW b \in Int, a < b
  PROVE  d * a + d <= d * b
<1>1. PICK k \in Nat : b = a + 1 + k
  <2>1. b - a - 1 \in Nat /\ b = a + 1 + (b - a - 1)
    OBVIOUS
  <2> QED BY <2>1
<1>2. d * b = d * a + d + d * k
  BY <1>1
<1>3. d * k \in Nat
  BY <1>1
<1>4. d * a \in Int
  OBVIOUS
<1> QED BY <1>2, <1>3, <1>4

\* Quotient and remainder are the only ones of their kind.
LEMMA OneQuotient ==
  ASSUME NEW d \in Nat \ {0}, NEW q \in Int, NEW r \in 0 .. d - 1, NEW n \in Int,
         n = d * q + r
  PROVE  n \div d = q /\ n % d = r
<1> DEFINE Q == n \div d
           R == n % d
<1>1. Q \in Int /\ R \in 0 .. d - 1 /\ n = d * Q + R
  BY Division
<1>2. ~ Q < q
  <2> SUFFICES ASSUME Q < q PROVE FALSE
    OBVIOUS
  <2>1. d * Q + d <= d * q
    BY <1>1, Multiples
  <2>2. d * Q \in Int /\ d * q \in Int
    BY <1>1
  <2> HIDE DEF Q, R
  <2> QED BY <1>1, <2>1, <2>2
<1>3. ~ q < Q
  <2> SUFFICES ASSUME q < Q PROVE FALSE
    OBVIOUS
  <2>1. d * q + d <= d * Q
    BY <1>1, Multiples
  <2>2. d * Q \in Int /\ d * q \in Int
    BY <1>1
  <2> HIDE DEF Q, R
  <2> QED BY <1>1, <2>1, <2>2
<1>4. Q = q
  <2> HIDE DEF Q
  <2> QED BY <1>1, <1>2, <1>3
<1>5. R = r
  <2>1. d * q \in Int
    OBVIOUS
  <2> HIDE DEF Q, R
  <2> QED BY <1>1, <1>4, <2>1
<1> QED BY <1>4, <1>5

-----------------------------------------------------------------------------
(***************************************************************************)
(* The ticks of a reading                                                  *)
(***************************************************************************)
Period == LoReset + 1

\* What the low timer's rounds are at b is known from a, less than a round before.
LEMMA Carry ==
  ASSUME NEW a \in Nat, NEW b \in Nat, a <= b, b - a < Period
  PROVE  \/ b \div Period = a \div Period /\ b % Period = (a % Period) + (b - a)
         \/ /\ b \div Period = a \div Period + 1
            /\ b % Period = (a % Period) + (b - a) - Period
<1> DEFINE P == Period
           q == a \div P
           r == a % P
           k == b - a
<1>1. P \in Nat \ {0} /\ k \in 0 .. P - 1
  BY RawTimesAssumption DEF Period
<1>2. q \in Int /\ r \in 0 .. P - 1 /\ a = P * q + r
  BY <1>1, Division
<1>3. P * q \in Int /\ P * (q + 1) = P * q + P
  <2> HIDE DEF q
  <2> QED BY <1>1, <1>2
<1>4. CASE r + k < P
  <2> HIDE DEF P, q, r, k
  <2>0. P \in Nat \ {0} /\ b \in Int
    BY <1>1
  <2>1. r + k \in 0 .. P - 1
    BY <1>1, <1>2, <1>4
  <2>2. b = P * q + (r + k)
    BY <1>1, <1>2, <1>3 DEF k
  <2>3. b \div P = q /\ b % P = r + k
    BY <1>2, <2>0, <2>1, <2>2, OneQuotient, ZenonT(60)
  <2> QED BY <2>3 DEF P, q, r, k
<1>5. CASE ~ r + k < P
  <2> DEFINE f == q + 1
             e == r + k - P
  <2> HIDE DEF P, q, r, k
  <2>1. P \in Nat \ {0} /\ b \in Int /\ f \in Int /\ e \in 0 .. P - 1
    BY <1>1, <1>2, <1>5
  <2>2. b = P * f + e
    BY <1>1, <1>2, <1>3 DEF k
  <2>3. b \div P = f /\ b % P = e
    <3> HIDE DEF e, f
    <3> QED BY <2>1, <2>2, OneQuotient, Zenon
  <2> QED BY <2>3 DEF P, q, r, k
<1> QED BY <1>4, <1>5
-----------------------------------------------------------------------------
LEMMA HighCount ==
  ASSUME NEW n \in Nat, NEW h \in HiCounts(n)
  PROVE  \/ h = HiReset - (n \div Period)
         \/ n % Period = LoReset /\ h = HiReset - (n \div Period) - 1
<1>1. n % Period \in 0 .. LoReset /\ n \div Period \in Int
  BY RawTimesAssumption, Division DEF Period
<1> DEFINE q == n \div Period
           m == n % Period
<1>2. h \in {HiReset - q} \cup (IF LoReset - m = 0 THEN {HiReset - q - 1} ELSE {})
  BY DEF HiCounts, LoCount, Rounds, Period
<1> HIDE DEF q, m
<1>3. CASE LoReset - m = 0
  <2>1. m = LoReset
    BY <1>1, <1>3, RawTimesAssumption DEF q, m
  <2>2. h = HiReset - q \/ h = HiReset - q - 1
    BY <1>2, <1>3
  <2> QED BY <2>1, <2>2 DEF q, m
<1>4. CASE LoReset - m # 0
  BY <1>2, <1>4 DEF q, m
<1> QED BY <1>3, <1>4 DEF q, m

\* Five reads within a round of the low timer: two equal readings of the high
\* timer hold between them a count that belongs to it, the first two or else the
\* last two.
LEMMA CountsAreOfATick ==
  ASSUME NEW at \in [1 .. 5 -> Nat], NEW r,
         at[1] < at[2] /\ at[2] < at[3] /\ at[3] < at[4] /\ at[4] < at[5],
         at[5] - at[1] < LoReset,
         \A i \in {1, 3, 5} : r[i] \in HiCounts(at[i]),
         \A i \in {2, 4} : r[i] = LoCount(at[i])
  PROVE  \E k \in {2, 4} : ValidCounts(r) = <<HiReset - Rounds(at[k]), LoCount(at[k])>>
<1> DEFINE a == at[1]
           b == at[2]
           c == at[3]
           d == at[4]
           e == at[5]
<1>1. /\ a \in Nat /\ b \in Nat /\ c \in Nat /\ d \in Nat /\ e \in Nat
      /\ a < b /\ b < c /\ c < d /\ d < e /\ e - a < LoReset
  OBVIOUS
<1>2. /\ r[1] \in HiCounts(a) /\ r[2] = LoCount(b) /\ r[3] \in HiCounts(c)
      /\ r[4] = LoCount(d) /\ r[5] \in HiCounts(e)
  OBVIOUS
<1> HIDE DEF a, b, c, d, e
<1> DEFINE q(n) == n \div Period
           m(n) == n % Period
<1>3. LoReset \in Nat /\ HiReset \in Nat /\ Period = LoReset + 1
  BY RawTimesAssumption DEF Period
<1>4. \A n \in {a, b, c, d, e} : q(n) \in Int /\ m(n) \in 0 .. LoReset
  <2> SUFFICES ASSUME NEW n \in {a, b, c, d, e}
               PROVE  q(n) \in Int /\ m(n) \in 0 .. LoReset
    OBVIOUS
  <2>1. n \in Int /\ Period \in Nat \ {0}
    BY <1>1, <1>3
  <2>2. q(n) \in Int /\ m(n) \in 0 .. Period - 1
    BY <2>1, Division
  <2> HIDE DEF q, m
  <2> QED BY <1>3, <2>2
<1>5. \A n \in {b, c, d, e} : \/ q(n) = q(a) /\ m(n) = m(a) + (n - a)
                              \/ q(n) = q(a) + 1 /\ m(n) = m(a) + (n - a) - Period
  <2>1. \A n \in {b, c, d, e} : n \in Nat /\ a <= n /\ n - a < Period
    BY <1>1, <1>3
  <2> QED BY <1>1, <2>1, Carry
<1>6. /\ r[1] = HiReset - q(a) \/ (m(a) = LoReset /\ r[1] = HiReset - q(a) - 1)
      /\ r[3] = HiReset - q(c) \/ (m(c) = LoReset /\ r[3] = HiReset - q(c) - 1)
      /\ r[5] = HiReset - q(e) \/ (m(e) = LoReset /\ r[5] = HiReset - q(e) - 1)
  <2>1. \A n \in Nat : \A h \in HiCounts(n) :
          h = HiReset - q(n) \/ (m(n) = LoReset /\ h = HiReset - q(n) - 1)
    BY HighCount
  <2> HIDE DEF q, m
  <2> QED BY <1>1, <1>2, <2>1
<1>7. r[2] = LoReset - m(b) /\ r[4] = LoReset - m(d)
  BY <1>2 DEF LoCount, Period
<1> HIDE DEF q, m
<1>8. r[1] = r[3] /\ r[2] # 0 => r[1] = HiReset - q(b)
  BY <1>1, <1>2, <1>3, <1>4, <1>5, <1>6, <1>7
<1>9. ~ (r[1] = r[3] /\ r[2] # 0) => r[3] = r[5] /\ r[4] # 0 /\ r[3] = HiReset - q(d)
  BY <1>1, <1>2, <1>3, <1>4, <1>5, <1>6, <1>7
<1>10. q(b) = Rounds(b) /\ q(d) = Rounds(d)
  BY DEF q, Rounds, Period
<1>11. \/ ValidCounts(r) = <<HiReset - Rounds(b), LoCount(b)>>
       \/ ValidCounts(r) = <<HiReset - Rounds(d), LoCount(d)>>
  BY <1>2, <1>8, <1>9, <1>10 DEF ValidCounts
<1> QED BY <1>11 DEF b, d

LEMMA TimeOfCounts ==
  ASSUME NEW n \in Nat
  PROVE  (HiReset - (HiReset - Rounds(n))) * (LoReset + 1) + (LoReset - LoCount(n)) = n
<1> DEFINE q == n \div Period
           m == n % Period
<1>1. LoReset \in Nat /\ HiReset \in Nat /\ Period = LoReset + 1 /\ Period \in Nat \ {0}
  BY RawTimesAssumption DEF Period
<1>2. n \in Int
  OBVIOUS
<1>3. q \in Int /\ m \in 0 .. Period - 1 /\ n = Period * q + m
  BY <1>1, <1>2, Division
<1>4. Rounds(n) = q /\ LoCount(n) = LoReset - m
  BY DEF Rounds, LoCount, Period
<1> HIDE DEF q, m
<1>5. HiReset - (HiReset - q) = q /\ LoReset - (LoReset - m) = m
  BY <1>1, <1>3
<1>6. q * Period = Period * q
  BY <1>1, <1>3
<1> QED BY <1>1, <1>3, <1>4, <1>5, <1>6

-----------------------------------------------------------------------------
(***************************************************************************)
(* The inductive invariant of the clocks                                   *)
(***************************************************************************)
OkReadings == [status : {"OP_OK"}, val : Nat, single : Nat, at : Nat]

RawTypes ==
  /\ hz \in TimerHz
  /\ ticks \in Nat /\ begunAt \in 0 .. ticks
  /\ raws \in Seq(Int) /\ Len(raws) <= 5

\* What has been read of the registers was there at some tick of the call, one read
\* after the other.
ReadsOf(r, begun, now) ==
  \E at \in [1 .. Len(r) -> Nat] :
    /\ r # <<>> => at[1] = begun /\ at[Len(r)] = now
    /\ \A i \in 1 .. Len(r) - 1 : at[i + 1] - at[i] \in Spacing
    /\ \A i \in 1 .. Len(r) :
         /\ i \in {1, 3, 5} => r[i] \in HiCounts(at[i])
         /\ i \in {2, 4} => r[i] = LoCount(at[i])

Reads == ReadsOf(raws, begunAt, ticks)

\* The last reading, the kept one and their order.
ReadingTrue ==
  reading = NoReading \/
    /\ reading \in OkReadings /\ raws = <<>>
    /\ begunAt <= reading.val /\ reading.val <= ticks
    /\ reading.at = begunAt /\ reading.single = begunAt % SingleSize

EarlierTrue ==
  earlier = NoReading \/
    /\ earlier \in OkReadings /\ earlier.single = earlier.at % SingleSize
    /\ earlier.val <= IF raws = <<>> THEN ticks ELSE begunAt
    /\ earlier.at <= IF raws = <<>> THEN ticks ELSE begunAt
    /\ reading # NoReading => earlier.val <= reading.val /\ earlier.at <= reading.at

IntervalTrue ==
  /\ interval = NoReading \/ (reading # NoReading /\ earlier # NoReading)
  /\ IntervalsTrue

RawInv == RawTypes /\ Reads /\ ReadingTrue /\ EarlierTrue /\ IntervalTrue

LEMMA OkIsAReading == \A r \in OkReadings : r # NoReading /\ r.status = "OP_OK"
<1> SUFFICES ASSUME NEW r \in OkReadings PROVE r # NoReading /\ r.status = "OP_OK"
  OBVIOUS
<1>1. r.status = "OP_OK" /\ NoReading.status = "NONE"
  BY DEF OkReadings, NoReading
<1> QED BY <1>1

LEMMA NoInterval == ASSUME interval = NoReading PROVE IntervalsTrue
  BY DEF IntervalsTrue, NoReading

LEMMA NoReads == ASSUME NEW begun, NEW now PROVE ReadsOf(<<>>, begun, now)
<1> DEFINE at == [i \in 1 .. Len(<<>>) |-> 0]
<1>1. Len(<<>>) = 0
  OBVIOUS
<1>2. at \in [1 .. Len(<<>>) -> Nat]
  OBVIOUS
<1>3. \A i \in 1 .. Len(<<>>) : FALSE
  BY <1>1
<1>4. \A i \in 1 .. Len(<<>>) - 1 : FALSE
  BY <1>1
<1> HIDE DEF at
<1> QED BY <1>2, <1>3, <1>4 DEF ReadsOf

LEMMA RawInitial == RawInit => RawInv
<1> SUFFICES ASSUME RawInit PROVE RawInv
  OBVIOUS
<1> USE DEF RawInit
<1>1. RawTypes
  BY DEF RawTypes
<1>2. Reads
  BY NoReads DEF Reads
<1>3. ReadingTrue /\ EarlierTrue /\ IntervalTrue
  BY NoInterval DEF ReadingTrue, EarlierTrue, IntervalTrue
<1> QED BY <1>1, <1>2, <1>3 DEF RawInv

\* A step that has nothing to do with the clocks.
LEMMA RestStep ==
  ASSUME RawInv,
         UNCHANGED <<hz, ticks, begunAt, raws, earlier, reading, interval>>
  PROVE  RawInv'
  BY DEF RawInv, RawTypes, Reads, ReadingTrue, EarlierTrue, IntervalTrue, IntervalsTrue,
         OkReadings, NoReading

LEMMA ElapseStep == ASSUME RawInv, Elapse PROVE RawInv'
<1> USE DEF RawInv, Elapse
<1>1. RawTypes'
  BY DEF RawTypes
<1>2. Reads'
  BY NoReads DEF Reads
<1>3. ReadingTrue' /\ EarlierTrue'
  BY DEF ReadingTrue, EarlierTrue, RawTypes, OkReadings
<1>4. IntervalTrue'
  <2>1. (interval = NoReading)' => IntervalsTrue'
    BY DEF IntervalsTrue, NoReading
  <2> QED BY <2>1 DEF IntervalTrue
<1> QED BY <1>1, <1>2, <1>3, <1>4

LEMMA KeepStep == ASSUME RawInv, Keep PROVE RawInv'
<1> USE DEF RawInv, Keep
<1>1. RawTypes'
  BY DEF RawTypes
<1>2. Reads'
  BY DEF Reads
<1>3. ReadingTrue' /\ EarlierTrue'
  <2>1. reading # NoReading
    BY DEF NoReading
  <2> QED BY <2>1 DEF ReadingTrue, EarlierTrue, RawTypes, OkReadings
<1>4. IntervalTrue'
  <2>1. interval' = NoReading
    BY DEF IntervalTrue
  <2>2. (interval = NoReading)' => IntervalsTrue'
    BY DEF IntervalsTrue, NoReading
  <2> QED BY <2>1, <2>2 DEF IntervalTrue
<1> QED BY <1>1, <1>2, <1>3, <1>4

LEMMA ReadStep == ASSUME RawInv, ReadRawCount PROVE RawInv'
<1> USE DEF RawInv
<1>1. PICK g \in IF raws = <<>> THEN {0} ELSE Spacing :
        /\ ticks' = ticks + g
        /\ \E n \in IF Len(raws) % 2 = 0 THEN HiCounts(ticks') ELSE {LoCount(ticks')} :
             raws' = Append(raws, n)
  BY DEF ReadRawCount
<1>2. PICK n \in IF Len(raws) % 2 = 0 THEN HiCounts(ticks') ELSE {LoCount(ticks')} :
        raws' = Append(raws, n)
  BY <1>1
<1>3. g \in Nat /\ (raws = <<>> => g = 0) /\ (raws # <<>> => g \in Spacing)
  BY <1>1, RawTimesAssumption
<1>4. ticks' \in Nat /\ ticks <= ticks' /\ ticks' = ticks + g
  BY <1>1, <1>3 DEF RawTypes
<1>5. n \in Int
  <2>1. LoCount(ticks') \in Int /\ Rounds(ticks') \in Int /\ HiReset \in Int
    <3>1. LoReset + 1 \in Nat \ {0} /\ LoReset \in Nat /\ ticks' \in Int
      BY <1>4, RawTimesAssumption
    <3>2. ticks' % (LoReset + 1) \in Int /\ ticks' \div (LoReset + 1) \in Int
      BY <3>1
    <3> QED BY <3>1, <3>2, RawTimesAssumption DEF LoCount, Rounds
  <2> QED BY <1>2, <2>1 DEF HiCounts
<1>6. /\ Len(raws) \in 0 .. 4 /\ raws \in Seq(Int)
      /\ Len(raws') = Len(raws) + 1 /\ raws' \in Seq(Int)
      /\ raws'[Len(raws) + 1] = n /\ \A i \in 1 .. Len(raws) : raws'[i] = raws[i]
      /\ raws' # <<>>
  <2>1. raws \in Seq(Int) /\ Len(raws) \in 0 .. 4
    <3>1. Len(raws) < 5
      BY DEF ReadRawCount
    <3>2. raws \in Seq(Int)
      BY DEF RawTypes
    <3>3. Len(raws) \in Nat
      BY <3>2
    <3>4. \A m \in Nat : m < 5 => m \in 0 .. 4
      OBVIOUS
    <3> QED BY <3>1, <3>2, <3>3, <3>4, Zenon
  <2>2. raws' = Append(raws, n)
    BY <1>2
  <2>3. Len(raws') = Len(raws) + 1 /\ raws' \in Seq(Int)
    BY <1>5, <2>1, <2>2
  <2>4. raws'[Len(raws) + 1] = n /\ \A i \in 1 .. Len(raws) : raws'[i] = raws[i]
    BY <1>5, <2>1, <2>2
  <2> QED BY <2>1, <2>3, <2>4
<1>7. raws = <<>> <=> Len(raws) = 0
  BY <1>6
<1>8. begunAt' = IF raws = <<>> THEN ticks ELSE begunAt
  BY DEF ReadRawCount
<1>9. RawTypes'
  BY <1>4, <1>6, <1>8 DEF RawTypes, ReadRawCount
<1>10. Reads'
  <2>1. PICK at \in [1 .. Len(raws) -> Nat] :
          /\ raws # <<>> => at[1] = begunAt /\ at[Len(raws)] = ticks
          /\ \A i \in 1 .. Len(raws) - 1 : at[i + 1] - at[i] \in Spacing
          /\ \A i \in 1 .. Len(raws) :
               /\ i \in {1, 3, 5} => raws[i] \in HiCounts(at[i])
               /\ i \in {2, 4} => raws[i] = LoCount(at[i])
    BY DEF Reads, ReadsOf
  <2> DEFINE bt == [i \in 1 .. Len(raws') |-> IF i <= Len(raws) THEN at[i] ELSE ticks']
  <2>2. bt \in [1 .. Len(raws') -> Nat]
    BY <1>4, <1>6, <2>1
  <2>3. /\ bt[Len(raws')] = ticks'
        /\ \A i \in 1 .. Len(raws) : bt[i] = at[i]
    BY <1>6
  <2> HIDE DEF bt
  <2>4. bt[1] = begunAt'
    BY <1>1, <1>3, <1>4, <1>6, <1>7, <1>8, <2>1, <2>3 DEF RawTypes
  <2>5. \A i \in 1 .. Len(raws') - 1 : bt[i + 1] - bt[i] \in Spacing
    <3> SUFFICES ASSUME NEW i \in 1 .. Len(raws') - 1
                 PROVE  bt[i + 1] - bt[i] \in Spacing
      OBVIOUS
    <3>1. CASE i < Len(raws)
      <4>1. i \in 1 .. Len(raws) - 1 /\ i \in 1 .. Len(raws) /\ i + 1 \in 1 .. Len(raws)
        BY <1>6, <3>1
      <4> QED BY <2>1, <2>3, <4>1
    <3>2. CASE i = Len(raws)
      <4>1. bt[i + 1] = ticks + g /\ bt[i] = ticks /\ g \in Spacing
        <5>1. i \in 1 .. Len(raws) /\ i + 1 = Len(raws') /\ raws # <<>>
          BY <1>6, <1>7, <3>2
        <5> QED BY <1>3, <1>4, <2>1, <2>3, <3>2, <5>1
      <4> QED BY <4>1, <1>3 DEF RawTypes
    <3> QED BY <1>6, <3>1, <3>2
  <2>6. \A i \in 1 .. Len(raws') :
          /\ i \in {1, 3, 5} => raws'[i] \in HiCounts(bt[i])
          /\ i \in {2, 4} => raws'[i] = LoCount(bt[i])
    <3> SUFFICES ASSUME NEW i \in 1 .. Len(raws')
                 PROVE  /\ i \in {1, 3, 5} => raws'[i] \in HiCounts(bt[i])
                        /\ i \in {2, 4} => raws'[i] = LoCount(bt[i])
      OBVIOUS
    <3>1. CASE i <= Len(raws)
      <4>1. i \in 1 .. Len(raws)
        BY <1>6, <3>1
      <4> QED BY <1>6, <2>1, <2>3, <4>1
    <3>2. CASE i = Len(raws) + 1
      <4>1. (i \in {1, 3, 5} => Len(raws) % 2 = 0) /\ (i \in {2, 4} => Len(raws) % 2 # 0)
        <5>1. Len(raws) \in {0, 1, 2, 3, 4}
          BY <1>6
        <5> QED BY <3>2, <5>1
      <4>2. bt[i] = ticks' /\ raws'[i] = n
        BY <1>6, <2>3, <3>2
      <4> QED BY <1>2, <4>1, <4>2
    <3> QED BY <1>6, <3>1, <3>2
  <2> QED BY <1>6, <2>2, <2>3, <2>4, <2>5, <2>6 DEF Reads, ReadsOf
<1>11. reading' = NoReading /\ interval' = NoReading
  <2>1. raws # <<>> => reading = NoReading
    BY DEF ReadingTrue
  <2> QED BY <2>1 DEF ReadRawCount, IntervalTrue
<1>12. ReadingTrue'
  BY <1>11 DEF ReadingTrue
<1>13. EarlierTrue'
  BY <1>4, <1>6, <1>8, <1>11 DEF EarlierTrue, ReadRawCount, OkReadings, RawTypes
<1>14. IntervalTrue'
  BY <1>11 DEF IntervalTrue, IntervalsTrue, NoReading
<1> QED BY <1>9, <1>10, <1>12, <1>13, <1>14

LEMMA NowStep == ASSUME RawInv, Now PROVE RawInv'
<1> USE DEF RawInv
<1>1. Len(raws) = 5 /\ raws # <<>> /\ raws' = <<>>
  BY DEF Now
<1>2. PICK at \in [1 .. 5 -> Nat] :
        /\ at[1] = begunAt /\ at[5] = ticks
        /\ \A i \in 1 .. 4 : at[i + 1] - at[i] \in Spacing
        /\ \A i \in 1 .. 5 :
             /\ i \in {1, 3, 5} => raws[i] \in HiCounts(at[i])
             /\ i \in {2, 4} => raws[i] = LoCount(at[i])
  <2>1. PICK at \in [1 .. Len(raws) -> Nat] :
        /\ raws # <<>> => at[1] = begunAt /\ at[Len(raws)] = ticks
        /\ \A i \in 1 .. Len(raws) - 1 : at[i + 1] - at[i] \in Spacing
        /\ \A i \in 1 .. Len(raws) :
             /\ i \in {1, 3, 5} => raws[i] \in HiCounts(at[i])
             /\ i \in {2, 4} => raws[i] = LoCount(at[i])
    BY DEF Reads, ReadsOf
  <2>2. 5 - 1 = 4
    OBVIOUS
  <2> QED BY <1>1, <2>1, <2>2
<1>3. /\ at[1] \in Nat /\ at[2] \in Nat /\ at[3] \in Nat /\ at[4] \in Nat /\ at[5] \in Nat
      /\ at[1] < at[2] /\ at[2] < at[3] /\ at[3] < at[4] /\ at[4] < at[5]
      /\ at[5] - at[1] < LoReset
  <2>1. /\ at[2] - at[1] \in Spacing /\ at[3] - at[2] \in Spacing
        /\ at[4] - at[3] \in Spacing /\ at[5] - at[4] \in Spacing
    BY <1>2
  <2>2. /\ at[1] \in Nat /\ at[2] \in Nat /\ at[3] \in Nat /\ at[4] \in Nat
        /\ at[5] \in Nat
    BY <1>2
  <2>3. (at[2] - at[1]) + (at[3] - at[2]) + (at[4] - at[3]) + (at[5] - at[4]) < LoReset
    BY <2>1, RawTimesAssumption
  <2>4. \A n \in Spacing : n \in Nat \ {0}
    BY RawTimesAssumption
  <2>5. LoReset \in Nat
    BY RawTimesAssumption
  <2> QED BY <2>1, <2>2, <2>3, <2>4, <2>5
<1>4. PICK k \in {2, 4} : ValidCounts(raws) = <<HiReset - Rounds(at[k]), LoCount(at[k])>>
  <2>1. /\ at[1] < at[2] /\ at[2] < at[3] /\ at[3] < at[4] /\ at[4] < at[5]
        /\ at[5] - at[1] < LoReset
    BY <1>3
  <2>2. /\ \A i \in {1, 3, 5} : raws[i] \in HiCounts(at[i])
        /\ \A i \in {2, 4} : raws[i] = LoCount(at[i])
    BY <1>2
  <2> QED BY <2>1, <2>2, CountsAreOfATick
<1>5. at[k] \in Nat /\ begunAt <= at[k] /\ at[k] <= ticks
  BY <1>2, <1>3
<1> DEFINE v == ValidCounts(raws)
<1>6. v # <<>> /\ v[1] = HiReset - Rounds(at[k]) /\ v[2] = LoCount(at[k])
  BY <1>4
<1>7. SingleSize - 1 - SingleCount(begunAt) = begunAt % SingleSize
      /\ begunAt % SingleSize \in Nat
  <2>1. SingleSize \in Nat \ {0} /\ begunAt \in Int
    BY RawTimesAssumption DEF RawTypes
  <2>2. begunAt % SingleSize \in 0 .. SingleSize - 1
    BY <2>1, Division
  <2> QED BY <2>1, <2>2 DEF SingleCount
<1>8. reading' = [status |-> "OP_OK", val |-> at[k], single |-> begunAt % SingleSize,
                  at |-> begunAt]
  <2>1. reading' =
          [status |-> "OP_OK",
           val |-> (HiReset - v[1]) * (LoReset + 1) + (LoReset - v[2]),
           single |-> SingleSize - 1 - SingleCount(begunAt), at |-> begunAt]
    BY <1>6 DEF Now
  <2>2. (HiReset - v[1]) * (LoReset + 1) + (LoReset - v[2]) = at[k]
    BY <1>5, <1>6, TimeOfCounts
  <2> HIDE DEF v
  <2> QED BY <2>1, <2>2, <1>7
<1>9. RawTypes'
  BY <1>1 DEF RawTypes, Now
<1>10. Reads'
  BY <1>1, NoReads DEF Reads
<1>11. ReadingTrue'
  BY <1>1, <1>5, <1>7, <1>8, SMTT(40) DEF ReadingTrue, OkReadings, RawTypes, Now
<1>12. reading = NoReading /\ interval = NoReading
  BY <1>1 DEF ReadingTrue, IntervalTrue
<1>13. EarlierTrue'
  <2>1. earlier' = earlier /\ begunAt' = begunAt /\ ticks' = ticks
    BY DEF Now
  <2>2. reading'.val = at[k] /\ reading'.at = begunAt
    BY <1>8
  <2>3. earlier = NoReading \/
          /\ earlier \in OkReadings /\ earlier.single = earlier.at % SingleSize
          /\ earlier.val <= begunAt /\ earlier.at <= begunAt
    BY <1>1 DEF EarlierTrue
  <2>4. begunAt <= ticks /\ begunAt \in Nat /\ ticks \in Nat
    BY DEF RawTypes
  <2>5. \A r \in OkReadings : r.val \in Nat /\ r.at \in Nat
    BY DEF OkReadings
  <2>6. CASE earlier = NoReading
    BY <2>1, <2>6 DEF EarlierTrue
  <2>7. CASE earlier \in OkReadings
    <3>1. /\ earlier.val \in Nat /\ earlier.at \in Nat
          /\ earlier.val <= begunAt /\ earlier.at <= begunAt
          /\ earlier.single = earlier.at % SingleSize
      BY <2>3, <2>5, <2>7, OkIsAReading
    <3>2. /\ earlier.val <= ticks /\ earlier.at <= ticks
          /\ earlier.val <= at[k] /\ earlier.at <= begunAt
      BY <1>5, <2>4, <3>1
    <3> QED BY <1>1, <2>1, <2>2, <2>7, <3>1, <3>2 DEF EarlierTrue
  <2> QED BY <2>3, <2>6, <2>7
<1>14. IntervalTrue'
  BY <1>12 DEF IntervalTrue, IntervalsTrue, NoReading, Now
<1> QED BY <1>9, <1>10, <1>11, <1>13, <1>14

-----------------------------------------------------------------------------
(***************************************************************************)
(* Seconds and microseconds                                                *)
(***************************************************************************)
LEMMA SecondPositive == Second \in Nat \ {0}
<1>1. Milli \in Nat /\ Milli # 0 /\ Second = Milli * Milli
  BY RawTimesAssumption
<1>2. Milli * Milli \in Nat /\ Milli * Milli # 0
  <2>1. 0 < Milli /\ 0 \in Int /\ Milli \in Int /\ Milli \in Nat
    BY <1>1
  <2>2. Milli * 0 + Milli <= Milli * Milli
    BY <2>1, Multiples
  <2>3. Milli * 0 = 0 /\ Milli * Milli \in Int
    BY <2>1
  <2> QED BY <2>1, <2>2, <2>3
<1> QED BY <1>1, <1>2

\* The microseconds of n ticks: those of the whole seconds and of the rest.
LEMMA WholeSeconds ==
  ASSUME NEW h \in Nat \ {0}, NEW n \in Nat
  PROVE  (n * Second) \div h = (n \div h) * Second + ((n % h) * Second) \div h
<1> DEFINE s == n \div h
           r == n % h
           e == (r * Second) \div h
           f == (r * Second) % h
           t == s * Second + e
<1>1. s \in Int /\ r \in 0 .. h - 1 /\ n = h * s + r
  BY Division
<1>2. r * Second \in Int
  <2> HIDE DEF r
  <2> QED BY <1>1, SecondPositive
<1>3. e \in Int /\ f \in 0 .. h - 1 /\ r * Second = h * e + f
  <2> HIDE DEF r
  <2> QED BY <1>2, Division
<1>4. n * Second \in Int /\ t \in Int
  <2> HIDE DEF s, e
  <2> QED BY <1>1, <1>3, SecondPositive
<1>5. n * Second = h * t + f
  <2> HIDE DEF s, r, e, f
  <2>1. n * Second = h * (s * Second) + r * Second
    BY <1>1, SecondPositive
  <2>2. h * t = h * (s * Second) + h * e
    BY <1>1, <1>3, SecondPositive
  <2>3. h * (s * Second) \in Int /\ h * e \in Int
    BY <1>1, <1>3, SecondPositive
  <2> HIDE DEF t
  <2> QED BY <1>3, <2>1, <2>2, <2>3
<1>6. (n * Second) \div h = t
  <2> HIDE DEF t, f
  <2> QED BY <1>3, <1>4, <1>5, OneQuotient
<1> QED BY <1>6

LEMMA LessThanASecond ==
  ASSUME NEW h \in Nat \ {0}, NEW r \in 0 .. h - 1
  PROVE  (r * Second) \div h \in 0 .. Second - 1
<1> DEFINE e == (r * Second) \div h
           f == (r * Second) % h
           z == Second - 1
<1>1. r * Second \in Nat /\ r \in Int /\ h \in Nat
  BY SecondPositive
<1>2. e \in Int /\ f \in 0 .. h - 1 /\ r * Second = h * e + f
  <2> DEFINE x == r * Second
  <2>1. x \in Int
    BY <1>1
  <2> HIDE DEF x
  <2>2. /\ x \div h \in Int /\ x % h \in 0 .. h - 1
        /\ x = h * (x \div h) + (x % h)
    BY <2>1, Division
  <2> QED BY <2>2 DEF x
<1>3. h * e \in Int /\ h * Second \in Int /\ h * z \in Int /\ h * z + h = h * Second
  <2> HIDE DEF e
  <2> QED BY <1>2, SecondPositive
<1>4. r * Second + Second <= h * Second
  <2>1. Second * r + Second <= Second * h
    <3>1. r < h /\ r \in Int /\ h \in Int
      OBVIOUS
    <3> QED BY <3>1, SecondPositive, Multiples
  <2>2. Second * r = r * Second /\ Second * h = h * Second
    BY SecondPositive
  <2> QED BY <2>1, <2>2
<1> HIDE DEF e, f
<1>5. e >= 0
  <2> SUFFICES ASSUME e < 0 PROVE FALSE
    BY <1>2
  <2>1. h * e + h <= h * 0
    BY <1>2, Multiples
  <2> QED BY <1>1, <1>2, <1>3, <2>1
<1>6. ~ z < e
  <2> SUFFICES ASSUME z < e PROVE FALSE
    OBVIOUS
  <2>1. z \in Int
    BY SecondPositive
  <2>2. h * z + h <= h * e
    BY <1>2, <2>1, Multiples
  <2> HIDE DEF z
  <2> QED BY <1>1, <1>2, <1>3, <1>4, <2>2, SecondPositive
<1> QED BY <1>2, <1>5, <1>6, SecondPositive DEF e

\* For timers in megahertz the division by their megahertz is exact.
LEMMA MegahertzExact ==
  ASSUME NEW h \in Nat \ {0}, h % Second = 0, NEW n \in Nat
  PROVE  /\ h \div Second \in Nat \ {0}
         /\ n \div (h \div Second) = (n * Second) \div h
<1> DEFINE k == h \div Second
           u == n \div k
           r == n % k
           f == r * Second
<1>1. k \in Int /\ h = Second * k
  <2>1. h = Second * k + (h % Second) /\ k \in Int
    BY SecondPositive, Division
  <2>2. Second * k \in Int
    <3> HIDE DEF k
    <3> QED BY <2>1, SecondPositive
  <2> HIDE DEF k
  <2> QED BY <2>1, <2>2
<1>2. k \in Nat \ {0}
  <2> HIDE DEF k
  <2> SUFFICES ASSUME k < 1 PROVE FALSE
    BY <1>1
  <2>1. Second * k + Second <= Second * 1
    BY <1>1, SecondPositive, Multiples
  <2>2. Second * 1 = Second /\ h > 0
    BY SecondPositive
  <2> QED BY <1>1, <2>1, <2>2, SecondPositive
<1>3. u \in Int /\ r \in 0 .. k - 1 /\ n = k * u + r
  <2> HIDE DEF k
  <2>1. n \in Int
    OBVIOUS
  <2> QED BY <1>2, <2>1, Division, Zenon
<1> HIDE DEF k, u, r
<1>4. f \in 0 .. h - 1
  <2>1. Second * r + Second <= Second * k
    BY <1>2, <1>3, SecondPositive, Multiples
  <2>2. Second * r = r * Second /\ r * Second \in Nat
    BY <1>2, <1>3, SecondPositive
  <2> HIDE DEF f
  <2>3. f = r * Second
    BY DEF f
  <2> QED BY <1>1, <2>1, <2>2, <2>3, SecondPositive
<1>5. n * Second = h * u + f /\ n * Second \in Int
  <2>1. n * Second = (k * u) * Second + r * Second
    BY <1>2, <1>3, SecondPositive
  <2>2. (k * u) * Second = (Second * k) * u
    BY <1>2, <1>3, SecondPositive
  <2> QED BY <1>1, <2>1, <2>2, SecondPositive
<1>6. (n * Second) \div h = u
  <2> DEFINE x == n * Second
  <2> HIDE DEF f, x
  <2>1. x = h * u + f /\ x \in Int
    BY <1>5 DEF x
  <2>2. u \in Int /\ f \in 0 .. h - 1 /\ h \in Nat \ {0}
    BY <1>3, <1>4
  <2>3. x \div h = u
    BY <2>1, <2>2, OneQuotient
  <2> QED BY <2>3 DEF x
<1> QED BY <1>2, <1>6 DEF u, k

\* The fractions, and those above 0.
Fractions == Nat \X (Nat \ {0})
Positives == (Nat \ {0}) \X (Nat \ {0})

LEMMA NaturalQuotient ==
  ASSUME NEW a \in Nat, NEW d \in Nat \ {0}
  PROVE  a \div d \in Nat /\ (a >= d => a \div d \in Nat \ {0})
<1> DEFINE q == a \div d
           r == a % d
<1>1. q \in Int /\ r \in 0 .. d - 1 /\ a = d * q + r
  BY Division
<1> HIDE DEF q, r
<1>2. ~ q < 0
  <2> SUFFICES ASSUME q < 0 PROVE FALSE
    OBVIOUS
  <2>1. d * q + d <= d * 0
    BY <1>1, Multiples
  <2> QED BY <1>1, <2>1
<1>3. a >= d => q # 0
  <2> SUFFICES ASSUME a >= d, q = 0 PROVE FALSE
    OBVIOUS
  <2>1. d * q = 0
    OBVIOUS
  <2> QED BY <1>1, <2>1
<1>4. q \in Nat /\ (a >= d => q \in Nat \ {0})
  BY <1>1, <1>2, <1>3
<1> QED BY <1>4 DEF q

LEMMA PositiveProduct ==
  ASSUME NEW a \in Nat \ {0}, NEW b \in Nat \ {0} PROVE a * b \in Nat \ {0}
<1>1. a * 0 + a <= a * b /\ a * 0 = 0
  BY Multiples
<1> QED BY <1>1

LEMMA Fraction ==
  ASSUME NEW x \in Fractions, NEW y \in Positives
  PROVE  /\ Over(x, y) \in Fractions /\ Times(x, y) \in Fractions
         /\ x \in Positives => Over(x, y) \in Positives
         /\ Truncated(x) \in Nat
<1>1. /\ x[1] \in Nat /\ x[2] \in Nat \ {0} /\ x = <<x[1], x[2]>>
      /\ y[1] \in Nat \ {0} /\ y[2] \in Nat \ {0}
      /\ x \in Positives => x[1] \in Nat \ {0}
  BY DEF Fractions, Positives
<1> DEFINE a == x[1]
           b == x[2]
           c == y[1]
           d == y[2]
<1> HIDE DEF a, b, c, d
<1>2. a \in Nat /\ b \in Nat \ {0} /\ c \in Nat \ {0} /\ d \in Nat \ {0}
  BY <1>1 DEF a, b, c, d
<1>3. a * c \in Nat /\ a * d \in Nat /\ b * c \in Nat \ {0} /\ b * d \in Nat \ {0}
  BY <1>2, PositiveProduct
<1>4. Over(x, y) = <<a * d, b * c>> /\ Times(x, y) = <<a * c, b * d>>
  BY DEF Over, Times, a, b, c, d
<1>5. x \in Positives => a * d \in Nat \ {0}
  BY <1>1, <1>2, PositiveProduct DEF a
<1>6. Truncated(x) \in Nat
  BY <1>2, NaturalQuotient DEF Truncated, a, b
<1> QED BY <1>3, <1>4, <1>5, <1>6 DEF Fractions, Positives

\* A rounded number is a number, and above 0 if it was.
LEMMA RoundedFraction ==
  ASSUME NEW x \in Fractions
  PROVE  F32(x) \in Fractions /\ (x \in Positives => F32(x) \in Positives)
<1> DEFINE fit == {u \in Units : HasUnit(x, u)}
<1>1. CASE fit = {}
  <2>1. F32(x) = x
    BY <1>1 DEF F32
  <2> QED BY <2>1
<1>2. CASE fit # {}
  <2> DEFINE u == CHOOSE v \in fit : TRUE
             n == x[1] * u[2]
             d == x[2] * u[1]
  <2>1. u \in Units /\ HasUnit(x, u)
    BY <1>2
  <2>2. F32(x) = <<NearestEven(n, d) * u[1], u[2]>>
    BY <1>2 DEF F32
  <2> HIDE DEF fit, u
  <2>3. u[1] \in Nat \ {0} /\ u[2] \in Nat \ {0}
    BY <2>1, RawTimesAssumption
  <2>4. x[1] \in Nat /\ x[2] \in Nat \ {0}
    BY DEF Fractions
  <2>5. n \in Nat /\ d \in Nat \ {0}
    BY <2>3, <2>4, PositiveProduct
  <2>6. n >= d
    <3>1. 2 * n >= MantissaSize * d
      <4>1. 2 * x[1] * u[2] >= MantissaSize * u[1] * x[2]
        BY <2>1 DEF HasUnit
      <4>2. 2 * x[1] * u[2] = 2 * n
        BY <2>3, <2>4
      <4>3. MantissaSize * u[1] * x[2] = MantissaSize * d
        BY <2>3, <2>4, RawTimesAssumption
      <4> QED BY <4>1, <4>2, <4>3
    <3>2. MantissaSize * d >= 2 * d
      <4>1. CASE MantissaSize = 2
        BY <2>5, <4>1
      <4>2. CASE 2 < MantissaSize
        <5>1. d * 2 + d <= d * MantissaSize
          BY <2>5, <4>2, Multiples, RawTimesAssumption
        <5>2. d * MantissaSize = MantissaSize * d /\ MantissaSize * d \in Int
          BY <2>5, RawTimesAssumption
        <5> HIDE DEF d
        <5> QED BY <2>5, <5>1, <5>2
      <4> QED BY <4>1, <4>2, RawTimesAssumption
    <3>3. MantissaSize * d \in Int
      BY <2>5, RawTimesAssumption
    <3> HIDE DEF n, d
    <3> QED BY <2>5, <3>1, <3>2, <3>3
  <2>7. NearestEven(n, d) \in Nat \ {0}
    <3> HIDE DEF n, d
    <3>1. n \div d \in Nat \ {0}
      BY <2>5, <2>6, NaturalQuotient
    <3> QED BY <3>1 DEF NearestEven
  <2>8. NearestEven(n, d) * u[1] \in Nat \ {0}
    <3> HIDE DEF n, d
    <3> QED BY <2>3, <2>7, PositiveProduct
  <2> HIDE DEF n, d
  <2> QED BY <2>2, <2>3, <2>8 DEF Fractions, Positives
<1> QED BY <1>1, <1>2

LEMMA WholeFraction ==
  /\ \A n \in Nat : F32(AsFraction(n)) \in Fractions
  /\ \A n \in Nat \ {0} : F32(AsFraction(n)) \in Positives
<1>1. \A n \in Nat : AsFraction(n) \in Fractions /\ (n # 0 => AsFraction(n) \in Positives)
  BY DEF AsFraction, Fractions, Positives
<1> QED BY <1>1, RoundedFraction

LEMMA RoundedMicros ==
  ASSUME hz \in Nat \ {0}, NEW rem \in Nat
  PROVE  /\ hz % Milli = 0 => KilohertzMicros(rem) \in Nat
         /\ HertzMicros(rem) \in Nat
<1>1. ASSUME hz % Milli = 0 PROVE KilohertzMicros(rem) \in Nat
  <2> DEFINE k == hz \div Milli
             mhz == F32(Over(F32(AsFraction(k)), AsFraction(Milli)))
             us == F32(Over(F32(AsFraction(rem)), mhz))
  <2>1. Milli \in Nat \ {0}
    BY RawTimesAssumption
  <2>2. k \in Nat \ {0}
    <3>1. hz = Milli * k + (hz % Milli) /\ k \in Int
      BY <2>1, Division
    <3>2. k \in Nat
      BY <2>1, NaturalQuotient
    <3> HIDE DEF k
    <3>3. k = 0 => Milli * k = 0
      BY <2>1
    <3> QED BY <1>1, <2>1, <3>1, <3>2, <3>3
  <2>3. AsFraction(Milli) \in Positives
    BY <2>1 DEF AsFraction, Positives
  <2>4. F32(AsFraction(k)) \in Positives /\ F32(AsFraction(k)) \in Fractions
    <3> HIDE DEF k
    <3> QED BY <2>2, WholeFraction
  <2>5. Over(F32(AsFraction(k)), AsFraction(Milli)) \in Positives
    <3> HIDE DEF k
    <3> QED BY <2>3, <2>4, Fraction
  <2>6. mhz \in Positives
    <3> HIDE DEF k
    <3> QED BY <2>5, RoundedFraction DEF Positives, Fractions
  <2>7. Over(F32(AsFraction(rem)), mhz) \in Fractions
    <3> HIDE DEF mhz
    <3> QED BY <2>6, WholeFraction, Fraction
  <2>8. us \in Fractions
    <3> HIDE DEF mhz
    <3> QED BY <2>7, RoundedFraction
  <2>9. KilohertzMicros(rem) = Truncated(us)
    BY DEF KilohertzMicros
  <2> HIDE DEF us
  <2> QED BY <2>3, <2>8, <2>9, Fraction
<1>2. HertzMicros(rem) \in Nat
  <2> DEFINE part == F32(Over(F32(AsFraction(rem)), F32(AsFraction(hz))))
             us == F32(Times(part, AsFraction(Second)))
  <2>1. F32(AsFraction(hz)) \in Positives /\ F32(AsFraction(rem)) \in Fractions
    BY WholeFraction
  <2>2. Over(F32(AsFraction(rem)), F32(AsFraction(hz))) \in Fractions
    BY <2>1, Fraction
  <2>3. part \in Fractions
    BY <2>2, RoundedFraction
  <2>4. AsFraction(Second) \in Positives /\ F32(AsFraction(Second)) \in Positives
    BY SecondPositive, WholeFraction DEF AsFraction, Positives
  <2>5. HertzMicros(rem) = Truncated(F32(Times(part, AsFraction(Second))))
    BY DEF HertzMicros
  <2>6. Times(part, AsFraction(Second)) \in Fractions
    <3> HIDE DEF part
    <3> QED BY <2>3, <2>4, Fraction
  <2>7. us \in Fractions
    <3> HIDE DEF part
    <3> QED BY <2>6, RoundedFraction
  <2> HIDE DEF us
  <2> QED BY <2>4, <2>5, <2>7, Fraction DEF us
<1> QED BY <1>1, <1>2

\* Seconds and microseconds of a difference: less than a second besides the seconds,
\* and exact in megahertz.
LEMMA MicrosTrue ==
  ASSUME hz \in Nat \ {0}, NEW n \in Nat
  PROVE  /\ n \div hz \in Nat
         /\ Microseconds(n % hz) \in 0 .. Second - 1
         /\ hz % Second = 0 =>
              (n \div hz) * Second + Microseconds(n % hz) = (n * Second) \div hz
<1> DEFINE r == n % hz
           e == (r * Second) \div hz
<1>1. r \in 0 .. hz - 1 /\ n \div hz \in Nat
  <2>1. n \in Int /\ r \in 0 .. hz - 1
    BY Division
  <2>2. n \div hz \in Nat
    BY NaturalQuotient
  <2> QED BY <2>1, <2>2
<1>2. e \in 0 .. Second - 1
  <2> HIDE DEF r
  <2> QED BY <1>1, LessThanASecond
<1>3. (n * Second) \div hz = (n \div hz) * Second + e
  BY WholeSeconds
<1>4. CASE hz % Second = 0
  <2>1. Microseconds(r) = BelowSecond(r \div (hz \div Second))
    BY <1>4 DEF Microseconds
  <2>2. r \div (hz \div Second) = e
    <3> HIDE DEF r
    <3> QED BY <1>1, <1>4, MegahertzExact
  <2>3. BelowSecond(e) = e
    <3> HIDE DEF e
    <3> QED BY <1>2, SecondPositive DEF BelowSecond
  <2>4. Microseconds(r) = e
    BY <2>1, <2>2, <2>3
  <2> HIDE DEF e
  <2> QED BY <1>1, <1>2, <1>3, <2>4
<1>5. CASE hz % Second # 0
  <2>1. PICK us \in Nat : Microseconds(r) = BelowSecond(us)
    <3> HIDE DEF r
    <3>1. CASE hz % Milli = 0
      <4>1. Microseconds(r) = BelowSecond(KilohertzMicros(r))
        BY <1>5, <3>1 DEF Microseconds
      <4> QED BY <1>1, <3>1, <4>1, RoundedMicros
    <3>2. CASE hz % Milli # 0
      <4>1. Microseconds(r) = BelowSecond(HertzMicros(r))
        BY <1>5, <3>2 DEF Microseconds
      <4> QED BY <1>1, <4>1, RoundedMicros
    <3> QED BY <3>1, <3>2
  <2>2. BelowSecond(us) \in 0 .. Second - 1
    BY SecondPositive DEF BelowSecond
  <2> QED BY <1>1, <1>5, <2>1, <2>2
<1> QED BY <1>4, <1>5

\* The single clock's difference of two times less than one of its rounds apart.
LEMMA SingleApart ==
  ASSUME NEW a \in Nat, NEW b \in Nat, a <= b, b - a < SingleSize
  PROVE  SingleDelta(b % SingleSize, a % SingleSize) = b - a
<1> DEFINE p == SingleSize
           q == (b \div p) - (a \div p)
           d == (b % p) - (a % p)
<1>1. p \in Nat \ {0}
  BY RawTimesAssumption
<1>2. /\ a \div p \in Int /\ a % p \in 0 .. p - 1 /\ a = p * (a \div p) + (a % p)
      /\ b \div p \in Int /\ b % p \in 0 .. p - 1 /\ b = p * (b \div p) + (b % p)
  BY <1>1, Division
<1>3. q \in Int /\ d \in Int
  BY <1>2
<1>4. d = p * (0 - q) + (b - a)
  <2> DEFINE u == a \div p
             v == b \div p
             x == a % p
             y == b % p
  <2> HIDE DEF p, u, v, x, y
  <2>1. u \in Int /\ v \in Int /\ x \in Int /\ y \in Int /\ p \in Int
        /\ a = p * u + x /\ b = p * v + y
    BY <1>1, <1>2 DEF u, v, x, y
  <2>2. p * (0 - (v - u)) = p * u - p * v /\ p * u \in Int /\ p * v \in Int
    BY <2>1
  <2>3. y - x = p * (0 - (v - u)) + (b - a)
    BY <2>1, <2>2
  <2> QED BY <2>3 DEF u, v, x, y
<1> HIDE DEF p, q, d
<1>5. b - a \in 0 .. p - 1 /\ 0 - q \in Int
  BY <1>1, <1>3 DEF p
<1>6. d % p = b - a
  BY <1>1, <1>3, <1>4, <1>5, OneQuotient
<1> QED BY <1>6 DEF SingleDelta, d, p

LEMMA IntervalStep == ASSUME RawInv, GetTimeInterval PROVE RawInv'
<1> USE DEF RawInv
<1>1. /\ raws = <<>> /\ reading # NoReading /\ earlier # NoReading
      /\ UNCHANGED <<hz, ticks, begunAt, raws, earlier, reading>>
  BY DEF GetTimeInterval, NoReading
<1>2. RawTypes' /\ Reads' /\ ReadingTrue' /\ EarlierTrue'
  BY <1>1 DEF RawTypes, Reads, ReadingTrue, EarlierTrue
<1>3. /\ reading \in OkReadings /\ earlier \in OkReadings
      /\ earlier.val <= reading.val /\ earlier.at <= reading.at
      /\ reading.single = reading.at % SingleSize
      /\ earlier.single = earlier.at % SingleSize
  BY <1>1 DEF ReadingTrue, EarlierTrue
<1> DEFINE n == reading.val - earlier.val
           span == reading.at - earlier.at
<1>4. n \in Nat /\ span \in Nat /\ reading.at \in Nat /\ earlier.at \in Nat
  BY <1>3 DEF OkReadings
<1>5. hz \in Nat \ {0}
  BY RawTimesAssumption DEF RawTypes
<1>6. DeltaTicks(reading.val, earlier.val) = n /\ DeltaTicks(earlier.val, reading.val) = n
  BY <1>3 DEF DeltaTicks, OkReadings
<1>7. Quotient(n).s = n \div hz /\ Quotient(n).rem = n % hz
  <2>1. MaxU32 \in Nat
    BY RawTimesAssumption
  <2>2. n <= MaxU32 => n % (MaxU32 + 1) = n
    <3> HIDE DEF n
    <3> QED BY <1>4, <2>1
  <2> QED BY <2>2 DEF Quotient
<1> DEFINE us == Microseconds(n % hz)
           single == SingleMicros(SingleDelta(reading.single, earlier.single))
<1>8. interval' = IF n \div hz > MaxU32 THEN [status |-> "OP_OVERFLOW"]
                  ELSE [status |-> "OP_OK", s |-> n \div hz, us |-> us,
                        single |-> single]
  <2> HIDE DEF n
  <2> QED BY <1>6, <1>7 DEF GetTimeInterval
<1>9. /\ us \in 0 .. Second - 1
      /\ hz % Second = 0 => (n \div hz) * Second + us = (n * Second) \div hz
  <2> HIDE DEF n
  <2> QED BY <1>4, <1>5, MicrosTrue
<1>10. hz % Second = 0 /\ span < SingleSize => single = (span * Second) \div hz
  <2> SUFFICES ASSUME hz % Second = 0, span < SingleSize
               PROVE  single = (span * Second) \div hz
    OBVIOUS
  <2>1. SingleDelta(reading.single, earlier.single) = span
    BY <1>3, <1>4, SingleApart
  <2>2. single = span \div (hz \div Second)
    BY <2>1 DEF SingleMicros
  <2> HIDE DEF span, single
  <2> QED BY <1>4, <1>5, <2>2, MegahertzExact
<1>11. IntervalsTrue'
  <2> HIDE DEF us, single
  <2>1. CASE interval' = [status |-> "OP_OVERFLOW"]
    BY <2>1 DEF IntervalsTrue
  <2>2. CASE interval' = [status |-> "OP_OK", s |-> n \div hz, us |-> us, single |-> single]
    <3>1. interval'.s = n \div hz /\ interval'.us = us /\ interval'.single = single
      BY <2>2
    <3>2. /\ (reading.val - earlier.val)' = n /\ (reading.at - earlier.at)' = span
          /\ hz' = hz
      BY <1>1
    <3> HIDE DEF n, span
    <3> QED BY <1>9, <1>10, <3>1, <3>2 DEF IntervalsTrue
  <2> QED BY <1>8, <2>1, <2>2
<1>12. IntervalTrue'
  BY <1>1, <1>11 DEF IntervalTrue
<1> QED BY <1>2, <1>12

LEMMA RawStep == RawInv /\ [RawNext]_rawVars => RawInv'
<1> SUFFICES ASSUME RawInv, [RawNext]_rawVars PROVE RawInv'
  OBVIOUS
<1>1. CASE UNCHANGED rawVars
  BY <1>1, RestStep DEF rawVars
<1>2. CASE \E hi, lo \in TimerNumbers : ConfigureTimers(hi, lo)
  BY <1>2, RestStep DEF ConfigureTimers
<1>3. CASE InitPeripherals
  BY <1>3, RestStep DEF InitPeripherals
<1>4. CASE NowTooEarly
  BY <1>4, RestStep DEF NowTooEarly
<1>5. CASE ReadRawCount \/ Now \/ Keep \/ GetTimeInterval \/ Elapse
  BY <1>5, ReadStep, NowStep, KeepStep, IntervalStep, ElapseStep
<1> QED BY <1>1, <1>2, <1>3, <1>4, <1>5 DEF RawNext

\* RawInv is an invariant: what is read and kept has been true at a tick of its call.
THEOREM ClockInvariance == RawSpec => []RawInv
<1>1. RawInit => RawInv
  BY RawInitial
<1>2. RawInv /\ [RawNext]_rawVars => RawInv'
  BY RawStep
<1> QED BY <1>1, <1>2, PTL DEF RawSpec

\* Every reading succeeds with a time of its call; every interval has the seconds of its
\* distance and less than a second besides, and is exact for timers in megahertz
\* (TimerRawTime.cpp:73-205; TimerSingleRawTime.cpp:96-127).
THEOREM ClocksAreTrue == RawSpec => []ClocksTrue
<1>1. RawInv => ClocksTrue
  <2> SUFFICES ASSUME RawInv PROVE ReadingsTrue /\ IntervalsTrue
    BY DEF ClocksTrue
  <2>1. ReadingsTrue
    BY DEF RawInv, ReadingTrue, ReadingsTrue, OkReadings
  <2> QED BY <2>1 DEF RawInv, IntervalTrue
<1> QED BY <1>1, ClockInvariance, PTL

-----------------------------------------------------------------------------
(***************************************************************************)
(* Clock trees                                                             *)
(***************************************************************************)
AllTrees == Trees \cup {HeartbeatTree}

\* What ClkTreeAssumption says of a tree, which is true of the heartbeat's.
TreeTyped(t) ==
  /\ {t.ext, t.crystal, t.ref, t.fb, t.out, t.lpf, t.div, t.adc} \subseteq Nat
  /\ t.ext * (t.fb + 1) < FreqSize /\ t.crystal * (t.fb + 1) < FreqSize
  /\ t.src \in Sources /\ t.pll \in {"NONE", "EXTERNAL_CLK", "CRYSTAL_OSC"}

\* What the registers can say of a tree: the part of TreeValid about its shape.
TreeShaped(t) ==
  /\ t \in AllTrees
  /\ t.src = "PLL" <=> t.pll # "NONE"
  /\ t.div \in {1, 2, 4, 8} /\ t.adc \in {1, 2, 4, 8}

SourcesOn(t) == {t.src, t.pll} \cap {"EXTERNAL_CLK", "CRYSTAL_OSC"}

Ctrl0Of(t) == [Ctrl0Base(t, IF t.pll = "NONE" THEN "off" ELSE "on") EXCEPT !.sel = t.src]
Ctrl1Of(t) == [on |-> SourcesOn(t), adc |-> AdcCode(t.adc)]

\* A call in progress: the core runs from the heartbeat, the sources are on, and the
\* PLL is the tree's and, when it is about to be selected, has locked.
CallInv ==
  applying = NotApplying \/
    /\ applying.at \in {"off", "reset", "on", "check", "again", "select"}
    /\ TreeShaped(applying.tree)
    /\ ctrl0.sel = "HEARTBEAT_OSC" /\ ctrl1 = Ctrl1Of(applying.tree)
    /\ applying.tree.pll = "NONE" => applying.at = "select"
    /\ applying.tree.pll # "NONE" /\ applying.at \in {"check", "again", "select"} =>
         ctrl0 = Ctrl0Base(applying.tree, "on")
    /\ applying.tree.pll # "NONE" /\ applying.at = "select" => locked
    /\ applying.at = "again" => slip

\* Between calls the registers are those of the active tree, or of none after a
\* failure, which leaves the core on the heartbeat.
ActiveInv ==
  /\ TreeShaped(activeTree)
  /\ applying = NotApplying =>
       \/ applied = "FAILURE" /\ ctrl0.sel = "HEARTBEAT_OSC"
       \/ ctrl0 = Ctrl0Of(activeTree) /\ ctrl1 = Ctrl1Of(activeTree)

ClkInv ==
  /\ CallInv /\ ActiveInv
  /\ ctrl0.sel = "PLL" => locked

LEMMA TreesTyped == \A t \in AllTrees : TreeTyped(t)
<1>1. \A t \in Trees : TreeTyped(t)
  BY ClkTreeAssumption DEF TreeTyped
<1>2. TreeTyped(HeartbeatTree)
  BY ClkTreeAssumption DEF TreeTyped, HeartbeatTree, Sources
<1> QED BY <1>1, <1>2 DEF AllTrees

LEMMA ClkInitial == ClkInit => ClkInv
<1> SUFFICES ASSUME ClkInit PROVE ClkInv
  OBVIOUS
<1> USE DEF ClkInit
<1>1. TreeShaped(HeartbeatTree)
  BY DEF TreeShaped, AllTrees, HeartbeatTree
<1>2. ctrl0 = Ctrl0Of(HeartbeatTree)
  BY DEF Ctrl0Of, Ctrl0Base, HeartbeatTree, DivCode
<1>3. ctrl1 = Ctrl1Of(HeartbeatTree)
  <2>1. SourcesOn(HeartbeatTree) = {}
    BY DEF SourcesOn, HeartbeatTree
  <2>2. AdcCode(HeartbeatTree.adc) = 0
    BY DEF AdcCode, HeartbeatTree
  <2> QED BY <2>1, <2>2 DEF Ctrl1Of
<1>4. CallInv
  BY DEF CallInv
<1>5. ActiveInv
  BY <1>1, <1>2, <1>3 DEF ActiveInv
<1>6. ctrl0.sel = "HEARTBEAT_OSC"
  OBVIOUS
<1> QED BY <1>4, <1>5, <1>6 DEF ClkInv

LEMMA EnableStep ==
  ASSUME ClkInv, NEW t \in AllTrees, EnableClkSources(t) PROVE ClkInv'
<1> USE DEF ClkInv, EnableClkSources
<1>1. TreeShaped(t)
  BY DEF TreeShaped, TreeValid
<1>2. /\ applying' = [at |-> IF t.pll = "NONE" THEN "select" ELSE "off", tree |-> t]
      /\ applying'.at # "none" /\ applying' # NotApplying
  BY DEF NotApplying
<1>3. CallInv'
  <2>1. ctrl1' = Ctrl1Of(t) /\ ctrl0' = ctrl0 /\ ctrl0.sel = "HEARTBEAT_OSC"
    BY DEF Ctrl1Of, SourcesOn
  <2> QED BY <1>1, <1>2, <2>1 DEF CallInv
<1>4. ActiveInv'
  BY <1>2 DEF ActiveInv
<1> QED BY <1>3, <1>4

LEMMA WritePllStep ==
  ASSUME ClkInv, NEW at, NEW mode, NEW next,
         <<at, mode, next>> \in {<<"off", "off", "reset">>, <<"reset", "reset", "on">>,
                                <<"on", "on", "check">>},
         WritePll(at, mode, next)
  PROVE  ClkInv'
<1> USE DEF ClkInv, WritePll, Applies, ApplyGoto
<1>1. /\ at \in {"off", "reset", "on"} /\ next \in {"reset", "on", "check"}
      /\ next = "check" => mode = "on"
  OBVIOUS
<1>2. applying # NotApplying /\ applying.at = at
  BY <1>1 DEF NotApplying
<1>3. /\ TreeShaped(applying.tree) /\ applying.tree.pll # "NONE"
      /\ ctrl1 = Ctrl1Of(applying.tree)
  BY <1>1, <1>2 DEF CallInv
<1>4. applying'.tree = applying.tree /\ applying'.at = next
  BY <1>2 DEF CallInv
<1>5. ctrl0' = Ctrl0Base(applying.tree, mode) /\ ctrl0'.sel = "HEARTBEAT_OSC"
  BY DEF Ctrl0Base
<1>6. CallInv'
  BY <1>1, <1>3, <1>4, <1>5 DEF CallInv
<1>7. ActiveInv'
  <2>1. applying' # NotApplying
    BY <1>1, <1>4 DEF NotApplying
  <2> QED BY <2>1 DEF ActiveInv
<1> QED BY <1>5, <1>6, <1>7

LEMMA CheckStep == ASSUME ClkInv, CheckLock PROVE ClkInv'
<1> USE DEF ClkInv, CheckLock, Applies, ApplyGoto
<1>1. applying # NotApplying /\ applying.at = "check"
  BY DEF NotApplying
<1>2. /\ applying'.tree = applying.tree
      /\ applying'.at = IF slip' THEN "again" ELSE "select"
      /\ slip' = ~ locked
  BY <1>1 DEF CallInv
<1>3. applying' # NotApplying
  BY <1>2 DEF NotApplying
<1>4. CallInv'
  <2>1. /\ TreeShaped(applying.tree) /\ applying.tree.pll # "NONE"
        /\ ctrl1 = Ctrl1Of(applying.tree) /\ ctrl0 = Ctrl0Base(applying.tree, "on")
        /\ ctrl0.sel = "HEARTBEAT_OSC"
    BY <1>1 DEF CallInv
  <2>2. CASE locked
    <3>1. applying'.at = "select" /\ locked'
      BY <1>2, <2>2
    <3> QED BY <1>2, <2>1, <3>1 DEF CallInv
  <2>3. CASE ~ locked
    <3>1. applying'.at = "again" /\ slip'
      BY <1>2, <2>3
    <3> QED BY <1>2, <2>1, <3>1 DEF CallInv
  <2> QED BY <2>2, <2>3
<1>5. ActiveInv'
  BY <1>3 DEF ActiveInv
<1> QED BY <1>4, <1>5

LEMMA AgainStep == ASSUME ClkInv, CheckAgain PROVE ClkInv'
<1> USE DEF ClkInv, CheckAgain, Applies
<1>1. applying # NotApplying /\ applying.at = "again"
  BY DEF NotApplying
<1>2. slip /\ ctrl0.sel = "HEARTBEAT_OSC"
  BY <1>1 DEF CallInv
<1>3. /\ applied' = "FAILURE" /\ applying' = NotApplying
      /\ UNCHANGED <<ctrl0, ctrl1, locked, slip, activeTree>>
  BY <1>2
<1>4. CallInv' /\ ActiveInv'
  BY <1>2, <1>3 DEF CallInv, ActiveInv
<1> QED BY <1>3, <1>4

LEMMA SelectStep == ASSUME ClkInv, SelectSysclk PROVE ClkInv'
<1> USE DEF ClkInv, SelectSysclk, Applies
<1>1. applying # NotApplying /\ applying.at = "select"
  BY DEF NotApplying
<1> DEFINE t == applying.tree
<1>2. /\ TreeShaped(t) /\ ctrl1 = Ctrl1Of(t)
      /\ t.pll # "NONE" => locked
  BY <1>1 DEF CallInv
<1>3. /\ ctrl0' = Ctrl0Of(t) /\ activeTree' = t /\ applying' = NotApplying
      /\ UNCHANGED <<ctrl1, locked, slip>>
  BY DEF Ctrl0Of
<1>4. ctrl0'.sel = t.src
  BY <1>3 DEF Ctrl0Of, Ctrl0Base
<1>5. ctrl0'.sel = "PLL" => locked'
  BY <1>2, <1>3, <1>4 DEF TreeShaped
<1>6. CallInv' /\ ActiveInv'
  BY <1>2, <1>3 DEF CallInv, ActiveInv
<1> QED BY <1>5, <1>6

LEMMA LockStep == ASSUME ClkInv, PllLocks PROVE ClkInv'
<1> USE DEF ClkInv, PllLocks
<1>1. CallInv'
  BY DEF CallInv
<1>2. ActiveInv'
  BY DEF ActiveInv
<1> QED BY <1>1, <1>2

LEMMA NoClkStep ==
  ASSUME ClkInv, UNCHANGED <<ctrl0, ctrl1, locked, slip, applying, activeTree, applied>>
  PROVE  ClkInv'
  BY DEF ClkInv, CallInv, ActiveInv

LEMMA ClkStep == ClkInv /\ [ClkNext]_clkVars => ClkInv'
<1> SUFFICES ASSUME ClkInv, [ClkNext]_clkVars PROVE ClkInv'
  OBVIOUS
<1>1. CASE UNCHANGED clkVars
  BY <1>1, NoClkStep DEF clkVars
<1>2. ASSUME NEW t \in AllTrees, InvalidTree(t) PROVE ClkInv'
  BY <1>2, NoClkStep DEF InvalidTree
<1>3. ASSUME NEW t \in AllTrees, EnableClkSources(t) PROVE ClkInv'
  BY <1>3, EnableStep
<1>4. CASE PllOff
  <2>1. WritePll("off", "off", "reset")
    BY <1>4 DEF PllOff
  <2> QED BY <2>1, WritePllStep
<1>5. CASE PllReset
  <2>1. WritePll("reset", "reset", "on")
    BY <1>5 DEF PllReset
  <2> QED BY <2>1, WritePllStep
<1>6. CASE PllOn
  <2>1. WritePll("on", "on", "check")
    BY <1>6 DEF PllOn
  <2> QED BY <2>1, WritePllStep
<1>7. CASE CheckLock \/ CheckAgain \/ SelectSysclk \/ PllLocks
  BY <1>7, CheckStep, AgainStep, SelectStep, LockStep
<1> QED BY <1>1, <1>2, <1>3, <1>4, <1>5, <1>6, <1>7 DEF ClkNext, AllTrees

-----------------------------------------------------------------------------
\* Divided by what its code says, a frequency is divided by the divider.
LEMMA CodesSay ==
  ASSUME NEW d \in {1, 2, 4, 8}, NEW f \in Int
  PROVE  Divided(f, DivCode(d)) = f \div d /\ Divided(f, 3 - AdcCode(d)) = f \div d
<1>1. CASE d = 1
  BY <1>1 DEF Divided, DivCode, AdcCode
<1>2. CASE d = 2
  BY <1>2 DEF Divided, DivCode, AdcCode
<1>3. CASE d = 4
  BY <1>3 DEF Divided, DivCode, AdcCode
<1>4. CASE d = 8
  BY <1>4 DEF Divided, DivCode, AdcCode
<1> QED BY <1>1, <1>2, <1>3, <1>4

LEMMA QuotientNoMore ==
  ASSUME NEW n \in Nat, NEW d \in Nat \ {0}
  PROVE  n \div d \in 0 .. n
<1> DEFINE q == n \div d
<1>1. q \in Int /\ n % d \in 0 .. d - 1 /\ n = d * q + (n % d)
  BY Division
<1> DEFINE r == n % d
<1>2. r \in 0 .. d - 1 /\ n = d * q + r
  BY <1>1
<1> HIDE DEF q, r
<1>3. q >= 0
  <2> SUFFICES ASSUME q < 0 PROVE FALSE
    BY <1>1
  <2>1. d * q + d <= d * 0 /\ d * 0 = 0 /\ d * q \in Int
    BY <1>1, Multiples
  <2> QED BY <1>2, <2>1
<1>4. q <= d * q
  <2>1. CASE q = 0
    BY <2>1
  <2>2. CASE q > 0
    <3>1. CASE d = 1
      BY <1>1, <3>1
    <3>2. CASE d # 1
      <4>1. 1 < d /\ d \in Int
        BY <3>2
      <4>2. q * 1 + q <= q * d /\ q * 1 = q /\ q * d = d * q
        BY <1>1, <1>3, <4>1, Multiples
      <4> QED BY <1>1, <2>2, <4>2
    <3> QED BY <3>1, <3>2
  <2> QED BY <1>1, <1>3, <2>1, <2>2
<1>5. d * q \in Int
  BY <1>1
<1>6. q \in 0 .. n
  BY <1>1, <1>2, <1>3, <1>4, <1>5
<1> QED BY <1>6 DEF q

\* No product overflows: the frequency of the PLL is what its dividers say.
LEMMA PllFreqExact ==
  ASSUME NEW t \in AllTrees
  PROVE  PllFreq(t) = ((PllInput(t) \div (t.ref + 1)) * (t.fb + 1)) \div (t.out + 1)
         /\ PllFreq(t) \in Int
<1>1. /\ t.ref + 1 \in Nat \ {0} /\ t.fb + 1 \in Nat \ {0} /\ t.out + 1 \in Nat \ {0}
      /\ PllInput(t) \in Nat /\ PllInput(t) * (t.fb + 1) < FreqSize
  <2>1. TreeTyped(t) /\ FreqSize \in Nat \ {0}
    BY TreesTyped, ClkTreeAssumption
  <2>2. /\ t.ext \in Nat /\ t.crystal \in Nat /\ t.ref \in Nat /\ t.fb \in Nat
        /\ t.out \in Nat
    BY <2>1 DEF TreeTyped
  <2>3. 0 * (t.fb + 1) = 0
    BY <2>2
  <2> QED BY <2>1, <2>2, <2>3 DEF TreeTyped, PllInput
<1> DEFINE x == PllInput(t)
           q == x \div (t.ref + 1)
           m == t.fb + 1
           p == q * m
<1> HIDE DEF x
<1>2. q \in 0 .. x /\ x \in Nat
  BY <1>1, QuotientNoMore DEF x
<1> HIDE DEF q, m
<1>3. m \in Nat \ {0} /\ x * m < FreqSize
  BY <1>1 DEF x, m
<1>4. p \in Nat /\ p <= x * m
  <2>1. CASE q = x
    BY <1>2, <1>3, <2>1
  <2>2. CASE q < x
    <3>1. m * q + m <= m * x
      BY <1>2, <1>3, <2>2, Multiples
    <3>2. m * q = p /\ m * x = x * m /\ p \in Nat
      BY <1>2, <1>3
    <3> HIDE DEF p
    <3> QED BY <1>2, <1>3, <3>1, <3>2
  <2> QED BY <1>2, <2>1, <2>2
<1> HIDE DEF p
<1>5. x * m \in Nat /\ FreqSize \in Nat \ {0}
  BY <1>2, <1>3, ClkTreeAssumption
<1>6. p % FreqSize = p
  BY <1>3, <1>4, <1>5
<1>7. PllFreq(t) = (p % FreqSize) \div (t.out + 1)
  BY DEF PllFreq, p, q, m, x
<1>8. p \div (t.out + 1) \in Int
  BY <1>1, <1>4
<1> QED BY <1>6, <1>7, <1>8 DEF p, q, m, x

LEMMA FrequenciesTrue ==
  ASSUME TreeShaped(activeTree), ctrl0 = Ctrl0Of(activeTree), ctrl1 = Ctrl1Of(activeTree)
  PROVE  LET real == Divided(RealFreq(activeTree), ctrl0.div)
         IN  /\ calcSysclkFreq(activeTree) = real
             /\ AdcSampleFreq(activeTree) = Divided(real, 3 - ctrl1.adc)
             /\ getPeripheralFreq(activeTree, "IRQ_ROUTER") = real
             /\ getTimerFreq(activeTree, 15) = getPeripheralFreq(activeTree, "IOCONFIG")
             /\ getTimerFreq(activeTree, 16) = getPeripheralFreq(activeTree, "WATCHDOG")
<1>0. PICK t \in AllTrees : t = activeTree
  BY DEF TreeShaped
<1>1. /\ TreeTyped(t)
      /\ t.src = "PLL" <=> t.pll # "NONE"
      /\ t.div \in {1, 2, 4, 8} /\ t.adc \in {1, 2, 4, 8}
  BY <1>0, TreesTyped DEF TreeShaped
<1>2. /\ ctrl0.sel = t.src /\ ctrl0.div = DivCode(t.div) /\ ctrl0.pll = t.pll
      /\ t.pll # "NONE" => ctrl0.by = <<t.ref, t.fb, t.out, t.lpf>>
      /\ ctrl1.adc = AdcCode(t.adc)
  BY <1>0 DEF Ctrl0Of, Ctrl0Base, Ctrl1Of
<1> DEFINE base == CASE t.src = "HEARTBEAT_OSC" -> HeartbeatFreq
                     [] t.src = "EXTERNAL_CLK" -> t.ext
                     [] t.src = "PLL" -> PllFreq(t)
                     [] t.src = "CRYSTAL_OSC" -> t.crystal
<1>3. RealFreq(t) = base /\ base \in Int
  <2>0. t.ext \in Int /\ t.crystal \in Int /\ HeartbeatFreq \in Int
    BY <1>1, ClkTreeAssumption DEF TreeTyped
  <2>1. CASE t.src = "HEARTBEAT_OSC"
    BY <1>2, <2>0, <2>1 DEF RealFreq
  <2>2. CASE t.src = "EXTERNAL_CLK"
    BY <1>2, <2>0, <2>2 DEF RealFreq, InputFreq
  <2>3. CASE t.src = "CRYSTAL_OSC"
    BY <1>2, <2>0, <2>3 DEF RealFreq, InputFreq
  <2>4. CASE t.src = "PLL"
    <3>1. t.pll \in {"EXTERNAL_CLK", "CRYSTAL_OSC"}
      BY <1>1, <2>4 DEF TreeTyped
    <3>2. ctrl0.by[1] = t.ref /\ ctrl0.by[2] = t.fb /\ ctrl0.by[3] = t.out
      BY <1>2, <3>1
    <3>3. InputFreq(ctrl0.pll, t) = PllInput(t)
      BY <1>2, <3>1 DEF InputFreq, PllInput
    <3>4. RealFreq(t) = ((PllInput(t) \div (t.ref + 1)) * (t.fb + 1)) \div (t.out + 1)
      BY <1>2, <2>4, <3>2, <3>3 DEF RealFreq
    <3>5. base = PllFreq(t)
      BY <2>4
    <3> HIDE DEF base
    <3> QED BY <3>4, <3>5, PllFreqExact
  <2> QED BY <1>1, <2>1, <2>2, <2>3, <2>4 DEF TreeTyped, Sources
<1>4. calcSysclkFreq(t) = base \div t.div
  BY DEF calcSysclkFreq
<1> HIDE DEF base
<1> DEFINE real == base \div t.div
<1>5. real \in Int
  BY <1>1, <1>3
<1>6. Divided(RealFreq(t), ctrl0.div) = real
  BY <1>1, <1>2, <1>3, CodesSay
<1> HIDE DEF real
<1>7. calcSysclkFreq(t) = real
  BY <1>4 DEF real
<1>8. AdcSampleFreq(t) = Divided(real, 3 - ctrl1.adc)
  BY <1>1, <1>2, <1>5, <1>7, CodesSay DEF AdcSampleFreq
<1>9. getPeripheralFreq(t, "IRQ_ROUTER") = real
  BY <1>7 DEF getPeripheralFreq, SysclkPeripherals, Apb1Peripherals, Apb2Peripherals
<1>10. /\ getTimerFreq(t, 15) = getPeripheralFreq(t, "IOCONFIG")
       /\ getTimerFreq(t, 16) = getPeripheralFreq(t, "WATCHDOG")
  BY DEF getTimerFreq, getPeripheralFreq, SysclkPeripherals, Apb1Peripherals,
         Apb2Peripherals
<1> QED BY <1>0, <1>6, <1>7, <1>8, <1>9, <1>10

\* ClkInv is an invariant: registers and trees agree, call by call.
THEOREM ClkInvariance == ClkSpec => []ClkInv
<1> QED BY ClkInitial, ClkStep, PTL DEF ClkSpec

\* The core's clock always runs, and between calls that have not failed the drivers
\* are told the frequencies that the registers make (ClkTreeVorago.cpp:37-180).
THEOREM ActiveTreeIsTrue == ClkSpec => []ActiveTreeTrue
<1>1. ClkInv => ActiveTreeTrue
  <2> SUFFICES ASSUME ClkInv PROVE ActiveTreeTrue
    OBVIOUS
  <2>1. SourceRuns(ctrl0.sel)
    <3>1. CASE applying # NotApplying
      BY <3>1 DEF ClkInv, CallInv, SourceRuns
    <3>2. CASE applying = NotApplying /\ ctrl0.sel = "HEARTBEAT_OSC"
      BY <3>2 DEF SourceRuns
    <3>3. CASE applying = NotApplying /\ ctrl0.sel # "HEARTBEAT_OSC"
      <4>1. PICK t \in AllTrees : t = activeTree
        BY DEF ClkInv, ActiveInv, TreeShaped
      <4>2. /\ ctrl0 = Ctrl0Of(t) /\ ctrl1 = Ctrl1Of(t)
            /\ t.src = "PLL" <=> t.pll # "NONE"
        BY <3>3, <4>1 DEF ClkInv, ActiveInv, TreeShaped
      <4>3. /\ ctrl0.sel = t.src /\ ctrl0.pll = t.pll /\ ctrl1.on = SourcesOn(t)
            /\ t.pll # "NONE" => ctrl0.mode = "on"
        BY <4>2 DEF Ctrl0Of, Ctrl0Base, Ctrl1Of
      <4>4. t.src \in Sources /\ t.pll \in {"NONE", "EXTERNAL_CLK", "CRYSTAL_OSC"}
        BY TreesTyped DEF TreeTyped
      <4>5. CASE t.src = "PLL"
        BY <4>2, <4>3, <4>4, <4>5 DEF ClkInv, SourceRuns, SourcesOn
      <4>6. CASE t.src # "PLL"
        BY <3>3, <4>3, <4>4, <4>6 DEF SourceRuns, SourcesOn, Sources
      <4> QED BY <4>5, <4>6
    <3> QED BY <3>1, <3>2, <3>3
  <2>2. CASE applied # "FAILURE" /\ applying = NotApplying
    <3>1. /\ TreeShaped(activeTree) /\ ctrl0 = Ctrl0Of(activeTree)
          /\ ctrl1 = Ctrl1Of(activeTree)
      BY <2>2 DEF ClkInv, ActiveInv
    <3> QED BY <2>1, <3>1, FrequenciesTrue DEF ActiveTreeTrue
  <2> QED BY <2>1, <2>2 DEF ActiveTreeTrue
<1> QED BY <1>1, ClkInvariance, PTL

--------------------------------------------------------------------------------
(***************************************************************************)
(* Pins, configured by the main loop and a handler, with any settings      *)
(***************************************************************************)
Settings ==
  [dir : {"in", "out"}, pulse : {"none", "high", "low"}, delay : 0 .. 3,
   irq : {"falling", "lowLevel", "either", "rising", "highLevel"}, direct : BOOLEAN,
   pull : {"none", "up", "down"}, readBack : BOOLEAN]

\* A function the chip has on the pin.
Routable(f, p) ==
  \/ \E r \in RowsOf(p) : r.function = f
  \/ f = EbiFunction /\ ~ \E r \in RowsOf(p) : r.funsel = 1

Functions(p) ==
  {s \in [function : {r.function : r \in RowsOf(p)} \cup {EbiFunction},
          inverted : BOOLEAN] : Routable(s.function, p)}
SettingsOf(p) == Settings \cup Functions(p)

(***************************************************************************)
(* The tables and the steps                                                *)
(***************************************************************************)
Rows(port) == RowsAToD(port) \cup RowsEToG(port)
Unambiguous(rows) ==
  \A r, q \in rows :
     r.pin = q.pin /\ (r.funsel = q.funsel \/ r.function = q.function) => r = q

\* ioconfig_rows has one signal for each value of FUNSEL of a pin, and once.
LEMMA Tables == \A port : Unambiguous(Rows(port))
<1> SUFFICES ASSUME NEW port PROVE Unambiguous(Rows(port))
  OBVIOUS
<1>1. CASE port = "A"
  BY <1>1, SMTT(60) DEF Unambiguous, Rows, RowsAToD, RowsEToG, Row, SpiBus, Uart
<1>2. CASE port = "B"
  BY <1>2, SMTT(60) DEF Unambiguous, Rows, RowsAToD, RowsEToG, Row, SpiBus, Uart
<1>3. CASE port = "C"
  BY <1>3, SMTT(60) DEF Unambiguous, Rows, RowsAToD, RowsEToG, Row, SpiBus, Uart
<1>4. CASE port = "D"
  BY <1>4, SMTT(60) DEF Unambiguous, Rows, RowsAToD, RowsEToG, Row, SpiBus, Uart
<1>5. CASE port = "E"
  BY <1>5, SMTT(60) DEF Unambiguous, Rows, RowsAToD, RowsEToG, Row, SpiBus, Uart
<1>6. CASE port = "F"
  BY <1>6, SMTT(60) DEF Unambiguous, Rows, RowsAToD, RowsEToG, Row, SpiBus, Uart
<1>7. CASE port = "G"
  BY <1>7, SMTT(60) DEF Unambiguous, Rows, RowsAToD, RowsEToG, Row, SpiBus, Uart
<1>8. CASE port \notin {"A", "B", "C", "D", "E", "F", "G"}
  BY <1>8, SMTT(60) DEF Unambiguous, Rows, RowsAToD, RowsEToG
<1> QED
  BY <1>1, <1>2, <1>3, <1>4, <1>5, <1>6, <1>7, <1>8

LEMMA Sels ==
  \A port : \A r \in Rows(port) : r.funsel \in 1 .. 3 /\ r.function # EbiFunction
  BY SMTT(60) DEF Rows, RowsAToD, RowsEToG, Row, SpiBus, Uart, EbiFunction

\* No pin of the external bus has a row for FUNSEL 1, which is the bus's.
LEMMA EbiFree == \A i \in 1 .. 46 : \A r \in RowsOf(EbiPins[i]) : r.funsel # 1
<1> SUFFICES ASSUME NEW i \in 1 .. 46, NEW r \in RowsOf(EbiPins[i]) PROVE r.funsel # 1
  OBVIOUS
<1> DEFINE p == EbiPins[i]
<1>1. \/ p[1] = "D" \/ p[1] = "E"
      \/ p[1] = "C" /\ p[2] \in 2 .. 15
      \/ p[1] = "F" /\ p[2] \in 0 .. 1
  BY DEF EbiPins
<1>2. r \in RowsAToD(p[1]) \cup RowsEToG(p[1]) /\ r.pin = p
  BY DEF RowsOf, Port
<1> HIDE DEF p
<1>3. CASE p[1] = "C" /\ p[2] \in 2 .. 15
  BY <1>2, <1>3 DEF RowsAToD, RowsEToG, Row, SpiBus, Uart
<1>4. CASE p[1] = "D"
  BY <1>2, <1>4 DEF RowsAToD, RowsEToG, Row, SpiBus, Uart
<1>5. CASE p[1] = "E"
  BY <1>2, <1>5 DEF RowsAToD, RowsEToG, Row, SpiBus, Uart
<1>6. CASE p[1] = "F" /\ p[2] \in 0 .. 1
  BY <1>2, <1>6 DEF RowsAToD, RowsEToG, Row, SpiBus, Uart
<1> QED
  BY <1>1, <1>3, <1>4, <1>5, <1>6

\* The value FunselFor finds is not the general pin's, and routes the signal asked for.
LEMMA Routes ==
  ASSUME NEW p, NEW f, Routable(f, p)
  PROVE  FunselFor(f, p) # 0 /\ SignalAt(p, FunselFor(f, p)) = f
<1>1. \A r \in RowsOf(p) : r \in Rows(Port(p)) /\ r.pin = p
  BY DEF RowsOf, Rows
<1>2. \A r, q \in RowsOf(p) : r.funsel = q.funsel \/ r.function = q.function => r = q
  BY <1>1, Tables DEF Unambiguous
<1>3. \A r \in RowsOf(p) : r.funsel # 0 /\ r.function # EbiFunction
  BY <1>1, Sels
<1>4. CASE f = EbiFunction
  BY <1>3, <1>4 DEF Routable, FunselFor, SignalAt
<1>5. CASE f # EbiFunction
  <2> DEFINE r == CHOOSE r \in RowsOf(p) : r.function = f
             q == CHOOSE q \in RowsOf(p) : q.funsel = r.funsel
  <2>1. r \in RowsOf(p) /\ r.function = f
    BY <1>5 DEF Routable
  <2>2. FunselFor(f, p) = r.funsel
    BY <1>5 DEF FunselFor
  <2> HIDE DEF r
  <2>3. q \in RowsOf(p) /\ q.funsel = r.funsel
    BY <2>1
  <2>4. SignalAt(p, r.funsel) = q.function
    BY <2>1 DEF SignalAt
  <2> HIDE DEF q
  <2> QED
    BY <1>2, <1>3, <2>1, <2>2, <2>3, <2>4
<1> QED
  BY <1>4, <1>5

\* The steps one by one.
LEMMA GpioSteps ==
  ASSUME NEW s, AsGpio(s)
  PROVE  /\ Len(Steps(s)) = 16
         /\ Steps(s)[1] = "seeIo" /\ Steps(s)[2] = "io" /\ Steps(s)[3] = "seePort"
         /\ Steps(s)[4] = "port" /\ Steps(s)[5] = "word" /\ Steps(s)[6] = "seePort"
         /\ Steps(s)[7] = "port"
         /\ \A i \in 1 .. 9 : Steps(s)[7 + i] = PortRegisters[i]
         /\ \A i \in 8 .. 16 : Steps(s)[i] = PortRegisters[i - 7]
<1> DEFINE a == <<"seeIo", "io", "seePort", "port", "word", "seePort", "port">>
           b == PortRegisters
           S == {a[i] : i \in 1 .. 7} \cup {b[i] : i \in 1 .. 9}
<1>1. /\ a[1] = "seeIo" /\ a[2] = "io" /\ a[3] = "seePort" /\ a[4] = "port"
      /\ a[5] = "word" /\ a[6] = "seePort" /\ a[7] = "port"
  OBVIOUS
<1>2. Len(a) = 7 /\ a \in [1 .. 7 -> {a[i] : i \in 1 .. 7}]
  OBVIOUS
<1>3. Len(b) = 9 /\ b \in [1 .. 9 -> {b[i] : i \in 1 .. 9}]
  BY DEF PortRegisters
<1>4. Steps(s) = a \o b
  BY DEF Steps
<1> HIDE DEF a, b
<1>5. a \in [1 .. 7 -> S] /\ b \in [1 .. 9 -> S]
  BY <1>2, <1>3
<1> HIDE DEF S
<1>6. a \in Seq(S) /\ b \in Seq(S)
  <2>1. \A n \in Nat : \A f \in [1 .. n -> S] : f \in Seq(S)
    BY SeqDef
  <2>2. 7 \in Nat /\ 9 \in Nat
    OBVIOUS
  <2> QED
    BY <1>5, <2>1, <2>2, Zenon
<1>7. /\ Len(Steps(s)) = 16
      /\ \A i \in 1 .. 7 + 9 : Steps(s)[i] = IF i <= 7 THEN a[i] ELSE b[i - 7]
  <2>1. /\ Len(a \o b) = Len(a) + Len(b)
        /\ \A i \in 1 .. Len(a) + Len(b) :
             (a \o b)[i] = IF i <= Len(a) THEN a[i] ELSE b[i - Len(a)]
    BY <1>6, ConcatProperties
  <2>2. Len(a) = 7 /\ Len(b) = 9
    BY <1>2, <1>3
  <2>3. 7 + 9 = 16
    OBVIOUS
  <2> QED
    BY <1>4, <2>1, <2>2, <2>3, Zenon
<1>8. \A i \in 1 .. 7 : Steps(s)[i] = a[i]
  BY <1>7
<1>9. \A i \in 8 .. 16 : Steps(s)[i] = b[i - 7]
  BY <1>7
<1>10. \A i \in 1 .. 9 : Steps(s)[7 + i] = b[i]
  <2>1. \A i \in 1 .. 9 : 7 + i \in 8 .. 16 /\ 7 + i - 7 = i
    OBVIOUS
  <2> QED
    BY <1>9, <2>1
<1>11. \A i \in {1, 2, 3, 4, 5, 6, 7} : Steps(s)[i] = a[i]
  BY <1>8
<1>12. Len(Steps(s)) = 16
  BY <1>7
<1> QED
  BY <1>1, <1>9, <1>10, <1>11, <1>12 DEF b

LEMMA FunctionSteps ==
  ASSUME NEW s, ~ AsGpio(s)
  PROVE  /\ Len(Steps(s)) = 3
         /\ Steps(s)[1] = "seeIo" /\ Steps(s)[2] = "io" /\ Steps(s)[3] = "word"
BY DEF Steps

\* What the steps of a call leave behind.
Done(step, p, s) ==
  /\ step = "port" => Port(p) \in clocked \cup clockLost
  /\ step = "word" => word[p] = Word(p, s)
  /\ \A i \in 1 .. 9 : step = PortRegisters[i] =>
                         (p \in regs[PortRegisters[i]] <=> BitsOf(s)[PortRegisters[i]])

Configured(p, s) == \A i \in 1 .. Len(Steps(s)) : Done(Steps(s)[i], p, s)

PinsTypes ==
  /\ DOMAIN call = 0 .. 1
  /\ DOMAIN word = UsedPins /\ DOMAIN askedAs = UsedPins /\ DOMAIN level = UsedPins
  /\ DOMAIN regs = {PortRegisters[i] : i \in 1 .. 9}
  /\ \A p \in UsedPins : askedAs[p] # Unasked => askedAs[p] \in SettingsOf(p)
  /\ \A p \in UsedPins : level[p] \in {"any", "high", "low"}

\* The clocks that a call has turned on so far are among those of a set.
Ensured(k, on) ==
  /\ k.step > 2 => "io" \in on
  /\ k.step > 4 => Port(k.pins[1]) \in on

\* A call in progress: which pins it has still to configure, what it has done, and that
\* what it has seen of the clocks, which a handler may have added to since, has its own.
Calling(c, k) ==
  /\ DOMAIN k = {"pins", "as", "step", "seen"}
  /\ k.pins \in Seq(UsedPins) /\ k.pins # << >>
  /\ \A i \in DOMAIN k.pins : k.as \in SettingsOf(k.pins[i])
  /\ k.step \in 1 .. Len(Steps(k.as))
  /\ Ensured(k, clocked)
  /\ Steps(k.as)[k.step] \in {"io", "port"} =>
       /\ k.seen \subseteq clocked /\ Ensured(k, k.seen)
       /\ c = 1 => k.seen = clocked
  /\ \A i \in 1 .. k.step - 1 : Done(Steps(k.as)[i], k.pins[1], k.as)
  /\ askedAs[k.pins[1]] = k.as

\* The calls of the two contexts are on different ports.
CallsApart ==
  \A i \in DOMAIN call[0].pins, j \in DOMAIN call[1].pins :
    Port(call[0].pins[i]) # Port(call[1].pins[j])

LevelsKept ==
  \A p \in UsedPins : level[p] # "any" =>
    /\ Port(p) \in clocked \cup clockLost
    /\ Port(p) \notin clockLost => (p \in latch <=> level[p] = "high")

PinsInv ==
  /\ PinsTypes
  /\ \A c \in 0 .. 1 : Configuring(c) => Calling(c, call[c])
  /\ CallsApart
  /\ \A p \in UsedPins :
       askedAs[p] # Unasked /\ ~ InProgress(p) => Configured(p, askedAs[p])
  /\ LevelsKept

(***************************************************************************)
(* What a pin is when every step of its call has been done                 *)
(***************************************************************************)
LEMMA SettingFields ==
  ASSUME NEW s \in Settings
  PROVE  /\ AsGpio(s)
         /\ s.dir \in {"in", "out"} /\ s.pulse \in {"none", "high", "low"}
         /\ s.delay \in 0 .. 3 /\ s.direct \in BOOLEAN /\ s.pull \in {"none", "up", "down"}
         /\ s.irq \in {"falling", "lowLevel", "either", "rising", "highLevel"}
         /\ s.readBack \in BOOLEAN
         /\ s = [dir |-> s.dir, pulse |-> s.pulse, delay |-> s.delay, irq |-> s.irq,
                 direct |-> s.direct, pull |-> s.pull, readBack |-> s.readBack]
BY DEF Settings, AsGpio

LEMMA FunctionFields ==
  ASSUME NEW p, NEW s \in Functions(p)
  PROVE  /\ ~ AsGpio(s) /\ Routable(s.function, p)
         /\ s = [function |-> s.function, inverted |-> s.inverted]
BY DEF Functions, AsGpio

\* What the steps are numbered from 1 to.
LEMMA StepNumbers ==
  ASSUME NEW s
  PROVE  /\ AsGpio(s) => 1 .. Len(Steps(s)) = 1 .. 16
         /\ ~ AsGpio(s) => 1 .. Len(Steps(s)) = 1 .. 3
<1>1. AsGpio(s) => Len(Steps(s)) = 16
  BY GpioSteps, Zenon
<1>2. ~ AsGpio(s) => Len(Steps(s)) = 3
  BY FunctionSteps, Zenon
<1> QED
  BY <1>1, <1>2, Zenon

LEMMA RegistersDone ==
  ASSUME NEW p, NEW s, AsGpio(s), Configured(p, s)
  PROVE  /\ word[p] = Word(p, s)
         /\ \A i \in 1 .. 9 :
              p \in regs[PortRegisters[i]] <=> BitsOf(s)[PortRegisters[i]]
<1>1. word[p] = Word(p, s)
  <2>1. Steps(s)[5] = "word"
    BY GpioSteps, Zenon
  <2>2. 5 \in 1 .. 16
    OBVIOUS
  <2>3. 5 \in 1 .. Len(Steps(s))
    BY <2>2, StepNumbers, Zenon
  <2> QED
    BY <2>1, <2>3 DEF Configured, Done
<1>2. ASSUME NEW i \in 1 .. 9
      PROVE  p \in regs[PortRegisters[i]] <=> BitsOf(s)[PortRegisters[i]]
  <2>1. 7 + i \in 1 .. 16
    OBVIOUS
  <2>2. 7 + i \in 1 .. Len(Steps(s))
    BY <2>1, StepNumbers, Zenon
  <2>3. Steps(s)[7 + i] = PortRegisters[i]
    BY GpioSteps, Zenon
  <2>4. Done(PortRegisters[i], p, s)
    BY <2>2, <2>3, Zenon DEF Configured
  <2> QED
    BY <2>4 DEF Done
<1> QED
  BY <1>1, <1>2

LEMMA MeansSetting ==
  ASSUME NEW p, NEW s \in Settings, Configured(p, s)
  PROVE  IF s.irq = "either" THEN [Meaning(p) EXCEPT !.irq = "either"] = s
         ELSE Meaning(p) = s
<1>1. /\ word[p] = Word(p, s)
      /\ \A i \in 1 .. 9 :
           p \in regs[PortRegisters[i]] <=> BitsOf(s)[PortRegisters[i]]
  BY SettingFields, RegistersDone
<1>2. word[p].funsel = 0 /\ word[p].pull = s.pull /\ word[p].readBack = s.readBack
  BY <1>1, SettingFields DEF Word, NoFunction
<1>3. /\ p \in regs["dir"] <=> BitsOf(s).dir
      /\ p \in regs["pulse"] <=> BitsOf(s).pulse
      /\ p \in regs["pulsebase"] <=> BitsOf(s).pulsebase
      /\ p \in regs["delay1"] <=> BitsOf(s).delay1
      /\ p \in regs["delay2"] <=> BitsOf(s).delay2
      /\ p \in regs["sen"] <=> BitsOf(s).sen
      /\ p \in regs["edge"] <=> BitsOf(s).edge
      /\ p \in regs["evt"] <=> BitsOf(s).evt
      /\ p \in regs["enb"] <=> BitsOf(s).enb
  BY <1>1 DEF PortRegisters
<1>4. (IF p \in regs["dir"] THEN "out" ELSE "in") = s.dir
  BY <1>3, SettingFields DEF BitsOf
<1>5. (IF ~ (p \in regs["pulse"]) THEN "none"
       ELSE IF p \in regs["pulsebase"] THEN "low" ELSE "high") = s.pulse
  <2>1. /\ p \in regs["pulse"] <=> Bit(PulseValue[s.pulse], 1)
        /\ p \in regs["pulsebase"] <=> Bit(PulseValue[s.pulse], 2)
    BY <1>3 DEF BitsOf
  <2>2. s.pulse \in {"none", "high", "low"}
    BY SettingFields
  <2>3. PulseValue["none"] = 0 /\ PulseValue["high"] = 1 /\ PulseValue["low"] = 3
    BY DEF PulseValue
  <2> QED
    BY <2>1, <2>2, <2>3 DEF Bit
<1>6. (IF p \in regs["delay1"] THEN 1 ELSE 0) + (IF p \in regs["delay2"] THEN 2 ELSE 0)
        = s.delay
  <2>1. /\ p \in regs["delay1"] <=> Bit(s.delay, 1)
        /\ p \in regs["delay2"] <=> Bit(s.delay, 2)
    BY <1>3 DEF BitsOf
  <2>2. s.delay \in {0, 1, 2, 3}
    BY SettingFields
  <2> QED
    BY <2>1, <2>2 DEF Bit
<1>7. s.irq # "either" =>
        IrqMeant(p \in regs["sen"], p \in regs["edge"], p \in regs["evt"]) = s.irq
  <2> SUFFICES ASSUME s.irq # "either"
               PROVE  IrqMeant(p \in regs["sen"], p \in regs["edge"], p \in regs["evt"])
                        = s.irq
    OBVIOUS
  <2>1. /\ p \in regs["sen"] <=> Bit(IrqValue[s.irq], 1)
        /\ p \in regs["edge"] <=> Bit(IrqValue[s.irq], 2)
        /\ p \in regs["evt"] <=> Bit(IrqValue[s.irq], 4)
    BY <1>3 DEF BitsOf
  <2>2. s.irq \in {"falling", "lowLevel", "rising", "highLevel"}
    BY SettingFields
  <2>3. /\ IrqValue["falling"] = 0 /\ IrqValue["lowLevel"] = 1
        /\ IrqValue["rising"] = 4 /\ IrqValue["highLevel"] = 5
    BY DEF IrqValue
  <2> QED
    BY <2>1, <2>2, <2>3 DEF Bit, IrqMeant
<1>8. (p \in regs["enb"]) = s.direct
  <2>1. p \in regs["enb"] <=> s.direct
    BY <1>3 DEF BitsOf
  <2> QED
    BY <2>1, SettingFields
<1>9. Meaning(p) =
        [dir |-> IF p \in regs["dir"] THEN "out" ELSE "in",
         pulse |-> IF ~ (p \in regs["pulse"]) THEN "none"
                   ELSE IF p \in regs["pulsebase"] THEN "low" ELSE "high",
         delay |-> (IF p \in regs["delay1"] THEN 1 ELSE 0)
                     + (IF p \in regs["delay2"] THEN 2 ELSE 0),
         irq |-> IrqMeant(p \in regs["sen"], p \in regs["edge"], p \in regs["evt"]),
         direct |-> p \in regs["enb"],
         pull |-> word[p].pull, readBack |-> word[p].readBack]
  BY <1>2 DEF Meaning
<1>10. Meaning(p) =
         [dir |-> s.dir, pulse |-> s.pulse, delay |-> s.delay,
          irq |-> IrqMeant(p \in regs["sen"], p \in regs["edge"], p \in regs["evt"]),
          direct |-> s.direct, pull |-> s.pull, readBack |-> s.readBack]
  BY <1>2, <1>4, <1>5, <1>6, <1>8, <1>9
<1> QED
  BY <1>7, <1>10, SettingFields

LEMMA MeansFunction ==
  ASSUME NEW p, NEW s \in Functions(p), Configured(p, s)
  PROVE  Meaning(p) = s
<1>1. 3 \in 1 .. Len(Steps(s)) /\ Steps(s)[3] = "word"
  <2>1. ~ AsGpio(s)
    BY FunctionFields
  <2>2. 3 \in 1 .. 3
    OBVIOUS
  <2> QED
    BY <2>1, <2>2, StepNumbers, FunctionSteps, Zenon
<1>2. word[p] = Word(p, s)
  BY <1>1 DEF Configured, Done
<1>3. word[p].funsel = FunselFor(s.function, p) /\ word[p].inverted = s.inverted
  BY <1>2, FunctionFields DEF Word, NoFunction
<1>4. /\ FunselFor(s.function, p) # 0
      /\ SignalAt(p, FunselFor(s.function, p)) = s.function
  BY FunctionFields, Routes
<1>5. Meaning(p) = [function |-> s.function, inverted |-> s.inverted]
  BY <1>3, <1>4 DEF Meaning
<1> QED
  BY <1>5, FunctionFields

(***************************************************************************)
(* The pins of the external bus that the program uses                      *)
(***************************************************************************)
\* A set of natural numbers has a least element.
LEMMA LeastOfPins ==
  ASSUME NEW T, T \subseteq Nat, T # {}
  PROVE  \E m \in T : \A k \in T : m <= k
<1> DEFINE R == {ss \in Nat \X Nat : ss[1] < ss[2]}
<1>1. IsWellFoundedOn(R, Nat)
  BY NatLessThanWellFounded DEF OpToRel
<1> HIDE DEF R
<1>2. PICK m \in T : \A y \in T : ~ (<<y, m>> \in R)
  BY <1>1, WFMin
<1>3. \A y \in T : ~ (y < m)
  BY <1>2 DEF R
<1> QED
  BY <1>3

\* Induction up to the number of the bus's pins.
LEMMA PinInduction ==
  ASSUME NEW G, 0 \in G, \A n \in 1 .. 46 : n - 1 \in G => n \in G
  PROVE  \A n \in 0 .. 46 : n \in G
<1> DEFINE T == (0 .. 46) \ G
<1>1. SUFFICES ASSUME T # {} PROVE FALSE
  OBVIOUS
<1>2. T \subseteq Nat
  OBVIOUS
<1>3. PICK m \in T : \A k \in T : m <= k
  BY <1>1, <1>2, LeastOfPins
<1>4. m \in 1 .. 46 /\ m \notin G
  OBVIOUS
<1>5. m - 1 \in G
  <2>1. m - 1 \notin T
    BY <1>3, <1>4
  <2> QED
    BY <1>4, <2>1
<1> QED
  BY <1>4, <1>5

\* What the first n pins add, if g has it for fewer.
UsedNext(g, n) ==
  IF n = 0 THEN << >>
  ELSE IF EbiPins[n] \in UsedPins THEN Append(g[n - 1], EbiPins[n])
  ELSE g[n - 1]

LEMMA UsedExists == \E g : g = [n \in 0 .. 46 |-> UsedNext(g, n)]
<1> DEFINE Upto(m, g) == g = [n \in 0 .. m |-> UsedNext(g, n)]
           G == {m \in 0 .. 46 : \E g : Upto(m, g)}
<1>1. 0 \in G
  <2> DEFINE g == [n \in 0 .. 0 |-> << >>]
  <2>1. \A n \in 0 .. 0 : UsedNext(g, n) = << >>
    BY DEF UsedNext
  <2>2. Upto(0, g)
    BY <2>1
  <2> QED
    BY <2>2
<1>2. ASSUME NEW m \in 1 .. 46, m - 1 \in G PROVE m \in G
  <2>1. PICK g : Upto(m - 1, g)
    BY <1>2
  <2> DEFINE h == [n \in 0 .. m |-> UsedNext(g, n)]
  <2>2. \A n \in 0 .. m - 1 : g[n] = UsedNext(g, n)
    BY <2>1, Zenon
  <2>3. \A n \in 0 .. m - 1 : h[n] = g[n]
    BY <2>2
  <2>4. \A n \in 0 .. m : UsedNext(g, n) = UsedNext(h, n)
    <3> SUFFICES ASSUME NEW n \in 0 .. m PROVE UsedNext(g, n) = UsedNext(h, n)
      OBVIOUS
    <3>1. n # 0 => n - 1 \in 0 .. m - 1
      OBVIOUS
    <3> HIDE DEF h
    <3>2. n # 0 => g[n - 1] = h[n - 1]
      BY <2>3, <3>1
    <3> QED
      BY <3>2 DEF UsedNext
  <2>5. Upto(m, h)
    BY <2>4
  <2> HIDE DEF h, Upto
  <2>6. m \in 0 .. 46
    OBVIOUS
  <2> QED
    BY <2>5, <2>6
<1> HIDE DEF G
<1>3. 46 \in G
  BY <1>1, <1>2, PinInduction
<1> QED
  BY <1>3 DEF G

LEMMA UsedAt == \A n \in 0 .. 46 : UsedAmong[n] = UsedNext(UsedAmong, n)
<1>1. UsedAmong = CHOOSE g : g = [n \in 0 .. 46 |-> UsedNext(g, n)]
  BY Zenon DEF UsedAmong, UsedNext
<1>2. UsedAmong = [n \in 0 .. 46 |-> UsedNext(UsedAmong, n)]
  BY <1>1, UsedExists, Zenon
<1> QED
  BY <1>2, Zenon

LEMMA EbiPinsUsed ==
  /\ UsedEbiPins \in Seq(UsedPins)
  /\ \A i \in DOMAIN UsedEbiPins : \E j \in 1 .. 46 : UsedEbiPins[i] = EbiPins[j]
<1> DEFINE S == {p \in UsedPins : \E j \in 1 .. 46 : p = EbiPins[j]}
           G == {n \in 0 .. 46 : UsedAmong[n] \in Seq(S)}
<1>1. 0 \in G
  <2>1. << >> \in Seq(S)
    OBVIOUS
  <2>2. UsedAmong[0] = << >>
    BY UsedAt DEF UsedNext
  <2> HIDE DEF S
  <2>3. UsedAmong[0] \in Seq(S)
    BY <2>1, <2>2, Zenon
  <2>4. 0 \in 0 .. 46
    OBVIOUS
  <2> QED
    BY <2>3, <2>4, Zenon
<1>2. ASSUME NEW n \in 1 .. 46, n - 1 \in G PROVE n \in G
  <2>1. UsedAmong[n] = UsedNext(UsedAmong, n)
    <3>1. n \in 0 .. 46
      OBVIOUS
    <3> QED
      BY <3>1, UsedAt, Zenon
  <2>2. UsedAmong[n] = IF EbiPins[n] \in UsedPins
                       THEN Append(UsedAmong[n - 1], EbiPins[n])
                       ELSE UsedAmong[n - 1]
    BY <2>1 DEF UsedNext
  <2>3. EbiPins[n] \in UsedPins => EbiPins[n] \in S
    OBVIOUS
  <2>4. UsedAmong[n - 1] \in Seq(S)
    BY <1>2
  <2> HIDE DEF S
  <2>5. UsedAmong[n] \in Seq(S)
    BY <2>2, <2>3, <2>4
  <2>6. n \in 0 .. 46
    OBVIOUS
  <2> QED
    BY <2>5, <2>6, Zenon
<1> HIDE DEF G
<1>3. 46 \in G
  BY <1>1, <1>2, PinInduction
<1>4. UsedEbiPins \in Seq(S)
  BY <1>3 DEF G, UsedEbiPins
<1>5. UsedEbiPins \in Seq(UsedPins) /\ \A i \in DOMAIN UsedEbiPins : UsedEbiPins[i] \in S
  BY <1>4
<1> QED
  BY <1>5

LEMMA EbiRoutable == \A j \in 1 .. 46 : Routable(EbiFunction, EbiPins[j])
  BY EbiFree DEF Routable

LEMMA EbiSettings ==
  \A i \in DOMAIN UsedEbiPins :
     /\ [function |-> EbiFunction, inverted |-> FALSE] \in SettingsOf(UsedEbiPins[i])
     /\ InputSetting \in SettingsOf(UsedEbiPins[i])
<1>1. InputSetting \in Settings
  BY DEF InputSetting, Settings
<1>2. \A p : Routable(EbiFunction, p) =>
               [function |-> EbiFunction, inverted |-> FALSE] \in Functions(p)
  BY DEF Functions
<1> QED
  BY <1>1, <1>2, EbiPinsUsed, EbiRoutable DEF SettingsOf

(***************************************************************************)
(* The steps of a call                                                     *)
(***************************************************************************)
StepKinds ==
  {"seeIo", "io", "seePort", "port", "word"} \cup {PortRegisters[j] : j \in 1 .. 9}

LEMMA RegisterNames ==
  \A j \in 1 .. 9 : PortRegisters[j] \notin {"seeIo", "io", "seePort", "port", "word"}
<1>1. \A j \in 1 .. 9 : j \in {1, 2, 3, 4, 5, 6, 7, 8, 9}
  OBVIOUS
<1> DEFINE names == {"dir", "pulse", "pulsebase", "delay1", "delay2", "sen", "edge",
                     "evt", "enb"}
<1>2. /\ PortRegisters[1] \in names /\ PortRegisters[2] \in names
      /\ PortRegisters[3] \in names /\ PortRegisters[4] \in names
      /\ PortRegisters[5] \in names /\ PortRegisters[6] \in names
      /\ PortRegisters[7] \in names /\ PortRegisters[8] \in names
      /\ PortRegisters[9] \in names
  BY DEF PortRegisters
<1>3. \A n \in names : n \notin {"seeIo", "io", "seePort", "port", "word"}
  OBVIOUS
<1> HIDE DEF names
<1> QED
  BY <1>1, <1>2, <1>3

LEMMA GpioOrder ==
  ASSUME NEW f, NEW i \in 1 .. 16,
         f[1] = "seeIo", f[2] = "io", f[3] = "seePort", f[4] = "port",
         f[5] = "word", f[6] = "seePort", f[7] = "port",
         \A n \in 8 .. 16 : \E j \in 1 .. 9 : f[n] = PortRegisters[j]
  PROVE  /\ f[i] \in StepKinds
         /\ f[i] = "word" => i > 2
         /\ (\E j \in 1 .. 9 : f[i] = PortRegisters[j]) => i > 4
         /\ (i < 16 /\ f[i + 1] \in {"io", "port"}) => f[i] \in {"seeIo", "seePort"}
<1>1. CASE i \in {1, 2, 3, 4, 5, 6}
  BY <1>1, RegisterNames DEF StepKinds
<1>2. CASE i = 7
  <2>1. f[8] \notin {"io", "port"}
    BY RegisterNames
  <2> QED
    BY <1>2, <2>1 DEF StepKinds
<1>3. CASE i \in 8 .. 15
  <2>1. f[i] \in StepKinds
    BY <1>3 DEF StepKinds
  <2>2. i + 1 \in 8 .. 16 /\ i > 4
    BY <1>3
  <2>3. f[i + 1] \notin {"io", "port"}
    BY <2>2, RegisterNames
  <2> QED
    BY <2>1, <2>2, <2>3
<1>4. CASE i = 16
  BY <1>4 DEF StepKinds
<1> QED
  BY <1>1, <1>2, <1>3, <1>4

LEMMA FunctionOrder ==
  ASSUME NEW f, NEW i \in 1 .. 3, f[1] = "seeIo", f[2] = "io", f[3] = "word"
  PROVE  /\ f[i] \in StepKinds
         /\ f[i] = "word" => i > 2
         /\ (\E j \in 1 .. 9 : f[i] = PortRegisters[j]) => i > 4
         /\ (i < 3 /\ f[i + 1] \in {"io", "port"}) => f[i] \in {"seeIo", "seePort"}
<1>1. i \in {1, 2, 3}
  OBVIOUS
<1> QED
  BY <1>1, RegisterNames DEF StepKinds

\* Clocks are on before what they clock is written, and are seen just before they
\* are written.
LEMMA StepOrder ==
  ASSUME NEW s, NEW i, i \in 1 .. Len(Steps(s))
  PROVE  /\ Steps(s)[1] = "seeIo" /\ Len(Steps(s)) \in {3, 16} /\ Steps(s)[2] = "io"
         /\ Steps(s)[i] \in StepKinds
         /\ i = 4 => Steps(s)[4] = "port"
         /\ Steps(s)[i] = "word" => i > 2
         /\ (\E j \in 1 .. 9 : Steps(s)[i] = PortRegisters[j]) => i > 4
         /\ (i < Len(Steps(s)) /\ Steps(s)[i + 1] \in {"io", "port"}) =>
              Steps(s)[i] \in {"seeIo", "seePort"}
<1>1. CASE AsGpio(s)
  <2>1. Len(Steps(s)) = 16 /\ Steps(s)[1] = "seeIo" /\ Steps(s)[2] = "io"
        /\ Steps(s)[4] = "port"
    BY <1>1, GpioSteps, Zenon
  <2>2. \A n \in 8 .. 16 : \E j \in 1 .. 9 : Steps(s)[n] = PortRegisters[j]
    <3>1. \A n \in 8 .. 16 : n - 7 \in 1 .. 9
      OBVIOUS
    <3> QED
      BY <1>1, <3>1, GpioSteps, Zenon
  <2>3. i \in 1 .. 16
    BY <2>1, Zenon
  <2>4. /\ Steps(s)[i] \in StepKinds
        /\ Steps(s)[i] = "word" => i > 2
        /\ (\E j \in 1 .. 9 : Steps(s)[i] = PortRegisters[j]) => i > 4
        /\ (i < 16 /\ Steps(s)[i + 1] \in {"io", "port"}) =>
             Steps(s)[i] \in {"seeIo", "seePort"}
    BY <1>1, <2>2, <2>3, GpioSteps, GpioOrder, Zenon
  <2> QED
    BY <2>1, <2>4, Zenon
<1>2. CASE ~ AsGpio(s)
  <2>1. Len(Steps(s)) = 3 /\ Steps(s)[1] = "seeIo" /\ Steps(s)[2] = "io"
    BY <1>2, FunctionSteps, Zenon
  <2>2. i \in 1 .. 3
    BY <2>1, Zenon
  <2>3. /\ Steps(s)[i] \in StepKinds
        /\ Steps(s)[i] = "word" => i > 2
        /\ (\E j \in 1 .. 9 : Steps(s)[i] = PortRegisters[j]) => i > 4
        /\ (i < 3 /\ Steps(s)[i + 1] \in {"io", "port"}) =>
             Steps(s)[i] \in {"seeIo", "seePort"}
    BY <1>2, <2>2, FunctionSteps, FunctionOrder, Zenon
  <2>4. \A j \in 1 .. 9 : Steps(s)[i] # PortRegisters[j]
    <3>1. i \in {1, 2, 3}
      BY <2>2
    <3>2. Steps(s)[i] \in {"seeIo", "io", "word"}
      BY <1>2, <3>1, FunctionSteps, Zenon
    <3> QED
      BY <3>2, RegisterNames
  <2>5. i # 4
    BY <2>2
  <2> QED
    BY <2>1, <2>3, <2>4, <2>5, Zenon
<1> QED
  BY <1>1, <1>2

LEMMA UpToStep ==
  \A n \in Nat : n >= 1 => (\A i \in 1 .. n : i \in 1 .. n - 1 \/ i = n)
  OBVIOUS

\* Another pin, and this one between two steps.
Kept(q) ==
  /\ clocked \cup clockLost \subseteq clocked' \cup clockLost' /\ word'[q] = word[q]
  /\ \A j \in 1 .. 9 : q \in regs'[PortRegisters[j]] <=> q \in regs[PortRegisters[j]]

LEMMA DoneKept ==
  ASSUME NEW q, NEW s, NEW step, Kept(q), Done(step, q, s)
  PROVE  Done(step, q, s)'
BY DEF Kept, Done

LEMMA ConfiguredKept ==
  ASSUME NEW q, NEW s, Kept(q), Configured(q, s)
  PROVE  Configured(q, s)'
BY DoneKept DEF Configured

\* The main loop's call while the handler goes on, which turns no clock off.
LEMMA CallKept ==
  ASSUME NEW k, Calling(0, k), Kept(k.pins[1]), clocked \subseteq clocked',
         askedAs'[k.pins[1]] = askedAs[k.pins[1]]
  PROVE  Calling(0, k)'
<1>1. \A i \in 1 .. k.step - 1 : Done(Steps(k.as)[i], k.pins[1], k.as)'
  BY DoneKept DEF Calling
<1>2. /\ Ensured(k, clocked')
      /\ Steps(k.as)[k.step] \in {"io", "port"} =>
           k.seen \subseteq clocked' /\ Ensured(k, k.seen)
  BY DEF Calling, Ensured
<1>3. /\ DOMAIN k = {"pins", "as", "step", "seen"}
      /\ k.pins \in Seq(UsedPins) /\ k.pins # << >>
      /\ \A i \in DOMAIN k.pins : k.as \in SettingsOf(k.pins[i])
      /\ k.step \in 1 .. Len(Steps(k.as)) /\ askedAs'[k.pins[1]] = k.as
  BY DEF Calling
<1> QED
  BY <1>1, <1>2, <1>3 DEF Calling

\* A step does what it is for, keeps what the steps before it did, disturbs no other
\* pin, and leaves the call's own clocks on.
LEMMA StepDone ==
  ASSUME NEW c \in 0 .. 1, PinsTypes, Calling(c, call[c]), ConfigureStep(c),
         NEW k, k = call[c], NEW p, p = k.pins[1], p \in UsedPins
  PROVE  /\ clocked \cup clockLost \subseteq clocked' \cup clockLost'
         /\ clockLost \subseteq clockLost'
         /\ c = 1 => clocked \subseteq clocked'
         /\ DOMAIN word' = UsedPins /\ DOMAIN regs' = {PortRegisters[j] : j \in 1 .. 9}
         /\ \A q \in UsedPins : q # p => Kept(q)
         /\ \A i \in 1 .. k.step : Done(Steps(k.as)[i], p, k.as)'
         /\ Steps(k.as)[k.step] \in {"seeIo", "seePort"} => clocked' = clocked
         /\ k.step >= 2 => "io" \in clocked'
         /\ k.step >= 4 => Port(p) \in clocked'
<1> DEFINE s == k.as
           step == Steps(s)[k.step]
<1>1. /\ k.step \in 1 .. Len(Steps(s))
      /\ k.step > 2 => "io" \in clocked
      /\ k.step > 4 => Port(p) \in clocked
      /\ step \in {"io", "port"} =>
           /\ k.seen \subseteq clocked
           /\ k.step > 2 => "io" \in k.seen
           /\ k.step > 4 => Port(p) \in k.seen
           /\ c = 1 => k.seen = clocked
      /\ \A i \in 1 .. k.step - 1 : Done(Steps(s)[i], p, s)
  BY DEF Calling, Ensured
<1>0. k.step \in Nat
  BY <1>1
<1>2. /\ Len(Steps(s)) \in Nat
      /\ step = "word" => k.step > 2
      /\ (\E j \in 1 .. 9 : step = PortRegisters[j]) => k.step > 4
      /\ k.step = 4 => step = "port"
  BY <1>0, <1>1, StepOrder
<1>3. \/ step \in {"seeIo", "seePort"} /\ UNCHANGED <<clocked, word, regs>>
      \/ step = "io" /\ clocked' = k.seen \cup {"io"} /\ UNCHANGED <<word, regs>>
      \/ step = "port" /\ clocked' = k.seen \cup {Port(p)} /\ UNCHANGED <<word, regs>>
      \/ step = "word" /\ WriteIoWord(p, s)
      \/ \E j \in 1 .. 9 : step = PortRegisters[j] /\ WritePort(p, step, s)
  BY DEF ConfigureStep
<1>4. k.step \in Nat /\ k.step >= 1
  BY <1>1, <1>2
<1>5. clockLost' = clockLost \cup (clocked \ clocked')
  BY DEF ConfigureStep
<1>6. /\ clocked \cup clockLost \subseteq clocked' \cup clockLost'
      /\ clockLost \subseteq clockLost'
  BY <1>5
<1>7. k.step = 2 => Steps(s)[2] = "io"
  BY <1>1, StepOrder
<1> HIDE DEF step
<1>8. SUFFICES /\ c = 1 => clocked \subseteq clocked'
               /\ k.step >= 2 => "io" \in clocked'
               /\ k.step >= 4 => Port(p) \in clocked'
               /\ DOMAIN word' = UsedPins
               /\ DOMAIN regs' = {PortRegisters[j] : j \in 1 .. 9}
               /\ \A q \in UsedPins : q # p => Kept(q)
               /\ \A i \in 1 .. k.step - 1 : Done(Steps(s)[i], p, s)'
               /\ Done(step, p, s)'
               /\ step \in {"seeIo", "seePort"} => clocked' = clocked
  <2>2. \A i \in 1 .. k.step : i \in 1 .. k.step - 1 \/ i = k.step
    BY <1>4, UpToStep, Zenon
  <2> HIDE DEF s
  <2>3. ASSUME Done(step, p, s)', \A i \in 1 .. k.step - 1 : Done(Steps(s)[i], p, s)'
        PROVE  \A i \in 1 .. k.step : Done(Steps(s)[i], p, s)'
    BY <2>2, <2>3, Zenon DEF step
  <2> QED
    BY <1>6, <2>3, Zenon DEF step, s
<1>9. DOMAIN word = UsedPins /\ DOMAIN regs = {PortRegisters[j] : j \in 1 .. 9}
  BY DEF PinsTypes
\* The clocks of the call stay on.
<1>10. /\ k.step = 2 => step = "io"
       /\ k.step = 4 => step = "port"
  BY <1>2, <1>7 DEF step
<1>11. CASE step \in {"seeIo", "seePort"} /\ UNCHANGED <<clocked, word, regs>>
  <2>1. \A q : Kept(q)
    BY <1>6, <1>11 DEF Kept
  <2>2. Done(step, p, s)'
    BY <1>11, RegisterNames DEF Done
  <2>3. /\ k.step >= 2 => "io" \in clocked'
        /\ k.step >= 4 => Port(p) \in clocked'
    BY <1>1, <1>4, <1>10, <1>11
  <2> QED
    BY <1>1, <1>9, <1>11, <2>1, <2>2, <2>3, DoneKept
<1>12. CASE /\ step \in {"io", "port"} /\ UNCHANGED <<word, regs>>
            /\ clocked' = k.seen \cup {IF step = "io" THEN "io" ELSE Port(p)}
  <2>0. /\ k.step > 2 => "io" \in k.seen
        /\ k.step > 4 => Port(p) \in k.seen
        /\ c = 1 => k.seen = clocked
    BY <1>1, <1>12 DEF step
  <2>1. c = 1 => clocked \subseteq clocked'
    BY <1>12, <2>0
  <2>2. \A q : Kept(q)
    BY <1>6, <1>12 DEF Kept
  <2>3. Done(step, p, s)'
    BY <1>12, RegisterNames DEF Done
  <2>4. k.step >= 2 => "io" \in clocked'
    <3>1. CASE k.step = 2
      BY <1>10, <1>12, <3>1
    <3>2. CASE k.step > 2
      BY <1>12, <2>0, <3>2
    <3> QED
      BY <1>4, <3>1, <3>2
  <2>5. k.step >= 4 => Port(p) \in clocked'
    <3>1. CASE k.step = 4
      BY <1>10, <1>12, <3>1
    <3>2. CASE k.step > 4
      BY <1>12, <2>0, <3>2
    <3> QED
      BY <1>4, <3>1, <3>2
  <2>6. \A i \in 1 .. k.step - 1 : Done(Steps(s)[i], p, s)'
    BY <1>1, <2>2, DoneKept
  <2>7. step \notin {"seeIo", "seePort"}
    BY <1>12
  <2> QED
    BY <1>9, <1>12, <2>1, <2>2, <2>3, <2>4, <2>5, <2>6, <2>7
<1>13. CASE step = "word" /\ WriteIoWord(p, s)
  <2>1. k.step > 2 /\ "io" \in clocked
    BY <1>1, <1>2, <1>13 DEF step
  <2>2. word' = [word EXCEPT ![p] = Word(p, s)] /\ UNCHANGED <<regs, clocked>>
    BY <1>13, <2>1 DEF WriteIoWord
  <2>3. word'[p] = Word(p, s) /\ \A q \in UsedPins : q # p => word'[q] = word[q]
    BY <1>9, <2>2
  <2>4. \A q \in UsedPins : q # p => Kept(q)
    BY <1>6, <2>2, <2>3 DEF Kept
  <2>5. \A i \in 1 .. k.step - 1 : Done(Steps(s)[i], p, s)'
    BY <1>1, <1>6, <2>2, <2>3 DEF Done
  <2>6. Done(step, p, s)'
    BY <1>13, <2>3, RegisterNames DEF Done
  <2>7. k.step >= 4 => Port(p) \in clocked
    <3>1. k.step # 4
      BY <1>10, <1>13
    <3> QED
      BY <1>1, <1>4, <3>1
  <2>8. DOMAIN word' = UsedPins /\ regs' = regs /\ clocked' = clocked
    BY <1>9, <2>2
  <2>9. step \notin {"seeIo", "seePort"}
    BY <1>13
  <2> QED
    BY <1>9, <2>1, <2>4, <2>5, <2>6, <2>7, <2>8, <2>9
<1>14. ASSUME NEW j \in 1 .. 9, step = PortRegisters[j], WritePort(p, step, s)
       PROVE /\ c = 1 => clocked \subseteq clocked'
             /\ k.step >= 2 => "io" \in clocked'
             /\ k.step >= 4 => Port(p) \in clocked'
             /\ DOMAIN word' = UsedPins
             /\ DOMAIN regs' = {PortRegisters[n] : n \in 1 .. 9}
             /\ \A q \in UsedPins : q # p => Kept(q)
             /\ \A i \in 1 .. k.step - 1 : Done(Steps(s)[i], p, s)'
             /\ Done(step, p, s)'
             /\ step \in {"seeIo", "seePort"} => clocked' = clocked
  <2>1. k.step > 4
    BY <1>2, <1>14 DEF step
  <2>2. Port(p) \in clocked /\ "io" \in clocked
    BY <1>1, <1>4, <2>1
  <2> DEFINE bit == BitsOf(s)[step]
  <2>3. /\ regs' = [regs EXCEPT ![step] = (regs[step] \ {p}) \cup (IF bit THEN {p} ELSE {})]
        /\ UNCHANGED <<word, clocked>>
    BY <1>14, <2>2 DEF WritePort
  <2> HIDE DEF bit
  <2>4. /\ DOMAIN regs' = DOMAIN regs
        /\ \A r \in DOMAIN regs : r # step => regs'[r] = regs[r]
        /\ regs'[step] = (regs[step] \ {p}) \cup (IF bit THEN {p} ELSE {})
    BY <1>9, <1>14, <2>3
  <2>5. p \in regs'[step] <=> bit
    BY <2>4
  <2>6. \A q : q # p => (q \in regs'[step] <=> q \in regs[step])
    BY <2>4
  <2>7. \A q \in UsedPins : q # p => Kept(q)
    BY <1>6, <1>9, <2>3, <2>4, <2>6 DEF Kept
  <2>8. ASSUME NEW i \in 1 .. k.step - 1 PROVE Done(Steps(s)[i], p, s)'
    <3>1. Done(Steps(s)[i], p, s)
      BY <1>1
    <3>2. ASSUME NEW n \in 1 .. 9, Steps(s)[i] = PortRegisters[n]
          PROVE  p \in regs'[PortRegisters[n]] <=> BitsOf(s)[PortRegisters[n]]
      <4>1. CASE PortRegisters[n] = step
        BY <2>5, <4>1 DEF bit
      <4>2. CASE PortRegisters[n] # step
        BY <1>9, <2>4, <3>1, <3>2, <4>2 DEF Done
      <4> QED
        BY <4>1, <4>2
    <3> QED
      BY <1>6, <2>3, <3>1, <3>2 DEF Done
  <2>9. Done(step, p, s)'
    BY <1>14, <2>5, RegisterNames DEF Done, bit
  <2>10. step \notin {"seeIo", "seePort"}
    BY <1>14, RegisterNames
  <2> QED
    BY <1>9, <2>2, <2>3, <2>4, <2>7, <2>8, <2>9, <2>10
<1> QED
  BY <1>3, <1>11, <1>12, <1>13, <1>14

(***************************************************************************)
(* The invariant                                                           *)
(***************************************************************************)
LEMMA PinsInitial == ASSUME PinsInit PROVE PinsInv
<1>1. PinsTypes
  BY DEF PinsInit, PinsTypes
<1>2. \A c \in 0 .. 1 : ~ Configuring(c) /\ call[c] = NoPinCall
  BY DEF PinsInit, Configuring
<1>3. CallsApart
  BY <1>2 DEF CallsApart, NoPinCall
<1>4. LevelsKept
  BY DEF PinsInit, LevelsKept
<1> QED
  BY <1>1, <1>2, <1>3, <1>4 DEF PinsInit, PinsInv

\* A call starts with nothing done.
LEMMA StartKeeps ==
  ASSUME PinsInv, NEW c \in 0 .. 1, NEW ps \in Seq(UsedPins), NEW s,
         StartConfigure(c, ps, s), \A i \in DOMAIN ps : s \in SettingsOf(ps[i])
  PROVE  PinsInv'
<1> DEFINE k == [pins |-> ps, as |-> s, step |-> 1, seen |-> {}]
<1>1. /\ ps # << >> /\ MayRun(c) /\ ~ Configuring(c) /\ PortsFree(c, ps)
      /\ call' = [call EXCEPT ![c] = k]
      /\ askedAs' = [askedAs EXCEPT ![ps[1]] = s]
      /\ UNCHANGED <<clocked, clockLost, word, regs, latch, level>>
  BY DEF StartConfigure
<1>2. PinsTypes /\ CallsApart /\ LevelsKept
  BY DEF PinsInv
<1>3. 1 \in DOMAIN ps /\ ps[1] \in UsedPins /\ s \in SettingsOf(ps[1])
  BY <1>1
<1>4. call'[c] = k /\ DOMAIN call' = 0 .. 1 /\ \A d \in 0 .. 1 : d # c => call'[d] = call[d]
  BY <1>1, <1>2 DEF PinsTypes
<1>5. /\ askedAs'[ps[1]] = s /\ DOMAIN askedAs' = UsedPins
      /\ \A p \in UsedPins : p # ps[1] => askedAs'[p] = askedAs[p]
  BY <1>1, <1>2, <1>3 DEF PinsTypes
<1>6. PinsTypes'
  BY <1>1, <1>2, <1>3, <1>4, <1>5 DEF PinsTypes
<1>7. k.pins = ps /\ k.as = s /\ k.step = 1 /\ DOMAIN k = {"pins", "as", "step", "seen"}
  OBVIOUS
<1> HIDE DEF k
<1>8. Calling(c, k)'
  <2>1. Len(Steps(s)) \in {3, 16} /\ Steps(s)[1] = "seeIo"
    <3>1. AsGpio(s) \/ ~ AsGpio(s)
      OBVIOUS
    <3> QED
      BY <3>1, GpioSteps, FunctionSteps
  <2>2. k.step \in 1 .. Len(Steps(k.as)) /\ Steps(k.as)[k.step] \notin {"io", "port"}
    BY <1>7, <2>1
  <2>3. 1 .. k.step - 1 = {} /\ Ensured(k, clocked')
    BY <1>7 DEF Ensured
  <2> QED
    BY <1>1, <1>5, <1>7, <2>2, <2>3 DEF Calling
<1>9. ASSUME NEW d \in 0 .. 1, d # c, Configuring(d)'
      PROVE  Calling(d, call[d])' /\ call[d].pins[1] # ps[1]
  <2>1. call'[d] = call[d] /\ Configuring(d)
    BY <1>4, <1>9 DEF Configuring
  <2>2. d = 0
    BY <1>1, <1>9, <2>1 DEF MayRun, Configuring
  <2>3. PICK m : m = call[0]
    OBVIOUS
  <2>4. Calling(0, m)
    BY <2>1, <2>2, <2>3 DEF PinsInv
  <2>5. m.pins[1] \in UsedPins /\ 1 \in DOMAIN m.pins
    BY <2>4 DEF Calling
  <2>6. Port(m.pins[1]) # Port(ps[1])
    BY <1>1, <1>3, <1>9, <2>2, <2>3, <2>5 DEF PortsFree
  <2>7. m.pins[1] # ps[1]
    BY <2>6
  <2>8. Kept(m.pins[1]) /\ askedAs'[m.pins[1]] = askedAs[m.pins[1]]
    BY <1>1, <1>5, <2>5, <2>7 DEF Kept
  <2>9. Calling(0, m)'
    BY <1>1, <2>4, <2>8, CallKept
  <2>10. Calling(d, call[d])'
    BY <2>1, <2>2, <2>3, <2>9 DEF Calling
  <2> QED
    BY <2>2, <2>3, <2>7, <2>10
<1>10. CallsApart'
  <2>1. CASE c = 0
    <3>1. call'[1] = NoPinCall
      BY <1>1, <1>4, <2>1 DEF MayRun
    <3> QED
      BY <3>1 DEF CallsApart, NoPinCall
  <2>2. CASE c = 1
    BY <1>1, <1>4, <1>7, <2>2 DEF CallsApart, PortsFree
  <2> QED
    BY <2>1, <2>2
<1>11. Configuring(c)' /\ InProgress(ps[1])'
  <2>1. k # NoPinCall
    BY <1>1, <1>7 DEF NoPinCall
  <2> QED
    BY <1>4, <1>7, <2>1 DEF Configuring, InProgress
<1>12. ASSUME NEW p \in UsedPins, askedAs'[p] # Unasked, ~ InProgress(p)'
       PROVE  Configured(p, askedAs[p])'
  <2>1. p # ps[1]
    BY <1>11, <1>12
  <2>2. ~ InProgress(p)
    <3>1. \A d \in 0 .. 1 : Configuring(d) => d # c /\ call'[d] = call[d]
      BY <1>1, <1>4
    <3> QED
      BY <1>12, <3>1 DEF InProgress, Configuring
  <2>3. PICK a : a = askedAs[p]
    OBVIOUS
  <2>4. askedAs'[p] = a
    BY <1>5, <2>1, <2>3
  <2>5. Configured(p, a)
    BY <1>12, <2>2, <2>3, <2>4 DEF PinsInv
  <2>6. Kept(p)
    BY <1>1 DEF Kept
  <2>7. Configured(p, a)'
    BY <2>5, <2>6, ConfiguredKept
  <2> QED
    BY <2>4, <2>7
<1>13. \A d \in 0 .. 1 : Configuring(d)' => Calling(d, call[d])'
  <2>1. Calling(c, call[c])'
    BY <1>4, <1>8 DEF Calling
  <2> QED
    BY <1>9, <2>1
<1>14. LevelsKept'
  BY <1>1, <1>2 DEF LevelsKept
<1> QED
  BY <1>6, <1>10, <1>12, <1>13, <1>14 DEF PinsInv

\* What is left of a call's pins after the first.
LEMMA TailOfPins ==
  ASSUME NEW S, NEW q \in Seq(S), Len(q) > 1
  PROVE  /\ Tail(q) \in Seq(S) /\ Tail(q) # << >>
         /\ \A i \in DOMAIN Tail(q) : i + 1 \in DOMAIN q /\ Tail(q)[i] = q[i + 1]
         /\ 1 \in DOMAIN Tail(q)
<1>1. /\ Tail(q) \in Seq(S) /\ Len(Tail(q)) = Len(q) - 1 /\ Len(q) \in Nat
      /\ \A i \in 1 .. Len(Tail(q)) : Tail(q)[i] = q[i + 1]
  <2>1. q # << >>
    OBVIOUS
  <2> QED BY <2>1, HeadTailProperties
<1>2. \A i \in 1 .. Len(q) - 1 : Tail(q)[i] = q[i + 1]
  BY <1>1
<1> DEFINE t == Tail(q)
<1>3. t \in Seq(S) /\ Len(t) = Len(q) - 1 /\ \A i \in 1 .. Len(q) - 1 : t[i] = q[i + 1]
  BY <1>1, <1>2
<1> HIDE DEF t
<1>4. DOMAIN q = 1 .. Len(q) /\ DOMAIN t = 1 .. Len(q) - 1 /\ Len(q) \in Nat
  BY <1>1, <1>3
<1>5. t # << >> /\ 1 \in DOMAIN t /\ \A i \in DOMAIN t : i + 1 \in DOMAIN q
  BY <1>3, <1>4
<1> QED BY <1>3, <1>4, <1>5 DEF t

\* A step, and after the last one the next pin or the end of the call.
LEMMA StepKeeps ==
  ASSUME PinsInv, NEW c \in 0 .. 1, ConfigureStep(c)
  PROVE  PinsInv'
<1>1. /\ PinsTypes /\ CallsApart /\ LevelsKept
      /\ Configuring(c) /\ Calling(c, call[c]) /\ MayRun(c)
  BY DEF PinsInv, ConfigureStep
<1>2. PICK k : k = call[c]
  OBVIOUS
<1>3. PICK p : p = k.pins[1]
  OBVIOUS
<1>4. /\ DOMAIN k = {"pins", "as", "step", "seen"}
      /\ k.pins \in Seq(UsedPins) /\ k.pins # << >>
      /\ \A i \in DOMAIN k.pins : k.as \in SettingsOf(k.pins[i])
      /\ k.step \in 1 .. Len(Steps(k.as))
      /\ askedAs[p] = k.as
  BY <1>1, <1>2, <1>3 DEF Calling
<1>5. p \in UsedPins /\ 1 \in DOMAIN k.pins /\ k.as \in SettingsOf(p)
  BY <1>3, <1>4
<1> DEFINE s == k.as
           after ==
             IF k.step < Len(Steps(s)) THEN [k EXCEPT !.step = @ + 1, !.seen = clocked]
             ELSE IF Len(k.pins) > 1 THEN [k EXCEPT !.pins = Tail(@), !.step = 1]
             ELSE NoPinCall
<1>6. /\ call' = [call EXCEPT ![c] = after]
      /\ askedAs' = IF after # NoPinCall /\ after.step = 1
                    THEN [askedAs EXCEPT ![after.pins[1]] = s] ELSE askedAs
      /\ UNCHANGED <<latch, level>>
  BY <1>2, Zenon DEF ConfigureStep
<1>7. /\ clocked \cup clockLost \subseteq clocked' \cup clockLost'
      /\ clockLost \subseteq clockLost'
      /\ c = 1 => clocked \subseteq clocked'
      /\ DOMAIN word' = UsedPins /\ DOMAIN regs' = {PortRegisters[j] : j \in 1 .. 9}
      /\ \A q \in UsedPins : q # p => Kept(q)
      /\ \A i \in 1 .. k.step : Done(Steps(s)[i], p, s)'
      /\ Steps(s)[k.step] \in {"seeIo", "seePort"} => clocked' = clocked
      /\ k.step >= 2 => "io" \in clocked'
      /\ k.step >= 4 => Port(p) \in clocked'
  BY <1>1, <1>2, <1>3, <1>5, StepDone
<1> HIDE DEF after
<1>8. /\ call'[c] = after /\ DOMAIN call' = 0 .. 1
      /\ \A d \in 0 .. 1 : d # c => call'[d] = call[d]
  BY <1>1, <1>6 DEF PinsTypes
<1>9. LevelsKept'
  BY <1>1, <1>6, <1>7 DEF LevelsKept
<1>10. Len(Steps(s)) \in {3, 16} /\ k.step \in Nat /\ k.step >= 1 /\ k.step <= Len(Steps(s))
  <2>1. Len(Steps(s)) \in {3, 16}
    BY <1>4, StepOrder
  <2> QED
    BY <1>4, <2>1
\* The call of the other context is the main loop's, and no pin of it changes.
<1>11. ASSUME NEW d \in 0 .. 1, d # c, Configuring(d)',
              \A q \in UsedPins : askedAs'[q] # askedAs[q] =>
                                    \E i \in DOMAIN k.pins : q = k.pins[i]
       PROVE  Calling(d, call[d])'
  <2>1. call'[d] = call[d] /\ Configuring(d)
    BY <1>8, <1>11 DEF Configuring
  <2>2. d = 0
    BY <1>1, <1>11, <2>1 DEF MayRun, Configuring
  <2>3. PICK m : m = call[0]
    OBVIOUS
  <2>4. Calling(0, m)
    BY <2>1, <2>2, <2>3 DEF PinsInv
  <2>5. m.pins[1] \in UsedPins /\ 1 \in DOMAIN m.pins
    BY <2>4 DEF Calling
  <2>6. \A i \in DOMAIN k.pins : Port(m.pins[1]) # Port(k.pins[i])
    BY <1>1, <1>2, <1>11, <2>2, <2>3, <2>5 DEF CallsApart
  <2>7. Port(m.pins[1]) # Port(p) /\ m.pins[1] # p
    BY <1>3, <1>5, <2>6
  <2>8. Kept(m.pins[1]) /\ askedAs'[m.pins[1]] = askedAs[m.pins[1]]
    BY <1>7, <1>11, <2>5, <2>6, <2>7
  <2>9. clocked \subseteq clocked'
    BY <1>7, <1>11, <2>2
  <2>10. Calling(0, m)'
    BY <2>4, <2>8, <2>9, CallKept
  <2> QED
    BY <2>1, <2>2, <2>3, <2>10 DEF Calling
\* Of the other pins nothing changes, and a pin stays configured as it was.
<1>12. ASSUME NEW q \in UsedPins, q # p, askedAs[q] # Unasked, ~ InProgress(q)'
       PROVE  \A a : a = askedAs[q] => Configured(q, a)'
  <2>1. ~ InProgress(q)
    <3>1. ASSUME NEW d \in 0 .. 1, Configuring(d), call[d].pins[1] = q PROVE FALSE
      <4>1. d # c
        BY <1>2, <1>3, <1>12, <3>1
      <4>2. call'[d] = call[d]
        BY <1>8, <4>1
      <4> QED
        BY <1>12, <3>1, <4>2 DEF InProgress, Configuring
    <3> QED
      BY <3>1 DEF InProgress
  <2> SUFFICES ASSUME NEW a, a = askedAs[q] PROVE Configured(q, a)'
    OBVIOUS
  <2>2. Configured(q, a)
    BY <1>12, <2>1 DEF PinsInv
  <2>3. Kept(q)
    BY <1>7, <1>12
  <2> QED
    BY <2>2, <2>3, ConfiguredKept
<1>13. SUFFICES /\ PinsTypes' /\ CallsApart'
                /\ \A d \in 0 .. 1 : Configuring(d)' => Calling(d, call[d])'
                /\ \A q \in UsedPins : (askedAs'[q] # Unasked /\ ~ InProgress(q)') =>
                                          Configured(q, askedAs[q])'
  BY <1>9 DEF PinsInv
<1>14. CASE k.step < Len(Steps(s))
  <2>1. /\ after = [k EXCEPT !.step = k.step + 1, !.seen = clocked]
    BY <1>14 DEF after
  <2>2. /\ DOMAIN after = {"pins", "as", "step", "seen"}
        /\ after.pins = k.pins /\ after.as = s /\ after.step = k.step + 1
        /\ after.seen = clocked
    BY <1>4, <2>1
  <2>3. after # NoPinCall /\ after.step # 1
    BY <1>4, <1>10, <2>2 DEF NoPinCall
  <2>4. askedAs' = askedAs
    BY <1>6, <2>3
  <2>5. PinsTypes'
    BY <1>1, <1>6, <1>7, <1>8, <2>4 DEF PinsTypes
  <2>6. PICK next : next = after
    OBVIOUS
  <2>7. Calling(c, next)'
    <3>1. next.step \in 1 .. Len(Steps(next.as))
      BY <1>10, <1>14, <2>2, <2>6
    <3>2. Ensured(next, clocked')
      BY <1>3, <1>7, <1>10, <2>2, <2>6 DEF Ensured
    <3>3. Steps(next.as)[next.step] \in {"io", "port"} => next.seen = clocked'
      <4>1. Steps(s)[k.step + 1] \in {"io", "port"} =>
              Steps(s)[k.step] \in {"seeIo", "seePort"}
        BY <1>4, <1>14, StepOrder
      <4> QED
        BY <1>7, <2>2, <2>6, <4>1
    <3>4. \A i \in 1 .. next.step - 1 : Done(Steps(next.as)[i], next.pins[1], next.as)'
      <4>1. next.step - 1 = k.step /\ next.pins[1] = p /\ next.as = s
        BY <1>3, <1>10, <2>2, <2>6
      <4> QED
        BY <1>7, <4>1
    <3>5. /\ DOMAIN next = {"pins", "as", "step", "seen"}
          /\ next.pins \in Seq(UsedPins) /\ next.pins # << >>
          /\ \A i \in DOMAIN next.pins : next.as \in SettingsOf(next.pins[i])
          /\ askedAs'[next.pins[1]] = next.as
      BY <1>3, <1>4, <2>2, <2>4, <2>6
    <3> QED
      BY <3>1, <3>2, <3>3, <3>4, <3>5 DEF Calling
  <2>8. Calling(c, call[c])'
    BY <1>8, <2>6, <2>7 DEF Calling
  <2>9. \A d \in 0 .. 1 : Configuring(d)' => Calling(d, call[d])'
    BY <1>11, <2>4, <2>8
  <2>10. CallsApart'
    BY <1>1, <1>2, <1>8, <2>2 DEF CallsApart
  <2>11. ASSUME NEW q \in UsedPins, askedAs'[q] # Unasked, ~ InProgress(q)'
         PROVE  Configured(q, askedAs[q])'
    <3>1. q # p
      BY <1>3, <1>8, <2>2, <2>3, <2>11 DEF InProgress, Configuring
    <3>2. PICK a : a = askedAs[q]
      OBVIOUS
    <3>3. Configured(q, a)' /\ a = askedAs'[q]
      BY <1>12, <2>4, <2>11, <3>1, <3>2
    <3> QED
      BY <3>3
  <2> QED
    BY <2>5, <2>9, <2>10, <2>11
\* What the call leaves behind when the pin is done.
<1>15. k.step = Len(Steps(s)) => Configured(p, s)'
  BY <1>7 DEF Configured
<1>16. CASE k.step = Len(Steps(s)) /\ Len(k.pins) > 1
  <2>1. after = [k EXCEPT !.pins = Tail(k.pins), !.step = 1]
    BY <1>10, <1>16 DEF after
  <2>2. /\ DOMAIN after = {"pins", "as", "step", "seen"}
        /\ after.pins = Tail(k.pins) /\ after.as = s /\ after.step = 1
    BY <1>4, <2>1
  <2>3. /\ Tail(k.pins) \in Seq(UsedPins) /\ Tail(k.pins) # << >>
        /\ \A i \in DOMAIN Tail(k.pins) :
              i + 1 \in DOMAIN k.pins /\ Tail(k.pins)[i] = k.pins[i + 1]
        /\ 1 \in DOMAIN Tail(k.pins)
    <3>1. k.pins \in Seq(UsedPins)
      BY <1>4
    <3> QED BY <3>1, <1>16, TailOfPins
  <2>4. PICK r : r = Tail(k.pins)[1]
    OBVIOUS
  <2>5. r \in UsedPins /\ s \in SettingsOf(r) /\ \E i \in DOMAIN k.pins : r = k.pins[i]
    BY <1>4, <2>3, <2>4
  <2>6. after # NoPinCall
    BY <2>2, <2>3 DEF NoPinCall
  <2>7. /\ askedAs' = [askedAs EXCEPT ![r] = s]
        /\ askedAs'[r] = s /\ DOMAIN askedAs' = UsedPins
        /\ \A q \in UsedPins : q # r => askedAs'[q] = askedAs[q]
    BY <1>1, <1>6, <2>2, <2>4, <2>5, <2>6 DEF PinsTypes
  <2>8. PinsTypes'
    BY <1>1, <1>6, <1>7, <1>8, <2>5, <2>7 DEF PinsTypes
  <2>9. PICK next : next = after
    OBVIOUS
  <2>10. Calling(c, next)'
    <3>1. /\ next.step \in 1 .. Len(Steps(next.as)) /\ 1 .. next.step - 1 = {}
          /\ Ensured(next, clocked')
      BY <1>10, <2>2, <2>9 DEF Ensured
    <3>2. Steps(next.as)[next.step] = "seeIo"
      BY <1>4, <2>2, <2>9, StepOrder
    <3>3. /\ DOMAIN next = {"pins", "as", "step", "seen"}
          /\ next.pins \in Seq(UsedPins) /\ next.pins # << >>
          /\ \A i \in DOMAIN next.pins : next.as \in SettingsOf(next.pins[i])
          /\ askedAs'[next.pins[1]] = next.as
      BY <1>4, <2>2, <2>3, <2>4, <2>7, <2>9, ZenonT(60)
    <3> QED
      BY <3>1, <3>2, <3>3 DEF Calling
  <2>11. Calling(c, call[c])'
    BY <1>8, <2>9, <2>10 DEF Calling
  <2>12. \A d \in 0 .. 1 : Configuring(d)' => Calling(d, call[d])'
    BY <1>11, <2>5, <2>7, <2>11
  <2>13. CallsApart'
    <3>1. \A i \in DOMAIN call'[c].pins : \E j \in DOMAIN call[c].pins :
            call'[c].pins[i] = call[c].pins[j]
      BY <1>2, <1>8, <2>2, <2>3
    <3>2. CASE c = 0
      <4>1. call'[1] = call[1]
        BY <1>8, <3>2
      <4> QED
        BY <1>1, <3>1, <3>2, <4>1 DEF CallsApart
    <3>3. CASE c = 1
      <4>1. call'[0] = call[0]
        BY <1>8, <3>3
      <4> QED
        BY <1>1, <3>1, <3>3, <4>1 DEF CallsApart
    <3> QED
      BY <3>2, <3>3
  <2>14. ASSUME NEW q \in UsedPins, askedAs'[q] # Unasked, ~ InProgress(q)'
         PROVE  Configured(q, askedAs[q])'
    <3>1. q # r
      BY <1>8, <2>2, <2>4, <2>6, <2>14 DEF InProgress, Configuring
    <3>2. PICK a : a = askedAs[q]
      OBVIOUS
    <3>3. a = askedAs'[q] /\ a # Unasked
      BY <2>7, <2>14, <3>1, <3>2
    <3>4. Configured(q, a)'
      <4>1. CASE q = p
        BY <1>4, <1>15, <1>16, <3>2, <4>1
      <4>2. CASE q # p
        BY <1>12, <2>14, <3>2, <3>3, <4>2
      <4> QED
        BY <4>1, <4>2
    <3> QED
      BY <3>3, <3>4
  <2> QED
    BY <2>8, <2>12, <2>13, <2>14
<1>17. CASE k.step = Len(Steps(s)) /\ ~ (Len(k.pins) > 1)
  <2>1. after = NoPinCall
    BY <1>10, <1>17 DEF after
  <2>2. askedAs' = askedAs
    BY <1>6, <2>1
  <2>3. PinsTypes'
    BY <1>1, <1>6, <1>7, <1>8, <2>2 DEF PinsTypes
  <2>4. ~ Configuring(c)'
    BY <1>8, <2>1 DEF Configuring
  <2>5. \A d \in 0 .. 1 : Configuring(d)' => Calling(d, call[d])'
    BY <1>11, <2>2, <2>4
  <2>6. CallsApart'
    <3>1. DOMAIN call'[c].pins = {}
      BY <1>8, <2>1 DEF NoPinCall
    <3> QED
      BY <3>1 DEF CallsApart
  <2>7. ASSUME NEW q \in UsedPins, askedAs'[q] # Unasked, ~ InProgress(q)'
        PROVE  Configured(q, askedAs[q])'
    <3>1. PICK a : a = askedAs[q]
      OBVIOUS
    <3>2. a = askedAs'[q] /\ a # Unasked
      BY <2>2, <2>7, <3>1
    <3>3. Configured(q, a)'
      <4>1. CASE q = p
        BY <1>4, <1>15, <1>17, <3>1, <4>1
      <4>2. CASE q # p
        BY <1>12, <2>7, <3>1, <3>2, <4>2
      <4> QED
        BY <4>1, <4>2
    <3> QED
      BY <3>2, <3>3
  <2> QED
    BY <2>3, <2>5, <2>6, <2>7
<1> QED
  BY <1>10, <1>14, <1>16, <1>17

\* Driving a pin sets its bit of the latch and no other.
LEMMA DriveKeeps ==
  ASSUME PinsInv, NEW c \in 0 .. 1, NEW p \in UsedPins, NEW high \in BOOLEAN,
         Drive(c, p, high)
  PROVE  PinsInv'
<1>1. /\ latch' = IF Port(p) \notin clocked THEN latch
                  ELSE IF high THEN latch \cup {p} ELSE latch \ {p}
      /\ level' = IF level[p] # "any" \/ (AsGpio(askedAs[p]) /\ ~ InProgress(p))
                  THEN [level EXCEPT ![p] = IF high THEN "high" ELSE "low"] ELSE level
      /\ UNCHANGED <<clocked, clockLost, word, regs, call, calls, askedAs>>
  BY DEF Drive
<1>2. PinsTypes /\ DOMAIN level = UsedPins /\ LevelsKept
  BY DEF PinsInv, PinsTypes
<1>3. PinsTypes'
  <2>1. DOMAIN level' = UsedPins /\ \A q \in UsedPins : level'[q] \in {"any", "high", "low"}
    BY <1>1, <1>2 DEF PinsTypes
  <2> QED
    BY <1>1, <1>2, <2>1 DEF PinsTypes
<1>4. /\ \A d \in 0 .. 1 : Configuring(d)' => Calling(d, call[d])'
      /\ CallsApart'
  BY <1>1 DEF PinsInv, Configuring, Calling, Ensured, Done, CallsApart
<1>5. ASSUME NEW q \in UsedPins, askedAs'[q] # Unasked, ~ InProgress(q)'
      PROVE  Configured(q, askedAs[q])'
  <2>1. Configured(q, askedAs[q])
    BY <1>1, <1>5 DEF PinsInv, InProgress, Configuring
  <2> QED
    BY <1>1, <2>1 DEF Configured, Done
<1>6. ASSUME AsGpio(askedAs[p]), ~ InProgress(p)
      PROVE  Port(p) \in clocked \cup clockLost
  <2>1. askedAs[p] # Unasked
    BY <1>6 DEF AsGpio, Unasked
  <2>2. PICK s : s = askedAs[p]
    OBVIOUS
  <2>3. Configured(p, s) /\ AsGpio(s)
    BY <1>6, <2>1, <2>2 DEF PinsInv
  <2>4. 4 \in 1 .. Len(Steps(s)) /\ Steps(s)[4] = "port"
    <3>1. Steps(s)[4] = "port" /\ Len(Steps(s)) = 16
      BY <2>3, GpioSteps
    <3> QED
      BY <3>1
  <2> QED
    BY <2>3, <2>4 DEF Configured, Done
<1>7. ASSUME NEW q \in UsedPins, level'[q] # "any"
      PROVE  /\ Port(q) \in clocked \cup clockLost
             /\ Port(q) \notin clockLost => (q \in latch' <=> level'[q] = "high")
  <2>1. CASE q # p
    <3>1. level'[q] = level[q] /\ (q \in latch' <=> q \in latch)
      BY <1>1, <1>2, <2>1
    <3> QED
      BY <1>2, <1>7, <3>1 DEF LevelsKept
  <2>2. CASE q = p
    <3>1. Port(p) \in clocked \cup clockLost
      BY <1>1, <1>2, <1>6, <1>7, <2>2 DEF LevelsKept
    <3>2. level'[p] = IF high THEN "high" ELSE "low"
      BY <1>1, <1>2, <1>7, <2>2
    <3> QED
      BY <1>1, <2>2, <3>1, <3>2
  <2> QED
    BY <2>1, <2>2
<1>8. LevelsKept'
  BY <1>1, <1>7 DEF LevelsKept
<1> QED
  BY <1>3, <1>4, <1>5, <1>8 DEF PinsInv

LEMMA PinsStep ==
  ASSUME GpioSettings \subseteq Settings, PinsInv, [PinsNext]_pinVars
  PROVE  PinsInv'
<1>1. ASSUME NEW c \in 0 .. 1, ConfigureAsGpio(c) PROVE PinsInv'
  <2>1. PICK p \in UsedPins, s \in GpioSettings : StartConfigure(c, <<p>>, s)
    BY <1>1 DEF ConfigureAsGpio
  <2>2. <<p>> \in Seq(UsedPins) /\ \A i \in DOMAIN <<p>> : s \in SettingsOf(<<p>>[i])
    BY DEF SettingsOf
  <2> QED
    BY <2>1, <2>2, StartKeeps
<1>2. ASSUME NEW c \in 0 .. 1, ConfigureAsFunction(c) PROVE PinsInv'
  <2>1. PICK p \in UsedPins, inversion \in BOOLEAN : \E r \in RowsOf(p) :
          StartConfigure(c, <<p>>, [function |-> r.function, inverted |-> inversion])
    BY <1>2 DEF ConfigureAsFunction
  <2>2. PICK r \in RowsOf(p) :
          StartConfigure(c, <<p>>, [function |-> r.function, inverted |-> inversion])
    BY <2>1
  <2>3. [function |-> r.function, inverted |-> inversion] \in Functions(p)
    BY DEF Functions, Routable
  <2>4. /\ <<p>> \in Seq(UsedPins)
        /\ \A i \in DOMAIN <<p>> :
             [function |-> r.function, inverted |-> inversion] \in SettingsOf(<<p>>[i])
    BY <2>3 DEF SettingsOf
  <2> QED
    BY <2>2, <2>4, StartKeeps
<1>3. ASSUME NEW c \in 0 .. 1, RouteAllEbiPins(c) \/ UnrouteAllEbiPins(c)
      PROVE PinsInv'
  BY <1>3, EbiPinsUsed, EbiSettings, StartKeeps DEF RouteAllEbiPins, UnrouteAllEbiPins
<1>4. CASE UNCHANGED pinVars
  BY <1>4 DEF pinVars, PinsInv, PinsTypes, Configuring, Calling, Ensured, Done, Configured,
              InProgress, CallsApart, LevelsKept
<1> QED
  BY <1>1, <1>2, <1>3, <1>4, StepKeeps, DriveKeeps DEF PinsNext

\* A configured pin has what each step of its call has left, and the calls in progress,
\* of the main loop and of a handler on other ports, have what their steps so far have,
\* the clocks they have turned on themselves included (Pin.cpp:258-327, Port.cpp:56-83,
\* SysConfig.cpp:313-320).
THEOREM PinsInvariance ==
  ASSUME GpioSettings \subseteq Settings
  PROVE  PinsSpec => []PinsInv
BY PinsInitial, PinsStep, PTL DEF PinsSpec

\* Whatever both contexts configure, any port each, and drive meanwhile, a pin is what it
\* was last configured as, but for an interrupt on either edge, and an output holds its
\* last level unless its port's clock was lost (Pin.cpp:258-347, Ebi.cpp:55-161).
THEOREM PinsStayConfigured ==
  ASSUME GpioSettings \subseteq Settings
  PROVE  PinsSpec => []PinsAsConfigured
<1>1. PinsInv => PinsAsConfigured
  <2> SUFFICES ASSUME PinsInv, NEW p \in UsedPins, askedAs[p] # Unasked, ~ InProgress(p)
               PROVE  IsAsAsked(p) /\ (Port(p) \notin clockLost => OutputHeld(p))
    BY DEF PinsAsConfigured
  <2>1. Configured(p, askedAs[p]) /\ askedAs[p] \in SettingsOf(p)
    BY DEF PinsInv, PinsTypes
  <2>2. PICK s : s = askedAs[p]
    OBVIOUS
  <2>3. CASE s \in Settings
    <3>1. AsGpio(s)
      BY <2>3, SettingFields
    <3>2. IF s.irq = "either" THEN [Meaning(p) EXCEPT !.irq = "either"] = s
          ELSE Meaning(p) = s
      BY <2>1, <2>2, <2>3, MeansSetting
    <3> QED
      BY <2>2, <3>1, <3>2 DEF IsAsAsked, PinsInv, LevelsKept, OutputHeld
  <2>4. CASE s \in Functions(p)
    <3>1. ~ AsGpio(s)
      BY <2>4, FunctionFields
    <3>2. Meaning(p) = s
      BY <2>1, <2>2, <2>4, MeansFunction
    <3> QED
      BY <2>2, <3>1, <3>2 DEF IsAsAsked, PinsInv, LevelsKept, OutputHeld
  <2> QED
    BY <2>1, <2>2, <2>3, <2>4 DEF SettingsOf
<1>2. PinsSpec => []PinsInv
  BY PinsInvariance
<1> QED
  BY <1>1, <1>2, PTL
================================================================================
