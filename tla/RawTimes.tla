-------------------------------- MODULE RawTimes -------------------------------
(***************************************************************************)
(* Va416x0/Os/TimerRawTime, a clock of two timers of which the high one    *)
(* counts the rounds of the low one, and Va416x0/Os/TimerSingleRawTime, a  *)
(* clock of one timer that wraps. Timers count down; clocks count up.      *)
(***************************************************************************)
EXTENDS Integers, Sequences

CONSTANTS
  LoReset,       \* s_timer_lo_reset
  HiReset,       \* s_timer_hi_reset
  SingleSize,    \* values of the single timer
  Spacing,       \* ticks that may pass from one read of a register to the next
  Second, Milli, \* microseconds of a second, and of a millisecond
  TimerHz,       \* frequencies of the timers, in ticks of a second
  MantissaSize,  \* values of an F32's mantissa, its leading bit included (2^24)
  Units,         \* distances of neighbouring F32 values: powers of two, as fractions
  MaxU32,        \* the largest U32
  TimerNumbers,  \* numbers that configure is called with
  MaxRawTicks    \* bound on the ticks counted

ASSUME RawTimesAssumption ==
  /\ LoReset \in Nat /\ HiReset \in Nat /\ SingleSize \in Nat \ {0}
  /\ Spacing \subseteq Nat \ {0}
  /\ \A a, b, c, d \in Spacing : a + b + c + d < LoReset
  /\ Milli \in Nat \ {0} /\ Second = Milli * Milli
  /\ TimerHz \subseteq Nat \ {0} /\ MaxU32 \in Nat
  /\ MantissaSize \in Nat /\ MantissaSize >= 2
  /\ Units \subseteq (Nat \ {0}) \X (Nat \ {0})
  /\ MaxRawTicks \in Nat /\ MaxRawTicks < (HiReset + 1) * (LoReset + 1)

VARIABLES
  timers,       \* s_timer_hi and s_timer_lo
  timersReady,  \* s_timers_initialized
  hz,           \* getActiveTimerFreq of the timers
  ticks,        \* ticks since initPeripherals (ghost)
  begunAt,      \* ticks when the reading began (ghost)
  raws,         \* what readRawCounts has read: hi_a, lo_a, hi_b, lo_b, hi_c
  earlier,      \* the value of a reading, of each clock
  reading,      \* the result of the last call of now
  interval,     \* the result of the last getTimeInterval and getDiffUsec
  rawStopped    \* an assertion has failed

rawVars == <<timers, timersReady, hz, ticks, begunAt, raws, earlier, reading,
             interval, rawStopped>>

NoTimers == <<0, 0>>
NoReading == [status |-> "NONE"]

RawInit ==
  /\ timers = NoTimers /\ timersReady = FALSE /\ hz \in TimerHz
  /\ ticks = 0 /\ begunAt = 0 /\ raws = <<>>
  /\ earlier = NoReading /\ reading = NoReading /\ interval = NoReading
  /\ rawStopped = FALSE

-----------------------------------------------------------------------------
\* Timers 0 to 15 are clocked by APB1, 16 to 23 by APB2.
SameDomain(hi, lo) ==
  \/ hi <= 15 /\ lo <= 15
  \/ {hi, lo} \subseteq 16 .. 23

ConfigureTimers(hi, lo) ==
  /\ timers = NoTimers /\ ~ rawStopped
  /\ IF hi # lo /\ SameDomain(hi, lo)
     THEN timers' = <<hi, lo>> /\ UNCHANGED rawStopped
     ELSE rawStopped' = TRUE /\ UNCHANGED timers
  /\ UNCHANGED <<timersReady, hz, ticks, begunAt, raws, earlier, reading, interval>>

\* Both timers start from their reset values in one critical section.
InitPeripherals ==
  /\ ~ timersReady /\ ~ rawStopped
  /\ IF timers = NoTimers
     THEN rawStopped' = TRUE /\ UNCHANGED timersReady
     ELSE timersReady' = TRUE /\ UNCHANGED rawStopped
  /\ UNCHANGED <<timers, hz, ticks, begunAt, raws, earlier, reading, interval>>

-----------------------------------------------------------------------------
\* The registers after n ticks. In the tick in which the low timer is 0 the high
\* one may show the old value or the new one.
LoCount(n) == LoReset - (n % (LoReset + 1))
Rounds(n) == n \div (LoReset + 1)
HiCounts(n) == {HiReset - Rounds(n)}
               \cup (IF LoCount(n) = 0 THEN {HiReset - Rounds(n) - 1} ELSE {})
SingleCount(n) == SingleSize - 1 - (n % SingleSize)

\* readRawCounts: five reads in a critical section.
ReadRawCount ==
  /\ timersReady /\ ~ rawStopped /\ Len(raws) < 5 /\ ticks < MaxRawTicks
  /\ \E g \in IF raws = <<>> THEN {0} ELSE Spacing :
       /\ ticks' = ticks + g
       /\ \E n \in IF Len(raws) % 2 = 0 THEN HiCounts(ticks') ELSE {LoCount(ticks')} :
            raws' = Append(raws, n)
  /\ begunAt' = IF raws = <<>> THEN ticks ELSE begunAt
  /\ reading' = IF raws = <<>> THEN NoReading ELSE reading
  /\ interval' = IF raws = <<>> THEN NoReading ELSE interval
  /\ UNCHANGED <<timers, timersReady, hz, earlier, rawStopped>>

\* Mutant of ValidCounts: the high timer is not read again.
FirstCounts(r) == <<r[1], r[2]>>

\* The counts between two equal readings of the high timer.
ValidCounts(r) ==
  LET first == r[1] = r[3] /\ r[2] # 0
  IN  CASE first -> <<r[1], r[2]>>
        [] ~ first /\ r[3] = r[5] /\ r[4] # 0 -> <<r[3], r[4]>>
        [] OTHER -> <<>>

\* now, of both clocks. The time the reading began (at) is a ghost.
Now ==
  /\ Len(raws) = 5
  /\ reading' =
       LET v == ValidCounts(raws)
       IN  IF v = <<>> THEN [status |-> "OTHER_ERROR"]
           ELSE [status |-> "OP_OK",
                 val |-> (HiReset - v[1]) * (LoReset + 1) + (LoReset - v[2]),
                 single |-> SingleSize - 1 - SingleCount(begunAt),
                 at |-> begunAt]
  /\ raws' = <<>>
  /\ UNCHANGED <<timers, timersReady, hz, ticks, begunAt, earlier, interval,
                 rawStopped>>

\* now before initPeripherals.
NowTooEarly ==
  /\ ~ timersReady /\ ~ rawStopped
  /\ rawStopped' = TRUE
  /\ UNCHANGED <<timers, timersReady, hz, ticks, begunAt, raws, earlier, reading,
                 interval>>

Keep ==
  /\ reading.status = "OP_OK" /\ raws = <<>> /\ earlier = NoReading
  /\ earlier' = reading
  /\ reading' = NoReading
  /\ UNCHANGED <<timers, timersReady, hz, ticks, begunAt, raws, interval, rawStopped>>

-----------------------------------------------------------------------------
(***************************************************************************)
(* F32 arithmetic. A number is a fraction <<numerator, denominator>>; F32   *)
(* is the nearest one that has a mantissa, of two as near the even one.    *)
(***************************************************************************)
AsFraction(n) == <<n, 1>>
Times(x, y) == <<x[1] * y[1], x[2] * y[2]>>
Over(x, y) == <<x[1] * y[2], x[2] * y[1]>>

\* static_cast<U32>
Truncated(x) == x[1] \div x[2]

NearestEven(n, d) ==
  LET q == n \div d
      r == 2 * (n % d)
  IN  IF r < d \/ (r = d /\ q % 2 = 0) THEN q ELSE q + 1

\* x is at least half a mantissa of this unit, and less than a whole one.
HasUnit(x, u) ==
  /\ 2 * x[1] * u[2] >= MantissaSize * u[1] * x[2]
  /\ x[1] * u[2] < MantissaSize * u[1] * x[2]

F32(x) ==
  LET fit == {u \in Units : HasUnit(x, u)}
      u == CHOOSE v \in fit : TRUE
  IN  IF fit = {} THEN x
      ELSE <<NearestEven(x[1] * u[2], x[2] * u[1]) * u[1], u[2]>>

(***************************************************************************)
(* getTimeInterval of two cascaded timers, getDiffUsec of the single one.  *)
(***************************************************************************)
\* static_cast<F32>(delta_s_rem) / (static_cast<F32>(timer_khz) / 1000.F)
KilohertzMicros(rem) ==
  Truncated(F32(Over(F32(AsFraction(rem)),
                     F32(Over(F32(AsFraction(hz \div Milli)), AsFraction(Milli))))))

\* subseconds * (1000.F * 1000.F)
HertzMicros(rem) ==
  Truncated(F32(Times(F32(Over(F32(AsFraction(rem)), F32(AsFraction(hz)))),
                      AsFraction(Second))))

BelowSecond(us) == IF us >= Second THEN Second - 1 ELSE us

\* The microseconds of less than a second: exact for frequencies in megahertz.
Microseconds(rem) ==
  BelowSecond(CASE hz % Second = 0 -> rem \div (hz \div Second)
                [] hz % Second # 0 /\ hz % Milli = 0 -> KilohertzMicros(rem)
                [] hz % Second # 0 /\ hz % Milli # 0 -> HertzMicros(rem))

\* Mutant of SingleMicros: the integer path, whatever the frequency.
SingleMicrosInteger(delta) == delta \div (hz \div Second)

\* The single clock does not cut the seconds off, and has one path for fractions of
\* a megahertz (m_timer_mhz_float).
SingleMicros(delta) ==
  IF hz % Second = 0 THEN delta \div (hz \div Second)
  ELSE Truncated(F32(Over(F32(AsFraction(delta)),
                          F32(Over(F32(AsFraction(hz)), AsFraction(Second))))))

\* 32-bit division when the ticks fit, 64-bit division when they do not.
Quotient(delta) ==
  LET d == IF delta <= MaxU32 THEN delta % (MaxU32 + 1) ELSE delta
  IN  [s |-> d \div hz, rem |-> d % hz]

\* Intervals are positive whatever the order.
DeltaTicks(v, w) == IF v > w THEN v - w ELSE w - v

SingleDelta(v, w) == (v - w) % SingleSize

\* Of the later reading to the earlier one or the other way round; the single
\* clock's difference is taken from the later one only.
GetTimeInterval ==
  /\ earlier # NoReading /\ reading.status = "OP_OK" /\ raws = <<>>
  /\ interval = NoReading
  /\ \E delta \in {DeltaTicks(reading.val, earlier.val),
                   DeltaTicks(earlier.val, reading.val)} :
     LET q == Quotient(delta)
     IN  interval' =
           IF q.s > MaxU32 THEN [status |-> "OP_OVERFLOW"]
           ELSE [status |-> "OP_OK", s |-> q.s, us |-> Microseconds(q.rem),
                 single |-> SingleMicros(SingleDelta(reading.single, earlier.single))]
  /\ UNCHANGED <<timers, timersReady, hz, ticks, begunAt, raws, earlier, reading,
                 rawStopped>>

Elapse ==
  /\ timersReady /\ raws = <<>> /\ ticks < MaxRawTicks
  /\ ticks' = ticks + 1
  /\ reading' = NoReading /\ interval' = NoReading
  /\ UNCHANGED <<timers, timersReady, hz, begunAt, raws, earlier, rawStopped>>

RawNext ==
  \/ \E hi, lo \in TimerNumbers : ConfigureTimers(hi, lo)
  \/ InitPeripherals
  \/ ReadRawCount \/ Now \/ NowTooEarly \/ Keep
  \/ GetTimeInterval \/ Elapse

RawSpec == RawInit /\ [][RawNext]_rawVars

-----------------------------------------------------------------------------
(***************************************************************************)
(* Properties.                                                             *)
(***************************************************************************)
\* As long as the five reads take less than a round of the low timer, now
\* succeeds and returns a time between its beginning and its end, wherever the
\* low timer rolls over (TimerRawTime.cpp:73-128).
ReadingsTrue ==
  reading # NoReading =>
    /\ reading.status = "OP_OK"
    /\ begunAt <= reading.val /\ reading.val <= ticks

\* The interval of two readings has the seconds of their distance, and less than a
\* second besides; for timers in megahertz it is their distance to the microsecond,
\* rounded down, and so is that of the single timer when less than a round of it has
\* passed (:134-205; TimerSingleRawTime.cpp:96-127).
IntervalsTrue ==
  interval.status # "OP_OK" \/
    LET distance == reading.val - earlier.val
        span == reading.at - earlier.at
    IN  /\ interval.s = distance \div hz
        /\ interval.us \in 0 .. Second - 1
        /\ hz % Second = 0 =>
             /\ interval.s * Second + interval.us = (distance * Second) \div hz
             /\ span < SingleSize => interval.single = (span * Second) \div hz

\* The clocks tell the time: what is read, and what is subtracted.
ClocksTrue == ReadingsTrue /\ IntervalsTrue

\* us is the whole part of a number that four roundings, each to one part in a
\* mantissa, make of the microseconds that n ticks last.
FourRoundings(us, n) ==
  LET less == (MantissaSize - 1) * (MantissaSize - 1)
      more == (MantissaSize + 1) * (MantissaSize + 1)
  IN  /\ us * hz * less <= n * Second * more
      /\ n * Second * less < (us + 1) * hz * more

\* At other frequencies the microseconds of both clocks are off by what the roundings
\* of F32 make of them, a part of the ticks, and no more; for 2^24 values of a
\* mantissa that is below a microsecond in a second, but many of them in a long
\* interval of the single clock (TimerRawTime.cpp:179-204; TimerSingleRawTime.cpp:131).
IntervalsClose ==
  interval.status # "OP_OK" \/
    LET span == reading.at - earlier.at
    IN  /\ FourRoundings(interval.us, (reading.val - earlier.val) % hz)
        /\ span < SingleSize => FourRoundings(interval.single, span)
================================================================================
