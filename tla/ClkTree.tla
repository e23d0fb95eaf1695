-------------------------------- MODULE ClkTree --------------------------------
(***************************************************************************)
(* Va416x0/Mmio/ClkTree: a clock tree says where the clocks come from; to  *)
(* apply it is to write the registers of ClkGen one after the other, while *)
(* the core runs from what they select. The tree applied last, the active  *)
(* one, tells the drivers what their frequencies are.                      *)
(***************************************************************************)
EXTENDS Integers, FiniteSets

CONSTANTS
  Trees,              \* the trees applied
  HeartbeatFreq,      \* HEARTBEAT_OSC_FREQ
  MinFreq, MaxFreq,   \* limits of sysclk
  MinAdcFreq, MaxAdcFreq,
  FreqSize,           \* values of a frequency (2^32)
  MaxRef, MaxFb, MaxOut, MaxLpf   \* the largest dividers of the PLL

(***************************************************************************)
(* A tree is a record of ext and crystal (frequencies), ref, fb, out, lpf  *)
(* (PLL dividers), div and adc (dividers of sysclk), src and pll (sources).*)
(* The dividers are those of a register: one less.                         *)
(***************************************************************************)
Sources == {"HEARTBEAT_OSC", "EXTERNAL_CLK", "PLL", "CRYSTAL_OSC"}

HeartbeatTree ==
  [ext |-> 0, crystal |-> 0, ref |-> 0, fb |-> 0, out |-> 0, lpf |-> 0, div |-> 1,
   adc |-> 8, src |-> "HEARTBEAT_OSC", pll |-> "NONE"]

\* No frequency of a PLL overflows.
ASSUME ClkTreeAssumption ==
  /\ {HeartbeatFreq, MinFreq, MaxFreq, MinAdcFreq, MaxAdcFreq, FreqSize}
       \subseteq Nat \ {0}
  /\ {MaxRef, MaxFb, MaxOut, MaxLpf} \subseteq Nat
  /\ \A t \in Trees :
       /\ {t.ext, t.crystal, t.ref, t.fb, t.out, t.lpf, t.div, t.adc} \subseteq Nat
       /\ t.ext * (t.fb + 1) < FreqSize /\ t.crystal * (t.fb + 1) < FreqSize
       /\ t.src \in Sources /\ t.pll \in {"NONE", "EXTERNAL_CLK", "CRYSTAL_OSC"}

VARIABLES
  ctrl0,       \* CTRL0: the selected source, dividers, the PLL's input and mode
  ctrl1,       \* CTRL1: the sources enabled, and the code of the ADC's divider
  locked,      \* the PLL has locked
  slip,        \* pll_stat, as read
  applying,    \* the tree applyClkTree is called for, and where the call is
  activeTree,  \* s_activeClkTree
  applied,     \* what applyClkTree has returned
  clkStopped   \* an assertion has failed

clkVars == <<ctrl0, ctrl1, locked, slip, applying, activeTree, applied, clkStopped>>

-----------------------------------------------------------------------------
(***************************************************************************)
(* Frequencies                                                             *)
(***************************************************************************)
PllInput(t) == CASE t.pll = "EXTERNAL_CLK" -> t.ext
                 [] t.pll = "CRYSTAL_OSC" -> t.crystal
                 [] OTHER -> 0

PllFreq(t) ==
  (((PllInput(t) \div (t.ref + 1)) * (t.fb + 1)) % FreqSize) \div (t.out + 1)

calcSysclkFreq(t) ==
  (CASE t.src = "HEARTBEAT_OSC" -> HeartbeatFreq
     [] t.src = "EXTERNAL_CLK" -> t.ext
     [] t.src = "PLL" -> PllFreq(t)
     [] t.src = "CRYSTAL_OSC" -> t.crystal) \div t.div

Apb1Freq(t) == calcSysclkFreq(t) \div 2
Apb2Freq(t) == calcSysclkFreq(t) \div 4
AdcSampleFreq(t) == calcSysclkFreq(t) \div t.adc

Apb2Peripherals == {"RNG", "UART0", "UART1", "DAC", "ADC", "WATCHDOG", "UTILITY"}
SysclkPeripherals == {"ETH", "SPW", "IRQ_ROUTER", "DMA", "CLKGEN", "EBI"}

Apb1Peripherals ==
  {"UART2", "SPI0", "SPI1", "SPI2", "SPI3", "I2C0", "I2C1", "I2C2", "CAN0", "CAN1",
   "PORTA", "PORTB", "PORTC", "PORTD", "PORTE", "PORTF", "PORTG", "IOCONFIG"}

getPeripheralFreq(t, p) ==
  CASE p \in SysclkPeripherals -> calcSysclkFreq(t)
    [] p \in Apb2Peripherals -> Apb2Freq(t)
    [] p \in Apb1Peripherals -> Apb1Freq(t)

getTimerFreq(t, timer) == IF timer < 16 THEN Apb1Freq(t) ELSE Apb2Freq(t)

\* assertClkTreeValid
TreeValid(t) ==
  /\ t.ref <= MaxRef /\ t.fb <= MaxFb /\ t.out <= MaxOut /\ t.lpf <= MaxLpf
  /\ t.src = "PLL" <=> t.pll # "NONE"
  /\ {t.div, t.adc} \subseteq {1, 2, 4, 8}
  /\ calcSysclkFreq(t) \in MinFreq .. MaxFreq
  /\ AdcSampleFreq(t) \in MinAdcFreq .. MaxAdcFreq

-----------------------------------------------------------------------------
NotApplying == [at |-> "none", tree |-> HeartbeatTree]

\* A field of CTRL1 counts the divider of the ADC down, one of CTRL0 that of sysclk up.
AdcCode(d) == CASE d = 1 -> 3 [] d = 2 -> 2 [] d = 4 -> 1 [] OTHER -> 0
DivCode(d) == CASE d = 2 -> 1 [] d = 4 -> 2 [] d = 8 -> 3 [] OTHER -> 0

\* After a reset.
ClkInit ==
  /\ ctrl0 = [sel |-> "HEARTBEAT_OSC", div |-> 0, pll |-> "NONE", mode |-> "off",
              by |-> <<0, 0, 0, 0>>]
  /\ ctrl1 = [on |-> {}, adc |-> 0]
  /\ locked = FALSE /\ slip = FALSE
  /\ applying = NotApplying /\ activeTree = HeartbeatTree
  /\ applied = "NONE"
  /\ clkStopped = FALSE

Applies(at) == applying.at = at /\ ~ clkStopped
ApplyGoto(at) == applying' = [applying EXCEPT !.at = at]

\* CTRL0 as ctrl0_base has it: without a source, which selects the heartbeat.
Ctrl0Base(t, mode) ==
  [sel |-> "HEARTBEAT_OSC", div |-> DivCode(t.div), pll |-> t.pll, mode |-> mode,
   by |-> IF t.pll = "NONE" THEN <<0, 0, 0, 0>> ELSE <<t.ref, t.fb, t.out, t.lpf>>]

\* createClockTree asserts that the tree is valid.
InvalidTree(t) ==
  /\ Applies("none") /\ ~ TreeValid(t)
  /\ clkStopped' = TRUE
  /\ UNCHANGED <<ctrl0, ctrl1, locked, slip, applying, activeTree, applied>>

(***************************************************************************)
(* applyClkTree, called while the core runs from the heartbeat oscillator. *)
(* The sources are enabled, and given time.                                *)
(***************************************************************************)
EnableClkSources(t) ==
  /\ Applies("none") /\ TreeValid(t) /\ ctrl0.sel = "HEARTBEAT_OSC"
  /\ ctrl1' = [on |-> {t.src, t.pll} \cap {"EXTERNAL_CLK", "CRYSTAL_OSC"},
               adc |-> AdcCode(t.adc)]
  /\ applying' = [at |-> IF t.pll = "NONE" THEN "select" ELSE "off", tree |-> t]
  /\ applied' = "NONE"
  /\ locked' = (locked /\ ctrl0.pll \in ctrl1'.on)
  /\ UNCHANGED <<ctrl0, slip, activeTree, clkStopped>>

\* The dividers are set with the PLL off; it is reset, and then released.
WritePll(at, mode, next) ==
  /\ Applies(at)
  /\ ctrl0' = Ctrl0Base(applying.tree, mode)
  /\ locked' = FALSE
  /\ ApplyGoto(next)
  /\ UNCHANGED <<ctrl1, slip, activeTree, applied, clkStopped>>

PllOff == WritePll("off", "off", "reset")
PllReset == WritePll("reset", "reset", "on")
PllOn == WritePll("on", "on", "check")

\* Mutant of CheckLock: a slip is not looked at.
CheckNothing ==
  /\ Applies("check")
  /\ slip' = ~ locked
  /\ ApplyGoto("select")
  /\ UNCHANGED <<ctrl0, ctrl1, locked, activeTree, applied, clkStopped>>

\* The status is read, once; when it has slipped there is another wait.
CheckLock ==
  /\ Applies("check")
  /\ slip' = ~ locked
  /\ ApplyGoto(IF slip' THEN "again" ELSE "select")
  /\ UNCHANGED <<ctrl0, ctrl1, locked, activeTree, applied, clkStopped>>

\* After it the status read before is tested again: a failure.
CheckAgain ==
  /\ Applies("again")
  /\ IF slip THEN applied' = "FAILURE" /\ applying' = NotApplying
             ELSE ApplyGoto("select") /\ UNCHANGED applied
  /\ UNCHANGED <<ctrl0, ctrl1, locked, slip, activeTree, clkStopped>>

\* The source is selected and the tree becomes the active one.
SelectSysclk ==
  /\ Applies("select")
  /\ LET t == applying.tree
     IN  /\ ctrl0' = [Ctrl0Base(t, IF t.pll = "NONE" THEN "off" ELSE "on")
                        EXCEPT !.sel = t.src]
         /\ activeTree' = t
  /\ applied' = "SUCCESS"
  /\ applying' = NotApplying
  /\ UNCHANGED <<ctrl1, locked, slip, clkStopped>>

\* The PLL, external: it may lock when it is on and has its input.
PllLocks ==
  /\ ~ locked /\ ctrl0.mode = "on" /\ ctrl0.pll \in ctrl1.on
  /\ locked' = TRUE
  /\ UNCHANGED <<ctrl0, ctrl1, slip, applying, activeTree, applied, clkStopped>>

ClkNext ==
  \/ \E t \in Trees \cup {HeartbeatTree} : InvalidTree(t) \/ EnableClkSources(t)
  \/ PllOff \/ PllReset \/ PllOn \/ CheckLock \/ CheckAgain \/ SelectSysclk
  \/ PllLocks

ClkSpec == ClkInit /\ [][ClkNext]_clkVars

-----------------------------------------------------------------------------
(***************************************************************************)
(* Properties.                                                             *)
(***************************************************************************)
\* Whether a source runs, and the frequency it has on a board with the clocks of
\* tree t.
SourceRuns(source) ==
  \/ source = "HEARTBEAT_OSC"
  \/ source = "PLL" /\ locked /\ ctrl0.mode = "on" /\ ctrl0.pll \in ctrl1.on
  \/ source \in ctrl1.on

InputFreq(source, t) == IF source = "EXTERNAL_CLK" THEN t.ext ELSE t.crystal

RealFreq(t) ==
  CASE ctrl0.sel = "HEARTBEAT_OSC" -> HeartbeatFreq
    [] ctrl0.sel = "PLL" ->
         ((InputFreq(ctrl0.pll, t) \div (ctrl0.by[1] + 1)) * (ctrl0.by[2] + 1))
           \div (ctrl0.by[3] + 1)
    [] OTHER -> InputFreq(ctrl0.sel, t)

\* The frequency that a code of a divider makes of a frequency.
Divided(freq, code) ==
  freq \div (CASE code = 0 -> 1 [] code = 1 -> 2 [] code = 2 -> 4 [] code = 3 -> 8)

\* The core never runs from a source that does not run, whether or not the PLL
\* locks; and unless a call has failed, between calls the frequencies of the active
\* tree are those the registers make (ClkTreeVorago.cpp:37-180; ClkTree.cpp:40-98,
\* :212-214).
ActiveTreeTrue ==
  /\ SourceRuns(ctrl0.sel)
  /\ applied # "FAILURE" /\ applying = NotApplying =>
       LET real == Divided(RealFreq(activeTree), ctrl0.div)
       IN  /\ calcSysclkFreq(activeTree) = real
           /\ AdcSampleFreq(activeTree) = Divided(real, 3 - ctrl1.adc)
           /\ getPeripheralFreq(activeTree, "IRQ_ROUTER") = real
           /\ getTimerFreq(activeTree, 15) = getPeripheralFreq(activeTree, "IOCONFIG")
           /\ getTimerFreq(activeTree, 16) = getPeripheralFreq(activeTree, "WATCHDOG")

\* What the code does not do: applyClkTree "returns failure iff the PLL is unable
\* to lock" (ClkTree.hpp:120), so a PLL that has locked is no failure.
FailureIffUnlocked ==
  [][applied' = "FAILURE" /\ applied # "FAILURE" => ~ locked]_clkVars
================================================================================
