------------------------------- MODULE Registers -------------------------------
(***************************************************************************)
(* Va416x0/Mmio, the wrappers of the peripherals: the word of the bus that *)
(* each accessor of each peripheral reads or writes, the clock enables and *)
(* resets that SysConfig keeps, and the numbers by which interrupts, DMA   *)
(* triggers and cascades name a peripheral. All of it is computed from the *)
(* number of an instance, by sums, by disjunctions of bits and by shifts.  *)
(***************************************************************************)
EXTENDS ClkTree, Bitwise

CONSTANTS
  NvicExceptions,   \* bound: the exceptions whose interrupts are controlled
  MaxClocked        \* bound: clocks on at a time

VARIABLES
  accessed,    \* the accessor called last and what it computed
  enables,     \* TIM_CLK_ENABLES, PERIPHERAL_CLK_ENABLE: the bits that are set
  resets,      \* TIM_RESETS, PERIPHERAL_RESET: the bits that are clear
  clockedNow   \* history: the peripherals whose clock was turned on

registerVars == <<accessed, enables, resets, clockedNow>>

\* Registers with a number: {<<name, offset, number>>}. Single is a register of its own
\* number, Block some that follow each other.
Single(at, name) == {<<name, at, 0>>}
Block(from, names) == {<<names[k], from + 4 * (k - 1), 0>> : k \in DOMAIN names}

SysConfigRegisters ==
  Block(16, <<"ROM_PROT", "ROM_SCRUB", "RAM0_SCRUB", "RAM1_SCRUB", "IRQ_ENB", "IRQ_RAW",
     "IRQ_END", "IRQ_CLR", "RAM0_SBE", "RAM1_SBE", "RAM0_MBE", "RAM1_MBE", "ROM_SBE",
     "ROM_MBE", "ROM_RETRIES", "REFRESH_CONFIG_H", "TIM_RESETS", "TIM_CLK_ENABLES",
     "PERIPHERAL_RESET", "PERIPHERAL_CLK_ENABLE", "SPW_M4_CTRL", "PMU_CTRL",
     "WAKEUP_CNT", "EBI_CFG0", "EBI_CFG1", "EBI_CFG2", "EBI_CFG3">>)
  \cup Block(\h80, <<"SW_CLKDIV10", "REFRESH_CONFIG_L">>)
  \cup Block(\hFEC, <<"EF_CONFIG", "EF_ID0", "EF_ID1", "PROCID", "PERID">>)

SysControlRegisters ==
  Single(\h008, "ACTLR")
  \cup Block(\hD00, <<"CPUID", "ICSR", "VTOR", "AIRCR", "SCR", "CCR", "SHPR1", "SHPR2",
     "SHPR3", "SHCSR", "CFSR", "HFSR", "DFSR", "MMFAR", "BFAR", "AFSR", "ID_PFR0",
     "ID_PFR1", "ID_DFR0", "ID_AFR0", "ID_MMFR0", "ID_MMFR1", "ID_MMFR2", "ID_MMFR3",
     "ID_ISAR0", "ID_ISAR1", "ID_ISAR2", "ID_ISAR3", "ID_ISAR4">>)
  \cup Single(\hD88, "CPACR") \cup Single(\hF00, "STIR")
  \cup Block(\hF34, <<"FPCCR", "FPCAR", "FPDSCR", "MVFR0", "MVFR1">>)

SysTickRegisters == Block(\h10, <<"CSR", "RVR", "CVR", "CALIB">>)

PortBlock ==
  Block(0, <<"DATAIN", "DATAINRAW", "DATAOUT", "DATAOUTRAW", "SETOUT", "CLROUT",
     "TOGOUT", "DATAMASK", "DIR", "PULSE", "PULSEBASE", "DELAY1", "DELAY2", "IRQ_SEN",
     "IRQ_EDGE", "IRQ_EVT", "IRQ_ENB", "IRQ_RAW", "IRQ_END", "EDGE_STATUS">>)

I2cRegisters ==
  Block(0, <<"CTRL", "CLKSCALE", "WORDS", "ADDRESS", "DATA", "CMD", "STATUS", "STATE",
     "TXCOUNT", "RXCOUNT", "IRQ_ENB", "IRQ_RAW", "IRQ_END", "IRQ_CLR", "RXFIFOIRQTRG",
     "TXFIFOIRQTRG", "FIFO_CLR", "TMCONFIG", "CLKTOLIMIT">>)
  \cup Block(\h100, <<"S0_CTRL", "S0_MAXWORDS", "S0_ADDRESS", "S0_ADDRESSMASK",
     "S0_DATA", "S0_LASTADDRESS", "S0_STATUS", "S0_STATE", "S0_TXCOUNT", "S0_RXCOUNT",
     "S0_IRQ_ENB", "S0_IRQ_RAW", "S0_IRQ_END", "S0_IRQ_CLR", "S0_RXFIFOIRQTRG",
     "S0_TXFIFOIRQTRG", "S0_FIFO_CLR", "S0_ADDRESSB", "S0_ADDRESSMASKB">>)

UartRegisters ==
  Block(0, <<"DATA", "ENABLE", "CTRL", "CLKSCALE", "RXSTATUS", "TXSTATUS", "FIFO_CLR",
     "TXBREAK", "ADDR9", "ADDR9MASK", "IRQ_ENB", "IRQ_RAW", "IRQ_END", "IRQ_CLR",
     "RXFIFOIRQTRG", "TXFIFOIRQTRG", "RXFIFORTSTRG", "STATE">>)

SpiRegisters ==
  Block(0, <<"CTRL0", "CTRL1", "DATA", "STATUS", "CLKPRESCALE", "IRQ_ENB", "IRQ_RAW",
     "IRQ_END", "IRQ_CLR", "RXFIFOIRQTRG", "TXFIFOIRQTRG", "FIFO_CLR", "STATE">>)

TimerRegisters ==
  Block(0, <<"CTRL", "RST_VALUE", "CNT_VALUE", "ENABLE", "CSD_CTRL", "CASCADE0",
     "CASCADE1", "CASCADE2", "PWMA_VALUE", "PWMB_VALUE">>)

UtilRegisters ==
  Block(0, <<"SYND_DATA", "SYND_SYND", "SYND_ENC_32_44", "SYND_CHECK_32_44_DATA",
     "SYND_CHECK_32_44_SYND", "ROM_TRAP_ADDR", "ROM_TRAP_SYND", "RAM_TRAP_ADDR0",
     "RAM_TRAP_SYND0", "RAM_TRAP_ADDR1", "RAM_TRAP_SYND1">>)
  \cup Block(\h120, <<"SYND_ENC_32_52", "SYND_CHECK_32_52_DATA",
     "SYND_CHECK_32_52_SYND">>)
  \cup Single(\hFFC, "PERID")

WatchdogRegisters ==
  Block(0, <<"WDOGLOAD", "WDOGVALUE", "WDOGCONTROL", "WDOGINTCLR", "WDOGRIS",
     "WDOGMIS">>)
  \cup Single(\hC00, "WDOGLOCK")

AdcRegisters ==
  Block(0, <<"CTRL", "FIFO_DATA", "STATUS", "IRQ_ENB", "IRQ_RAW", "IRQ_END", "IRQ_CLR",
     "RXFIFOIRQTRG", "FIFO_CLR">>)
  \cup Single(\hFFC, "PERID")

ClkGenRegisters == Block(0, <<"CTRL0", "STAT", "CTRL1">>)

DmaRegisters ==
  Block(0, <<"DMA_STATUS", "DMA_CFG", "CTRL_BASE_PTR", "ALT_CTRL_BASE_PTR",
     "DMA_WAITONREQ_STATUS", "CHNL_SW_REQUEST", "CHNL_USEBURST_SET",
     "CHNL_USEBURST_CLR", "CHNL_REQ_MASK_SET", "CHNL_REQ_MASK_CLR", "CHNL_ENABLE_SET",
     "CHNL_ENABLE_CLR", "CHNL_PRI_ALT_SET", "CHNL_PRI_ALT_CLR", "CHNL_PRIORITY_SET",
     "CHNL_PRIORITY_CLR">>)
  \cup Single(\h4C, "ERR_CLR")

\* DMASEL of each of the four channels.
IrqRouterRegisters ==
  {<<"DMASEL", 4 * channel, channel>> : channel \in 0 .. 3}
  \cup Block(16, <<"DMATTSEL", "ADCSEL", "DAC0SEL", "DAC1SEL">>)

\* The word of each of the 16 pins of the 7 ports, and the dividers.
IoConfigRegisters ==
  {<<"PORTS", \h40 * port + 4 * pin, 16 * port + pin>> :
     port \in 0 .. 6, pin \in 0 .. 15}
  \cup {<<"CLKDIV", \h1C0 + 4 * k, k>> : k \in 0 .. 7}

-----------------------------------------------------------------------------
\* exception_to_offset, exception_to_bitmask: the registers of an exception.
NvicBase ==
  [ISER |-> \h100, ICER |-> \h180, ISPR |-> \h200, ICPR |-> \h280, IABR |-> \h300]
ExceptionOffset(e) == 4 * ((e - 16) \div 32)
ExceptionBit(e) == (e - 16) % 32

NvicRegisters ==
  {<<name, NvicBase[name] | ExceptionOffset(e), e>> :
     name \in DOMAIN NvicBase, e \in NvicExceptions}
  \cup {<<"IPR", \h400 + e - 16, e>> : e \in NvicExceptions}

RegistersOf ==
  [SYSCONFIG |-> SysConfigRegisters, SYSCONTROL |-> SysControlRegisters,
   SYSTICK |-> SysTickRegisters, NVIC |-> NvicRegisters, PORT |-> PortBlock,
   I2C |-> I2cRegisters, UART |-> UartRegisters, SPI |-> SpiRegisters,
   TIM |-> TimerRegisters, UTILITY |-> UtilRegisters, WATCHDOG |-> WatchdogRegisters,
   ADC |-> AdcRegisters, CLKGEN |-> ClkGenRegisters, DMA |-> DmaRegisters,
   IRQ_ROUTER |-> IrqRouterRegisters, IOCONFIG |-> IoConfigRegisters]

Peripherals == DOMAIN RegistersOf

Instances(dev) ==
  CASE dev = "SPI" -> 0 .. 3 [] dev \in {"UART", "I2C"} -> 0 .. 2
    [] dev = "PORT" -> 0 .. 6 [] dev = "TIM" -> 0 .. 23 [] OTHER -> {0}

\* timer_index_to_address
TimerBaseOffByOne(i) ==
  IF i <= 16 THEN <<\h4001, \h8000 + \h400 * i>>
  ELSE <<\h4002, \h8000 + \h400 * (i - 16)>>
TimerBase(i) ==
  IF i < 16 THEN <<\h4001, \h8000 + \h400 * i>>
  ELSE <<\h4002, \h8000 + \h400 * (i - 16)>>

\* An address is its two halves.
BaseOf(dev, i) ==
  CASE dev = "TIM" -> TimerBase(i)
    [] dev = "SPI" -> <<\h4001, \h5000 + \h400 * i>>
    [] dev = "I2C" -> <<\h4001, \h6000 + \h400 * i>>
    [] dev = "UART" ->
         <<<<\h4002, \h4000>>, <<\h4002, \h5000>>, <<\h4001, \h7000>>>>[i + 1]
    [] dev = "PORT" -> <<\h4001, \h2000 | (i * \h400)>>
    [] dev = "SYSCONFIG" -> <<\h4001, 0>>
    [] dev = "IOCONFIG" -> <<\h4001, \h1000>>
    [] dev = "UTILITY" -> <<\h4002, 0>>
    [] dev = "WATCHDOG" -> <<\h4002, \h1000>>
    [] dev = "ADC" -> <<\h4002, \h2000>>
    [] dev = "DMA" -> <<\h4000, \h1000>>
    [] dev = "IRQ_ROUTER" -> <<\h4000, \h2000>>
    [] dev = "CLKGEN" -> <<\h4000, \h6000>>
    [] dev \in {"SYSCONTROL", "SYSTICK", "NVIC"} -> <<\hE000, \hE000>>

\* The bits of a word that an accessor of the NVIC is about; all of the others'.
BitsAt(dev, r, low) ==
  IF dev # "NVIC" THEN 0 .. 31
  ELSE IF r[1] = "IPR" THEN (8 * (low % 4)) .. (8 * (low % 4) + 7)
  ELSE {ExceptionBit(r[3])}

\* The word and the bits of register r of the instance.
Location(dev, i, r) ==
  LET base == BaseOf(dev, i)
      low == IF dev = "PORT" THEN base[2] | r[2] ELSE base[2] + r[2]
  IN [word |-> <<base[1], low - (low % 4)>>, bits |-> BitsAt(dev, r, low)]

\* InterruptControl keeps the address of an exception's ISER, and adds.
CachedLow(name, e) ==
  (\hE000 | NvicBase["ISER"] | ExceptionOffset(e)) + (NvicBase[name] - NvicBase["ISER"])

\* The accessors of each peripheral: all its registers can be read and written but
\* some that have no accessor to read them, and some that have none to write them.
Only(unread, unwritten) == [unread |-> unread, unwritten |-> unwritten]

SysConfigAccess == Only({}, {})
SysControlAccess ==
  Only({"STIR"},
       {"CPUID", "ID_PFR0", "ID_PFR1", "ID_DFR0", "ID_AFR0", "ID_MMFR0", "ID_MMFR1",
        "ID_MMFR2", "ID_MMFR3", "ID_ISAR0", "ID_ISAR1", "ID_ISAR2", "ID_ISAR3",
        "ID_ISAR4", "MVFR0", "MVFR1"})
SysTickAccess == Only({}, {"CALIB"})
NvicAccess == Only({"ICER", "ICPR"}, {"IABR"})
PortAccess == Only({}, {})
I2cAccess ==
  Only({"CMD", "IRQ_CLR", "FIFO_CLR", "S0_IRQ_CLR", "S0_FIFO_CLR"},
       {"STATUS", "STATE", "TXCOUNT", "RXCOUNT", "IRQ_RAW", "IRQ_END",
        "S0_LASTADDRESS", "S0_STATUS", "S0_STATE", "S0_TXCOUNT", "S0_RXCOUNT",
        "S0_IRQ_RAW", "S0_IRQ_END"})
UartAccess ==
  Only({"FIFO_CLR", "TXBREAK", "IRQ_CLR"},
       {"RXSTATUS", "TXSTATUS", "IRQ_RAW", "IRQ_END", "STATE"})
SpiAccess == Only({"IRQ_CLR", "FIFO_CLR"}, {"IRQ_RAW", "IRQ_END", "STATE"})
TimerAccess == Only({}, {})
UtilAccess ==
  Only({}, {"SYND_ENC_32_44", "SYND_CHECK_32_44_DATA", "SYND_CHECK_32_44_SYND",
            "SYND_ENC_32_52", "SYND_CHECK_32_52_DATA", "SYND_CHECK_32_52_SYND",
            "PERID"})
WatchdogAccess == Only({"WDOGINTCLR"}, {"WDOGVALUE", "WDOGRIS", "WDOGMIS"})
AdcAccess ==
  Only({"IRQ_CLR", "FIFO_CLR"}, {"FIFO_DATA", "STATUS", "IRQ_RAW", "IRQ_END", "PERID"})
ClkGenAccess == Only({}, {"STAT"})
DmaAccess ==
  Only({"DMA_CFG", "CHNL_SW_REQUEST", "CHNL_USEBURST_CLR", "CHNL_REQ_MASK_CLR",
        "CHNL_ENABLE_CLR", "CHNL_PRI_ALT_CLR", "CHNL_PRIORITY_CLR"},
       {"DMA_STATUS", "ALT_CTRL_BASE_PTR", "DMA_WAITONREQ_STATUS"})
IrqRouterAccess == Only({}, {})
IoConfigAccess == Only({}, {})

AccessOf ==
  [SYSCONFIG |-> SysConfigAccess, SYSCONTROL |-> SysControlAccess,
   SYSTICK |-> SysTickAccess, NVIC |-> NvicAccess, PORT |-> PortAccess,
   I2C |-> I2cAccess, UART |-> UartAccess, SPI |-> SpiAccess, TIM |-> TimerAccess,
   UTILITY |-> UtilAccess, WATCHDOG |-> WatchdogAccess, ADC |-> AdcAccess,
   CLKGEN |-> ClkGenAccess, DMA |-> DmaAccess, IRQ_ROUTER |-> IrqRouterAccess,
   IOCONFIG |-> IoConfigAccess]

(***************************************************************************)
(* Numbers of interrupts, of cascades and of DMA triggers.                 *)
(***************************************************************************)
Numbered ==
  [exception |-> {<<"TIM", i>> : i \in 0 .. 23}
                   \cup {<<way, c>> : way \in {"DMA_DONE", "DMA_ACTIVE"}, c \in 0 .. 3}
                   \cup {<<"PIN", k>> : k \in 0 .. 6 * 16 - 1}
                   \cup {<<way, i>> : way \in {"SPI_TX", "SPI_RX"}, i \in 0 .. 3},
   cascade |-> {<<"TIM", i>> : i \in 0 .. 23}
                 \cup {<<"PIN", k>> : k \in 0 .. 5 * 16 - 1},
   trigger |-> {<<way, i>> : way \in {"UART_TX", "UART_RX"}, i \in 0 .. 2}]

ExceptionBase ==
  [TIM |-> 64, DMA_DONE |-> 194, DMA_ACTIVE |-> 190, PIN |-> 94, SPI_TX |-> 32,
   SPI_RX |-> 33]

ExceptionOf(u) ==
  ExceptionBase[u[1]] + (IF u[1] \in {"SPI_TX", "SPI_RX"} THEN 2 * u[2] ELSE u[2])
CascadeOf(u) == IF u[1] = "TIM" THEN 80 + u[2] ELSE u[2]
TriggerOf(u) == (IF u[1] = "UART_TX" THEN 8 ELSE 9) + 2 * u[2]

NumberOf(kind, u) ==
  CASE kind = "exception" -> ExceptionOf(u) [] kind = "cascade" -> CascadeOf(u)
    [] kind = "trigger" -> TriggerOf(u)

\* The exceptions that have one number, and those there are at all; no cascade.
NamedExceptions ==
  {16 + n : n \in 24 .. 36 \cup {38} \cup 40 .. 47 \cup {72, 74, 76, 77}
                 \cup 182 .. 195}
AllExceptions == 16 .. 16 + 195
InvalidCascade == 127

(***************************************************************************)
(* ClockedPeripheral: the bit of a peripheral in the registers of          *)
(* SysConfig. The timers have registers of their own.                      *)
(***************************************************************************)
FirstIndex ==
  [SPI |-> 0, UART |-> 4, I2C |-> 7, CAN0 |-> 10, CAN1 |-> 11, RNG |-> 12, ADC |-> 13,
   DAC |-> 14, DMA |-> 15, EBI |-> 16, ETH |-> 17, SPW |-> 18, CLKGEN |-> 19,
   IRQ_ROUTER |-> 20, IOCONFIG |-> 21, UTILITY |-> 22, WATCHDOG |-> 23, PORT |-> 24,
   TIM |-> 0]

Clockable == UNION {{<<dev, i>> : i \in Instances(dev)} : dev \in DOMAIN FirstIndex}

ClockRegister(u) == IF u[1] = "TIM" THEN "TIM" ELSE "PERIPHERAL"
ClockBit(u) == FirstIndex[u[1]] + u[2]

get_clk_enabled(u) == ClockBit(u) \in enables[ClockRegister(u)]

-----------------------------------------------------------------------------
Nothing == [kind |-> "none"]
NoBits == [TIM |-> {}, PERIPHERAL |-> {}]

RegistersInit ==
  /\ accessed = Nothing /\ enables = NoBits /\ resets = NoBits /\ clockedNow = {}

\* An accessor of any register, called for any instance. One call is enough: what
\* it computes depends on nothing else.
AccessRegister ==
  /\ accessed = Nothing /\ clockedNow = {} /\ resets = NoBits
  /\ \E dev \in Peripherals, way \in {"read", "write"} :
       \E i \in Instances(dev), r \in RegistersOf[dev] :
         /\ way = "read" => r[1] \notin AccessOf[dev].unread
         /\ way = "write" => r[1] \notin AccessOf[dev].unwritten
         /\ accessed' =
              [kind |-> way, unit |-> <<dev, i, r>>, at |-> Location(dev, i, r)]
  /\ UNCHANGED <<enables, resets, clockedNow>>

AskNumber ==
  /\ accessed = Nothing /\ clockedNow = {} /\ resets = NoBits
  /\ \E kind \in DOMAIN Numbered :
       \E u \in Numbered[kind] :
         accessed' = [kind |-> kind, unit |-> u, number |-> NumberOf(kind, u)]
  /\ UNCHANGED <<enables, resets, clockedNow>>

\* SysConfig::set_clk_enabled. MaxClocked is a bound.
WrittenBits(bits, b, on) == IF on THEN bits \cup {b} ELSE bits \ {b}

SetClkEnabled ==
  /\ accessed = Nothing /\ resets = NoBits
  /\ \E u \in Clockable, on \in BOOLEAN :
       /\ Cardinality(clockedNow \ {u}) < MaxClocked
       /\ enables' =
            [enables EXCEPT ![ClockRegister(u)] = WrittenBits(@, ClockBit(u), on)]
       /\ clockedNow' = IF on THEN clockedNow \cup {u} ELSE clockedNow \ {u}
  /\ UNCHANGED <<accessed, resets>>

\* SysConfig::reset_peripheral: the bit low and all others high, then all high.
BeginReset ==
  /\ accessed = Nothing /\ resets = NoBits /\ clockedNow = {}
  /\ \E u \in Clockable :
       /\ resets' = [resets EXCEPT ![ClockRegister(u)] = {ClockBit(u)}]
       /\ accessed' = [kind |-> "reset", unit |-> u]
  /\ UNCHANGED <<enables, clockedNow>>

EndReset ==
  /\ accessed.kind = "reset"
  /\ resets' = [resets EXCEPT ![ClockRegister(accessed.unit)] = {}]
  /\ accessed' = Nothing
  /\ UNCHANGED <<enables, clockedNow>>

RegistersNext ==
  AccessRegister \/ AskNumber \/ SetClkEnabled \/ BeginReset \/ EndReset

-----------------------------------------------------------------------------
\* What the chip clocks a bus with, by the upper half of its addresses.
BusFreq(t, high) ==
  CASE high = \h4000 -> calcSysclkFreq(t) [] high = \h4001 -> Apb1Freq(t)
    [] high = \h4002 -> Apb2Freq(t)

ClkName(dev, i) ==
  CASE dev = "SPI" -> <<"SPI0", "SPI1", "SPI2", "SPI3">>[i + 1]
    [] dev = "UART" -> <<"UART0", "UART1", "UART2">>[i + 1]
    [] dev = "I2C" -> <<"I2C0", "I2C1", "I2C2">>[i + 1]
    [] dev = "PORT" ->
         <<"PORTA", "PORTB", "PORTC", "PORTD", "PORTE", "PORTF", "PORTG">>[i + 1]
    [] OTHER -> dev

TreeFreq(t, dev, i) ==
  IF dev = "TIM" THEN getTimerFreq(t, i) ELSE getPeripheralFreq(t, ClkName(dev, i))

Page(word) == <<word[1], word[2] \div 4096>>

\* No other accessor reaches the bits of the one called last, which is on the bus
\* that the clock tree clocks its peripheral with, and which InterruptControl, with
\* its addresses computed in advance, finds as well.
AddressApart ==
  accessed.kind \in {"read", "write"} =>
    LET dev == accessed.unit[1]
        at == accessed.at
    IN /\ \A d \in Peripherals : \A i \in Instances(d) :
            Page(BaseOf(d, i)) = Page(at.word) =>
              \A r \in RegistersOf[d] :
                LET other == Location(d, i, r)
                IN other.word = at.word /\ other.bits \cap at.bits # {} =>
                     <<d, i, r>> = accessed.unit
       /\ dev \in DOMAIN FirstIndex =>
            TreeFreq(HeartbeatTree, dev, accessed.unit[2])
              = BusFreq(HeartbeatTree, at.word[1])
       /\ dev = "NVIC" /\ accessed.unit[3][1] \in DOMAIN NvicBase =>
            CachedLow(accessed.unit[3][1], accessed.unit[3][3]) = at.word[2]

\* No other interrupt, cascade or trigger has the number computed last.
NumberApart ==
  accessed.kind \in DOMAIN Numbered =>
    /\ \A u \in Numbered[accessed.kind] :
         NumberOf(accessed.kind, u) = accessed.number => u = accessed.unit
    /\ accessed.kind = "exception" =>
         accessed.number \in AllExceptions \ NamedExceptions
    /\ accessed.kind = "cascade" => accessed.number < InvalidCascade

\* The clocks that run are those of the peripherals whose clock was turned on, and
\* one peripheral is reset at a time.
ClocksApart ==
  /\ clockedNow = {} => enables = NoBits
  /\ clockedNow # {} => \A u \in Clockable : get_clk_enabled(u) <=> u \in clockedNow
  /\ accessed.kind = "reset" =>
       \A u \in Clockable :
         ClockBit(u) \in resets[ClockRegister(u)] <=> u = accessed.unit

\* Registers, numbers and clock bits of different peripherals are different.
RegistersApart == AddressApart /\ NumberApart /\ ClocksApart
================================================================================
