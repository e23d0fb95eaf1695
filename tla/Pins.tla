---------------------------------- MODULE Pins ---------------------------------
(***************************************************************************)
(* Va416x0/Mmio/Gpio (Pin, Port), IoConfig, Ebi and the clock enables of   *)
(* SysConfig: what each pin of the board is and does. A pin is configured  *)
(* by one word of IOCONFIG and by one bit in each of nine registers of its *)
(* port, which it shares with fifteen other pins; every one of them is     *)
(* read, changed and written back while a handler configures and drives    *)
(* other pins. Context 0 is the main loop, 1 a handler that preempts it.   *)
(* A register of a peripheral whose clock is off ignores writes.           *)
(***************************************************************************)
EXTENDS Integers, Sequences, FiniteSets

CONSTANTS
  UsedPins,        \* the pins a program uses, <<port, number>>
  GpioSettings,    \* what configure_as_gpio is called with (records)
  MaxConfigures    \* bound: calls that configure

VARIABLES
  clocked,    \* PERIPHERAL_CLK_ENABLE: the peripherals whose clock runs
  clockLost,  \* history: those whose enable was written back without being seen
  word,       \* IOCONFIG, the word of each pin
  regs,       \* the nine registers of the ports: the pins whose bit is set
  latch,      \* DATAOUTRAW: the pins that drive high
  call,       \* what each context is configuring
  calls,      \* bound
  askedAs,    \* history: what each pin was last configured as
  level       \* history: the last out() of each pin after its port came up

pinVars == <<clocked, clockLost, word, regs, latch, call, calls, askedAs, level>>

(***************************************************************************)
(* ioconfig_rows: which signal each value of FUNSEL routes to a pin.       *)
(***************************************************************************)
Row(category, index, port, number, sel) ==
  [function |-> <<category, index>>, pin |-> <<port, number>>, funsel |-> sel]

Uart(index, port, first, sel) ==
  {Row("RTS", index, port, first, sel), Row("CTS", index, port, first + 1, sel),
   Row("TX", index, port, first + 2, sel), Row("RX", index, port, first + 3, sel)}

SpiBus(index, port, first, sel) ==
  {Row("SCK", index, port, first, sel), Row("MISO", index, port, first + 1, sel),
   Row("MOSI", index, port, first + 2, sel)}

RowsAToD(port) ==
  CASE port = "A" ->
         {Row("TIMER", n, "A", n, 1) : n \in 0 .. 7}
           \cup {Row("SSn", 20 - n, "A", n, 2) : n \in 0 .. 4} \cup SpiBus(2, "A", 5, 2)
           \cup {Row("SSn", 30 - n, "A", n, 2) : n \in 8 .. 9}
           \cup {Row("TIMER", 33 - n, "A", n, 2) : n \in 10 .. 15}
           \cup Uart(0, "A", 0, 3) \cup {Row("TIMER", 8, "A", 8, 3)}
    [] port = "B" ->
         {Row("SSn", 14 - n, "B", n, 1) : n \in 11 .. 14}
           \cup {Row("SCK", 0, "B", 15, 1)}
           \cup {Row("TIMER", 17 - n, "B", n, 2) : n \in 0 .. 15}
           \cup {Row("SSn", 15 - n, "B", n, 3) : n \in 0 .. 7}
           \cup SpiBus(1, "B", 8, 3) \cup Uart(1, "B", 12, 3)
    [] port = "C" ->
         {Row("MISO", 0, "C", 0, 1), Row("MOSI", 0, "C", 1, 1)}
           \cup {Row("TIMER", 1 - n, "C", n, 2) : n \in 0 .. 1} \cup Uart(0, "C", 2, 2)
           \cup {Row("SSn", 16 - n, "C", n, 2) : n \in 7 .. 8}
           \cup SpiBus(1, "C", 9, 2) \cup Uart(2, "C", 12, 2)
    [] port = "D" ->
         {Row("TIMER", n, "D", n, 2) : n \in 0 .. 15} \cup Uart(1, "D", 9, 3)
    [] OTHER -> {}

RowsEToG(port) ==
  CASE port = "E" ->
         {Row("TIMER", 16 + n, "E", n, 2) : n \in 0 .. 7}
           \cup {Row("SSn", 20 - n, "E", n, 2) : n \in 8 .. 12}
           \cup SpiBus(1, "E", 13, 2) \cup Uart(0, "E", 0, 3)
           \cup {Row("SSn", 20 - n, "E", n, 3) : n \in 5 .. 7}
           \cup {Row("TIMER", 8 + n, "E", n, 3) : n \in 8 .. 15}
    [] port = "F" ->
         {Row("SSn", 8, "F", 2, 1), Row("RTS", 0, "F", 14, 1),
          Row("CTS", 0, "F", 15, 1)}
           \cup SpiBus(1, "F", 3, 1) \cup Uart(2, "F", 6, 1) \cup Uart(1, "F", 10, 1)
           \cup {Row("SSn", 20 - n, "F", n, 2) : n \in 0 .. 4} \cup SpiBus(2, "F", 5, 2)
           \cup {Row("TIMER", 6 + n, "F", n, 2) : n \in 13 .. 15}
           \cup {Row("TIMER", n, "F", n, 3) : n \in 0 .. 12}
    [] port = "G" ->
         {Row("TX", 0, "G", 0, 1), Row("RX", 0, "G", 1, 1), Row("SSn", 8, "G", 2, 2),
          Row("SCK", 1, "G", 3, 2), Row("MISO", 1, "G", 4, 2),
          Row("TIMER", 12, "G", 6, 2)}
           \cup {Row("TIMER", 7 + n, "G", n, 1) : n \in 2 .. 3}
           \cup {Row("SSn", 15 - n, "G", n, 1) : n \in 4 .. 6}
           \cup {Row("TIMER", 22 + n, "G", n, 2) : n \in 0 .. 1}
    [] OTHER -> {}

Port(p) == p[1]
RowsOf(p) == {r \in RowsAToD(Port(p)) \cup RowsEToG(Port(p)) : r.pin = p}

\* Ebi::FUNCTION and ebi_pins, in the order route_all_ebi_pins takes them.
EbiFunction == <<"EBI", 0>>
EbiPins ==
  [i \in 1 .. 46 |->
     IF i <= 4 THEN <<"E", i + 11>> ELSE IF i <= 6 THEN <<"F", i - 5>>
     ELSE IF i <= 20 THEN <<"C", i - 5>> ELSE IF i <= 36 THEN <<"D", i - 21>>
     ELSE <<"E", i - 37>>]

\* The first row of the function and the pin. The external bus is FUNSEL 1, and
\* is not looked up.
FunselFor(f, p) ==
  IF f = EbiFunction THEN 1 ELSE (CHOOSE r \in RowsOf(p) : r.function = f).funsel

\* What the pin then is, to the chip.
SignalAt(p, funsel) ==
  IF \E r \in RowsOf(p) : r.funsel = funsel
  THEN (CHOOSE r \in RowsOf(p) : r.funsel = funsel).function ELSE EbiFunction

(***************************************************************************)
(* The enumerations of Pin.hpp and the bits configure_as_gpio makes of     *)
(* them; what the bits mean to the chip.                                   *)
(***************************************************************************)
PulseValue == [none |-> 0, high |-> 1, low |-> 3]
IrqValue == [falling |-> 0, lowLevel |-> 1, either |-> 8, rising |-> 4, highLevel |-> 5]

Bit(v, weight) == (v \div weight) % 2 = 1

BitsOf(s) ==
  [dir |-> s.dir = "out", pulse |-> Bit(PulseValue[s.pulse], 1),
   pulsebase |-> Bit(PulseValue[s.pulse], 2), delay1 |-> Bit(s.delay, 1),
   delay2 |-> Bit(s.delay, 2), sen |-> Bit(IrqValue[s.irq], 1),
   edge |-> Bit(IrqValue[s.irq], 2), evt |-> Bit(IrqValue[s.irq], 4), enb |-> s.direct]

PortRegisters ==
  <<"dir", "pulse", "pulsebase", "delay1", "delay2", "sen", "edge", "evt", "enb">>

IrqMeant(sen, edge, evt) ==
  IF sen THEN IF evt THEN "highLevel" ELSE "lowLevel"
  ELSE IF edge THEN "either" ELSE IF evt THEN "rising" ELSE "falling"

NoFunction == [funsel |-> 0, inverted |-> FALSE, pull |-> "none", readBack |-> FALSE]

\* What the pin is and does.
Meaning(p) ==
  LET set(r) == p \in regs[r]
  IN IF word[p].funsel # 0
     THEN [function |-> SignalAt(p, word[p].funsel), inverted |-> word[p].inverted]
     ELSE [dir |-> IF set("dir") THEN "out" ELSE "in",
           pulse |-> IF ~set("pulse") THEN "none"
                     ELSE IF set("pulsebase") THEN "low" ELSE "high",
           delay |-> (IF set("delay1") THEN 1 ELSE 0)
                       + (IF set("delay2") THEN 2 ELSE 0),
           irq |-> IrqMeant(set("sen"), set("edge"), set("evt")), direct |-> set("enb"),
           pull |-> word[p].pull, readBack |-> word[p].readBack]

(***************************************************************************)
(* configure_as_gpio and configure_as_function: the steps of a call.       *)
(***************************************************************************)
Unasked == [none |-> TRUE]
NoPinCall == [pins |-> << >>, as |-> Unasked, step |-> 0, seen |-> {}]

InputSetting == [dir |-> "in", pulse |-> "none", delay |-> 0, irq |-> "falling",
                 direct |-> FALSE, pull |-> "none", readBack |-> FALSE]

AsGpio(s) == "dir" \in DOMAIN s

\* "enable x" is read and written back in two steps of its own.
Steps(s) ==
  IF AsGpio(s)
  THEN <<"seeIo", "io", "seePort", "port", "word", "seePort", "port">>
         \o PortRegisters
  ELSE <<"seeIo", "io", "word">>

Word(p, s) ==
  IF AsGpio(s) THEN [NoFunction EXCEPT !.pull = s.pull, !.readBack = s.readBack]
  ELSE [NoFunction EXCEPT !.funsel = FunselFor(s.function, p),
                          !.inverted = s.inverted]

PinsInit ==
  /\ clocked = {} /\ clockLost = {}
  /\ word = [p \in UsedPins |-> NoFunction]
  /\ regs = [r \in {PortRegisters[i] : i \in 1 .. 9} |-> {}]
  /\ latch = {}
  /\ call = [c \in 0 .. 1 |-> NoPinCall]
  /\ calls = 0
  /\ askedAs = [p \in UsedPins |-> Unasked]
  /\ level = [p \in UsedPins |-> "any"]

MayRun(c) == c = 1 \/ call[1] = NoPinCall
Configuring(c) == call[c] # NoPinCall

\* One context at a time configures a port: the warning in Pin.hpp.
PortsFree(c, ps) ==
  \A d \in (0 .. 1) \ {c} : \A i \in DOMAIN call[d].pins, j \in DOMAIN ps :
     Port(call[d].pins[i]) # Port(ps[j])

StartConfigure(c, ps, s) ==
  /\ MayRun(c) /\ ~Configuring(c) /\ calls < MaxConfigures
  /\ ps # << >> /\ PortsFree(c, ps)
  /\ call' = [call EXCEPT ![c] = [pins |-> ps, as |-> s, step |-> 1, seen |-> {}]]
  /\ calls' = calls + 1
  /\ askedAs' = [askedAs EXCEPT ![ps[1]] = s]
  /\ UNCHANGED <<clocked, clockLost, word, regs, latch, level>>

ConfigureAsGpio(c) ==
  \E p \in UsedPins, s \in GpioSettings : StartConfigure(c, <<p>>, s)

\* The assertion of configure_as_function lets a routable signal pass.
ConfigureAsFunction(c) ==
  /\ calls < MaxConfigures
  /\ \E p \in UsedPins, inversion \in BOOLEAN : \E r \in RowsOf(p) :
       StartConfigure(c, <<p>>, [function |-> r.function, inverted |-> inversion])

\* Of the first n pins of the external bus, those the program uses.
UsedAmong[n \in 0 .. 46] ==
  IF n = 0 THEN << >>
  ELSE IF EbiPins[n] \in UsedPins THEN Append(UsedAmong[n - 1], EbiPins[n])
  ELSE UsedAmong[n - 1]
UsedEbiPins == UsedAmong[46]

RouteAllEbiPins(c) ==
  StartConfigure(c, UsedEbiPins, [function |-> EbiFunction, inverted |-> FALSE])
UnrouteAllEbiPins(c) == StartConfigure(c, UsedEbiPins, InputSetting)

\* The word of a pin is one store.
WriteIoWord(p, s) ==
  /\ word' = IF "io" \in clocked THEN [word EXCEPT ![p] = Word(p, s)] ELSE word
  /\ UNCHANGED <<regs, clocked>>

\* Mutant of WritePort: the bits of the port's other pins are not kept.
WritePortWhole(p, r, s) ==
  /\ regs' = [regs EXCEPT ![r] = {q \in @ : Port(q) # Port(p)}
                                   \cup (IF BitsOf(s)[r] THEN {p} ELSE {})]
  /\ UNCHANGED <<word, clocked>>

\* configure_pins: one register of the port, under the port's lock.
WritePort(p, r, s) ==
  /\ regs' = IF Port(p) \in clocked
             THEN [regs EXCEPT ![r] = (@ \ {p}) \cup (IF BitsOf(s)[r] THEN {p} ELSE {})]
             ELSE regs
  /\ UNCHANGED <<word, clocked>>

\* One step; after its last one the call goes on to the next pin or returns.
ConfigureStep(c) ==
  LET k == call[c]
      p == k.pins[1]
      step == Steps(k.as)[k.step]
      after ==
        IF k.step < Len(Steps(k.as)) THEN [k EXCEPT !.step = @ + 1, !.seen = clocked]
        ELSE IF Len(k.pins) > 1 THEN [k EXCEPT !.pins = Tail(@), !.step = 1]
        ELSE NoPinCall
  IN /\ MayRun(c) /\ Configuring(c)
     /\ \/ step \in {"seeIo", "seePort"} /\ UNCHANGED <<clocked, word, regs>>
        \/ step = "io" /\ clocked' = k.seen \cup {"io"} /\ UNCHANGED <<word, regs>>
        \/ step = "port" /\ clocked' = k.seen \cup {Port(p)} /\ UNCHANGED <<word, regs>>
        \/ step = "word" /\ WriteIoWord(p, k.as)
        \/ \E i \in 1 .. 9 : step = PortRegisters[i] /\ WritePort(p, step, k.as)
     /\ clockLost' = clockLost \cup (clocked \ clocked')
     /\ call' = [call EXCEPT ![c] = after]
     /\ askedAs' = IF after # NoPinCall /\ after.step = 1
                 THEN [askedAs EXCEPT ![after.pins[1]] = k.as] ELSE askedAs
     /\ UNCHANGED <<latch, calls, level>>

InProgress(p) == \E c \in 0 .. 1 : Configuring(c) /\ call[c].pins[1] = p

\* Pin::out: SETOUT and CLROUT change one pin without reading the others.
Drive(c, p, high) ==
  /\ MayRun(c) /\ ~Configuring(c)
  /\ latch' = IF Port(p) \notin clocked THEN latch
              ELSE IF high THEN latch \cup {p} ELSE latch \ {p}
  /\ level' = IF level[p] # "any" \/ (AsGpio(askedAs[p]) /\ ~InProgress(p))
              THEN [level EXCEPT ![p] = IF high THEN "high" ELSE "low"] ELSE level
  /\ UNCHANGED <<clocked, clockLost, word, regs, call, calls, askedAs>>

PinsNext ==
  \E c \in 0 .. 1 :
     \/ ConfigureAsGpio(c) \/ ConfigureAsFunction(c) \/ ConfigureStep(c)
     \/ RouteAllEbiPins(c) \/ UnrouteAllEbiPins(c)
     \/ \E p \in UsedPins, high \in BOOLEAN : Drive(c, p, high)

PinsSpec == PinsInit /\ [][PinsNext]_pinVars

(***************************************************************************)
(* Properties.                                                             *)
(***************************************************************************)
\* Of an interrupt on either edge, see InterruptsAsAsked.
IsAsAsked(p) ==
  LET s == askedAs[p]
  IN  IF AsGpio(s) /\ s.irq = "either" THEN [Meaning(p) EXCEPT !.irq = "either"] = s
      ELSE Meaning(p) = s

OutputHeld(p) == level[p] # "any" => (p \in latch <=> level[p] = "high")

\* Although each step of a call writes back what was read of the other pins, every pin
\* is what it was last configured as - its function or, for a general pin, its
\* direction, pulse, delay, resistors and interrupt, unless that is of either edge -
\* and an output holds the level of its last out(), unless its port's clock was lost,
\* whatever the other context configured or drove on other ports meanwhile
\* (Pin.cpp:258-347, Port.cpp:56-83).
PinsAsConfigured ==
  \A p \in UsedPins : askedAs[p] # Unasked /\ ~InProgress(p) =>
     IsAsAsked(p) /\ (Port(p) \notin clockLost => OutputHeld(p))

\* The interrupt is the one of Pin.hpp:42-48 that was asked for.
InterruptsAsAsked ==
  \A p \in UsedPins : AsGpio(askedAs[p]) /\ ~InProgress(p) =>
     Meaning(p).irq = askedAs[p].irq

\* With one context at a time to a port, which Pin.hpp:74 asks for, every output holds
\* the level of its last out().
OutputsHeld == \A p \in UsedPins : ~InProgress(p) => OutputHeld(p)
================================================================================
