-------------------------------- MODULE MCBoard --------------------------------
(***************************************************************************)
(* Values of the constants of Board's components for TLC.                  *)
(***************************************************************************)
EXTENDS Board, MCDmaDriver

\* The powers of two that MHz may round to and that microseconds may stand between.
PowersOfTwo == {<<2^k, 1>> : k \in 0 .. 4} \cup {<<1, 2^k>> : k \in 1 .. 8}

\* They are enough for what times and rates make of one another in the run.
ASSUME UnitsAssumption ==
  \A n \in 1 .. 30, d \in 1 .. 40 : \E u \in Units : HasUnit(<<n, d>>, u)

-----------------------------------------------------------------------------
\* One list of multiplexed inputs with both enables and shared address lines, and
\* one that mixes a sweep with an input whose enable has no pin.
Multiplexed(en, addr) ==
  [chan |-> 3, cnt |-> 1, sweep |-> FALSE, isMux |-> TRUE, en |-> en, addr |-> addr]
Sweep == [chan |-> 1, cnt |-> 1, sweep |-> TRUE, isMux |-> FALSE, en |-> 0, addr |-> {}]
TwoLists ==
  {<<Multiplexed(0, {"a"}), Multiplexed(1, {"a", "b"})>>,
   <<Sweep, Multiplexed(NoPin, {"b"})>>}
AddressPortOf == [a |-> 0, b |-> 1, o |-> 0]

-----------------------------------------------------------------------------
\* Trees for each source and each reference of the PLL, and three that are invalid:
\* a divider out of range, a PLL reference without a PLL, a system clock too fast.
TreeOf(ext, crystal, ref, fb, out, src, pll) ==
  [HeartbeatTree EXCEPT !.ext = ext, !.crystal = crystal, !.ref = ref, !.fb = fb,
     !.out = out, !.src = src, !.pll = pll]
SevenTrees ==
  {TreeOf(80, 0, 0, 0, 0, "EXTERNAL_CLK", "NONE"),
   [TreeOf(0, 40, 0, 0, 0, "CRYSTAL_OSC", "NONE") EXCEPT !.div = 2, !.adc = 4],
   [TreeOf(80, 0, 3, 49, 4, "PLL", "EXTERNAL_CLK") EXCEPT !.adc = 8],
   [TreeOf(0, 20, 0, 9, 1, "PLL", "CRYSTAL_OSC") EXCEPT !.div = 2],
   TreeOf(80, 0, 16, 0, 0, "EXTERNAL_CLK", "NONE"),
   TreeOf(80, 0, 0, 0, 0, "HEARTBEAT_OSC", "EXTERNAL_CLK"),
   TreeOf(220, 0, 0, 0, 0, "EXTERNAL_CLK", "NONE")}

-----------------------------------------------------------------------------
\* Two pins that share port C, one of port F; two of them can carry the external bus.
ThreePins == {<<"C", 2>>, <<"C", 1>>, <<"F", 1>>}
Setting(way, beat, cycles, cause, direct, resistor, back) ==
  [dir |-> way, pulse |-> beat, delay |-> cycles, irq |-> cause, direct |-> direct,
   pull |-> resistor, readBack |-> back]
ThreeSettings ==
  {Setting("out", "low", 3, "falling", FALSE, "none", TRUE),
   Setting("in", "none", 1, "highLevel", TRUE, "up", FALSE),
   Setting("in", "none", 2, "either", TRUE, "down", FALSE)}

\* The table of pin functions is complete and unambiguous.
PortNames == {"A", "B", "C", "D", "E", "F", "G"}
Table == UNION {RowsOf(<<name, n>>) : name \in PortNames, n \in 0 .. 15}
ASSUME PinTableAssumption ==
  /\ Cardinality(Table) = 184
  /\ \A r, q \in Table :
       r.pin = q.pin /\ (r.funsel = q.funsel \/ r.function = q.function) => r = q
================================================================================
