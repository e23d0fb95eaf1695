--------------------------------- MODULE Board ---------------------------------
(***************************************************************************)
(* The components that share nothing but the processor, each with the rest *)
(* of the board at rest: part says which of them runs. The RTI loop is one *)
(* of them; queue, GDS stream and schedule have runs of their own.         *)
(***************************************************************************)
EXTENDS MainLoop, Mutexes, VectorTable, RawTimes, TlmGdsChan, Profiler, Allocator,
        AdcSampler, DmaDriver, I2cController, SpiController, ClkTree, Pins,
        Registers

VARIABLE part

boardVars ==
  <<part, cpuVars, mainLoopVars, mutexVars, vectorVars, rawVars, tlmVars, profilerVars,
    allocatorVars, samplerVars, dmaVars, i2cVars, spiVars, clkVars, pinVars,
    registerVars>>

\* The interrupt priorities in use beside each part.
Levels ==
  [loop |-> 0, mutex |-> 1, vector |-> 2, times |-> 0, tlm |-> 0, profiler |-> 1,
   allocator |-> 0, adc |-> 1, dma |-> 0, i2c |-> 0, spi |-> 0, clocks |-> 0,
   pins |-> 0, registers |-> 0]

HandlersInUse == \A c \in Contexts : c > Levels[part] => pc'[c] = "idle"

BoardInit ==
  /\ part \in DOMAIN Levels
  /\ CpuInit /\ MainLoopInit /\ MutexInit /\ VectorInit /\ RawInit /\ TlmInit
  /\ ProfilerInit /\ AllocatorInit /\ SamplerInit /\ DmaInit /\ I2cInit /\ SpiInit
  /\ ClkInit /\ PinsInit /\ RegistersInit
  /\ part # "vector" => rtiEnder = Main
  /\ part # "times" => \A rate \in TimerHz : hz <= rate
  /\ part # "tlm" => selectorWord = InvalidSelector
                     /\ item = [s \in Sides |-> [ch \in Channels |-> EmptyItem]]
  /\ part # "adc" => /\ buffer = CHOOSE b \in Buffers : TRUE
                     /\ \A freq \in SysclkFreqs : sysclk <= freq

BoardStep ==
  \/ /\ part = "loop" /\ MainLoopNext
     /\ UNCHANGED <<mutexVars, vectorVars, rawVars, tlmVars, profilerVars,
                  allocatorVars, samplerVars, dmaVars, i2cVars, spiVars, clkVars,
                  pinVars, registerVars>>
  \/ /\ part = "mutex" /\ MutexNext
     /\ UNCHANGED <<mainLoopVars, vectorVars, rawVars, tlmVars, profilerVars,
                  allocatorVars, samplerVars, dmaVars, i2cVars, spiVars, clkVars,
                  pinVars, registerVars>>
  \/ /\ part = "vector" /\ VectorNext
     /\ UNCHANGED <<mainLoopVars, mutexVars, rawVars, tlmVars, profilerVars,
                  allocatorVars, samplerVars, dmaVars, i2cVars, spiVars, clkVars,
                  pinVars, registerVars>>
  \/ /\ part = "times" /\ RawNext
     /\ UNCHANGED <<cpuVars, mainLoopVars, mutexVars, vectorVars, tlmVars,
                  profilerVars, allocatorVars, samplerVars, dmaVars, i2cVars, spiVars,
                  clkVars, pinVars, registerVars>>
  \/ /\ part = "tlm" /\ TlmNext
     /\ UNCHANGED <<cpuVars, mainLoopVars, mutexVars, vectorVars, rawVars,
                  profilerVars, allocatorVars, samplerVars, dmaVars, i2cVars, spiVars,
                  clkVars, pinVars, registerVars>>
  \/ /\ part = "profiler" /\ ProfilerNext
     /\ UNCHANGED <<mainLoopVars, mutexVars, vectorVars, rawVars, tlmVars,
                  allocatorVars, samplerVars, dmaVars, i2cVars, spiVars, clkVars,
                  pinVars, registerVars>>
  \/ /\ part = "allocator" /\ AllocatorNext
     /\ UNCHANGED <<cpuVars, mainLoopVars, mutexVars, vectorVars, rawVars, tlmVars,
                  profilerVars, samplerVars, dmaVars, i2cVars, spiVars, clkVars,
                  pinVars, registerVars>>
  \/ /\ part = "adc" /\ SamplerNext
     /\ UNCHANGED <<mainLoopVars, mutexVars, vectorVars, rawVars, tlmVars,
                  profilerVars, allocatorVars, dmaVars, i2cVars, spiVars, clkVars,
                  pinVars, registerVars>>
  \/ /\ part = "dma" /\ DmaNext
     /\ UNCHANGED <<cpuVars, mainLoopVars, mutexVars, vectorVars, rawVars, tlmVars,
                  profilerVars, allocatorVars, samplerVars, i2cVars, spiVars, clkVars,
                  pinVars, registerVars>>
  \/ /\ part = "i2c" /\ I2cNext
     /\ UNCHANGED <<cpuVars, mainLoopVars, mutexVars, vectorVars, rawVars, tlmVars,
                  profilerVars, allocatorVars, samplerVars, dmaVars, spiVars, clkVars,
                  pinVars, registerVars>>
  \/ /\ part = "spi" /\ SpiNext
     /\ UNCHANGED <<cpuVars, mainLoopVars, mutexVars, vectorVars, rawVars, tlmVars,
                  profilerVars, allocatorVars, samplerVars, dmaVars, i2cVars, clkVars,
                  pinVars, registerVars>>
  \/ /\ part = "clocks" /\ ClkNext
     /\ UNCHANGED <<cpuVars, mainLoopVars, mutexVars, vectorVars, rawVars, tlmVars,
                  profilerVars, allocatorVars, samplerVars, dmaVars, i2cVars, spiVars,
                  pinVars, registerVars>>
  \/ /\ part = "pins" /\ PinsNext
     /\ UNCHANGED <<cpuVars, mainLoopVars, mutexVars, vectorVars, rawVars, tlmVars,
                  profilerVars, allocatorVars, samplerVars, dmaVars, i2cVars, spiVars,
                  clkVars, registerVars>>
  \/ /\ part = "registers" /\ RegistersNext
     /\ UNCHANGED <<cpuVars, mainLoopVars, mutexVars, vectorVars, rawVars, tlmVars,
                  profilerVars, allocatorVars, samplerVars, dmaVars, i2cVars, spiVars,
                  clkVars, pinVars>>

BoardNext == BoardStep /\ UNCHANGED part /\ HandlersInUse

BoardSpec == BoardInit /\ [][BoardNext]_boardVars
================================================================================
