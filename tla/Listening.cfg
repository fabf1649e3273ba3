SPECIFICATION FairListeningSpec
CONSTANTS
  Stems = {s1, s2}
  Total = 5
  RingFrames = 4
  MinLoop = 2
  WordHalf = 8
  ChunkFrames = 2
  FirstChunk = 1
  Prefetch = 4
  MinFill = 1
  Quantum = 2
  Seeks = {3}
  Regions <- OneRegion
  MaxStream = 10
  MaxStarts = 2
  Drums = drums
  Gone = gone
  Strips = {drums, bass}
  TopLevel = 1
  Unity = 1
  Duration = 2
  MinLoopSeconds = 1
  DefaultLoop = 1
  RawMixes <- SomeMixes
  Nobody = nobody
  MaxEngines = 2
  MaxInputs = 1
  FaultKinds = {"fetch", "suspend", "getMix", "putMix", "reorder", "start"}
  MaxFaults = 1
CHECK_DEADLOCK FALSE
INVARIANTS PlayerInv MixInv 
PROPERTIES EndIsReached PlaybackEnds MixIsStored
