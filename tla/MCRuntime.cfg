CONSTANTS
  ra = ra  bc = bc
  Order <- TwoInputs
  Rising = {ra}
  Capacities = {1, 2}
  MaxEvents = 2
  None = None
SPECIFICATION FairSpec
INVARIANT LoopConsistent RisingFenced
PROPERTY WaveStartsDrained ReloadStrandsNothing EveryInputRuns
