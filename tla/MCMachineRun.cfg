CONSTANTS
  auto = auto
  slot = slot
  g0 = g0
  g1 = g1
  Names = {auto, slot}
  AutoSlot = auto
  Autosave = TRUE
  Games = {g0, g1}
  Fresh = g0
  Nothing = Nothing
  Second = 1
  MaxAnonymous = 1
  Faults = TRUE
  MaxCalls = 3
  MaxMachines = 1
CHECK_DEADLOCK FALSE
SPECIFICATION FairSpec
INVARIANTS EndsAsSaved
PROPERTIES RequestEnds LoopEnds
