SPECIFICATION Spec
CONSTANTS
  d1 = d1
  d2 = d2
  p1 = p1
  a1 = a1
  sentinel = sentinel
  Timers <- MCTimers
  Anonymous <- MCAnonymous
  Sentinel = sentinel
  None = None
  Never = 60
  DivisorLimit = 16
  DeviceOrder <- MCOrder
  CycleTime <- MCCycle
  ClockedTime <- MCClocked
  DivScale <- MCScale
  Second = 10
  MinimumQuantum = 3
  Instructions = {1}
  Delays = {1}
  Periods = {60}
  EnableArgs = {}
  SuspendArgs <- MCHaltYield
  ForeignYield = TRUE
  TriggerIds = {}
  EatArgs = {}
  Boosts = {}
  MaxOps = 3
  MaxSaves = 0
  Horizon = 16
INVARIANTS DeltaExact
