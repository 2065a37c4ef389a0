SPECIFICATION Spec
CONSTANTS
  d1 = d1
  d2 = d2
  p1 = p1
  a1 = a1
  sentinel = sentinel
  Timers <- MCTimers
  Anonymous <- MCAnonymous
  Sentinel = sentinel
  None = None
  Never = 30
  DivisorLimit = 16
  DeviceOrder <- MCOrder
  CycleTime <- MCCycle
  ClockedTime <- MCClocked
  DivScale <- MCScale
  Second = 9
  MinimumQuantum = 6
  Instructions = {1, 2}
  Delays = {1}
  Periods = {30}
  EnableArgs = {}
  SuspendArgs <- MCSuspend
  ForeignYield = FALSE
  TriggerIds = {1}
  EatArgs = {}
  Boosts <- MCBoosts
  MaxOps = 3
  MaxSaves = 2
  Horizon = 5
INVARIANTS CyclesConserved InStep DeltaExact QuantaSound Punctual
PROPERTIES ChargedTime SuspendTakesEffect
