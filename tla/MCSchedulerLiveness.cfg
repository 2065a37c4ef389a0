SPECIFICATION FairSpec
CONSTANTS
  d1 = d1
  d2 = d2
  p1 = p1
  a1 = a1
  sentinel = sentinel
  Timers <- MCTimers
  Anonymous <- MCAnonymous
  Sentinel = sentinel
  None = None
  Never = 20
  DivisorLimit = 16
  DeviceOrder <- MCOrder
  CycleTime <- MCCycle
  ClockedTime <- MCClocked
  DivScale <- MCScale
  Second = 5
  MinimumQuantum = 3
  Instructions = {2}
  Delays = {1}
  Periods <- MCPeriods
  EnableArgs <- MCEnable
  SuspendArgs <- MCSuspend
  ForeignYield = FALSE
  TriggerIds = {1}
  EatArgs = {2}
  Boosts = {}
  MaxOps = 3
  MaxSaves = 0
  Horizon = 5
PROPERTIES TimeForward TimeAdvances TimerAnswered
