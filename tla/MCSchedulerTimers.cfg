SPECIFICATION Spec
CONSTANTS
  d1 = d1
  p1 = p1
  p2 = p2
  a1 = a1
  sentinel = sentinel
  Timers <- MCTimers
  Anonymous <- MCAnonymous
  Sentinel = sentinel
  None = None
  Never = 20
  DivisorLimit = 16
  DeviceOrder <- MCOrder
  CycleTime <- MCCycle
  ClockedTime <- MCClocked
  DivScale <- MCScale
  Second = 4
  MinimumQuantum = 3
  Instructions = {1, 2}
  Delays <- MCDelays
  Periods <- MCPeriods
  EnableArgs = {FALSE}
  SuspendArgs = {}
  ForeignYield = FALSE
  TriggerIds = {}
  EatArgs = {}
  Boosts = {}
  MaxOps = 2
  MaxSaves = 2
  Horizon = 3
INVARIANTS TypeOK TimersOrdered NoTimerLost
PROPERTIES EarliestFirst IsAlarmClock
