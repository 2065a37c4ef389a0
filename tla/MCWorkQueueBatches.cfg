SPECIFICATION Spec
CONSTANTS
  i1 = i1
  i2 = i2
  i3 = i3
  main = main
  reader = reader
  Threads = 2
  Producer = main
  Collector = main
  Items <- MCThree
  NoItem = NoItem
  Multi = TRUE
  HighFreq = TRUE
  AutoRelease = TRUE
  Patient = TRUE
  Timeouts = TRUE
  Spurious = TRUE
  Batches = {1, 2}
  MaxQueued = 3
INVARIANTS OnePlace ItemsCounted NoLostWakeup WaitHonest
PROPERTIES KeepsPromise
SYMMETRY MCMemory
