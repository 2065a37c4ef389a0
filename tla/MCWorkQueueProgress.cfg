SPECIFICATION FairSpec
CONSTANTS
  i1 = i1
  i2 = i2
  i3 = i3
  main = main
  reader = reader
  Threads = 2
  Producer = main
  Collector = main
  Items <- MCOne
  NoItem = NoItem
  Multi = TRUE
  HighFreq = FALSE
  AutoRelease = FALSE
  Patient = TRUE
  Timeouts = FALSE
  Spurious = FALSE
  Batches = {1}
  MaxQueued = 2
PROPERTIES EveryItemRuns WaitReturns ItemWaitReturns FreeEnds KeepsPromise
CHECK_DEADLOCK FALSE
