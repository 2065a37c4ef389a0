CONSTANTS
  irq = irq
  reset = reset
  halt = halt
  v0 = v0
  v1 = v1
  Irqs = {irq}
  Reset = reset
  Halt = halt
  Vectors = {v0, v1}
  Given = {"stored"}
  DefaultVector = v0
  Nothing = Nothing
  QueueSize = 2
  Answers <- MCChain
  MaxWrites = 4
SPECIFICATION FairSpec
INVARIANTS QueueHasTimer
PROPERTIES EventsInOrder WakesUp
