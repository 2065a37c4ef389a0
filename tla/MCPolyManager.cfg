CONSTANTS
  Threads = {t1, t2}
  Main = main
  Modes = {"threads", "inline", "list"}
  MaxPolys = 3
  UnitCount = 4
  Buckets = 1
  None = none
  Fresh <- NoneOnly
  RowCount = 2
  MaxObjects = 2
  MaxRenders = 3
SPECIFICATION FairSpec
PROPERTIES DrawsAsAsked AllDrawn
