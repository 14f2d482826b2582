SPECIFICATION FairSpec
CONSTANTS
  Instances = 3
  Total = 2
INVARIANTS
  TypeOK
  DeathBeforeReport
  CaughtQuietly
  ReportsInOrder
PROPERTIES
  ImplementsWorker
  WorkEnds
