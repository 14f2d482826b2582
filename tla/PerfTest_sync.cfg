SPECIFICATION FairSpec
CONSTANTS
  Listeners = {l1, l2, l3}
  Machines = 2
  Processes = 1
  Instances = 1
  MaxHello = 2
INVARIANTS
  TypeOK
  NoMissedRequest
  NoMissedStart
  NoOrphans
PROPERTIES
  ImplementsTestRun
  TestEnds
