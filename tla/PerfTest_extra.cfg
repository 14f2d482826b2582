SPECIFICATION FairSpec
CONSTANTS
  Listeners = {l1, l2}
  Machines = 1
  Processes = 1
  Instances = 1
  MaxHello = 1
PROPERTY EveryListenerEnds
