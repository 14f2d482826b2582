SPECIFICATION Spec
CONSTANTS
  Listeners = {l1}
  Machines = 1
  Processes = 1
  Instances = 1
  MaxHello = 1
INVARIANT NoResultLeftBehind
