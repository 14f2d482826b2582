SPECIFICATION Spec
CONSTANTS
  Listeners = {l1, l2}
  Machines = 1
  Processes = 2
  Instances = 2
  MaxHello = 1
SYMMETRY Symmetry
INVARIANTS
  NoPartialTest
  ChildToReap
  ReportedOnce
  ResultsConserved
