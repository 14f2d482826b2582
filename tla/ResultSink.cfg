SPECIFICATION Spec
CONSTANTS
  Expected = 2
  Messages = 3
  Latencies = {1, 7, 20}
  Setup = 12
  Garbage = {0, 7}
  MaxResults = 2
INVARIANTS
  TypeOK
  FramesAligned
  MeanIsMean
  VarianceUnderstates
  SetupsGenuine
PROPERTY
  ImplementsController
