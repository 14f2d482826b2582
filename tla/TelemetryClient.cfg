SPECIFICATION FairSpec
CONSTANT Total = 4
INVARIANTS
  TypeOK
  EchoPaired
  TerminatesOnlyAfterPeer
  StatsHonest
  OnlyLastEchoLost
PROPERTIES
  ImplementsClientLife
  ClientEnds
