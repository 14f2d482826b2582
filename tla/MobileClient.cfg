SPECIFICATION FairSpec
CONSTANT Total = 5
INVARIANTS
  TypeOK
  EchoPaired
  CrashOnlyAfterClose
PROPERTY EndsOrHangs
