SPECIFICATION FairSpec
CONSTANTS
  Client = {c1, c2}
  Request <- MCRequest
  MaxLength = 2
INVARIANTS
  TypeOK
  EchoStream
  WholeReply
PROPERTIES
  ClientsEnd
  SessionReclaimed
