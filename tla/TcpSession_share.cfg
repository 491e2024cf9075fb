SPECIFICATION FairSpec
CONSTANTS
  Client = {debugger, other, rfx}
  OldClient = {rfx}
  Backlog = 5
  MaxReqs = 4
  MaxConns = 3
INVARIANTS
  TypeOK
  DepthBalanced
  NobodyReadsEOF
PROPERTIES
  ResumeFindsSession
  ReplyMatches
  EveryRequestExecuted
\* Nobody has to connect.
CHECK_DEADLOCK FALSE
