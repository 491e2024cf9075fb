SPECIFICATION FairSpec
CONSTANTS
  NibMod = 2
  CtlBit = 1
  Payload = {1, 2}
  MaxLen = 2
  MaxPuts = 2
INVARIANTS
  TypeOK
  DataHeld
  OneWriter
PROPERTIES
  Implements
  RequestsComplete
\* Nobody has to make a request.
CHECK_DEADLOCK FALSE
