SPECIFICATION FairSpec
CONSTANTS
  WireMod = 3
  UIntMod = 3
  MaxErrors = 2
  GiveUp = FALSE
  Prompt = TRUE
  NoReply = {2}
  MaxPuts = 6
  MaxFaults = 1
  MaxChan = 3
INVARIANTS
  TypeOK
  DeliveredPrefix
  PutDelivered
  ClientNotAlone

  
\* The debugger's user may stop making requests, and the client then waits for
\* nothing.
CHECK_DEADLOCK FALSE
