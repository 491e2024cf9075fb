SPECIFICATION Spec
CONSTANTS
  WireMod = 3
  UIntMod = 6
  MaxErrors = 2
  GiveUp = FALSE
  Prompt = TRUE
  NoReply = {2}
  MaxPuts = 4
  MaxFaults = 0
  MaxChan = 3
INVARIANT
  PutDelivered
\* The debugger's user may stop making requests, and the client then waits for
\* nothing.
CHECK_DEADLOCK FALSE
