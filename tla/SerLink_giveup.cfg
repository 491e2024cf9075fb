SPECIFICATION Spec
CONSTANTS
  WireMod = 16
  UIntMod = 16
  MaxErrors = 2
  GiveUp = TRUE
  Prompt = FALSE
  NoReply = {2}
  MaxPuts = 3
  MaxFaults = 1
  MaxChan = 3
INVARIANT
  AtMostOnceInOrder
\* The debugger's user may stop making requests, and the client then waits for
\* nothing.
CHECK_DEADLOCK FALSE
