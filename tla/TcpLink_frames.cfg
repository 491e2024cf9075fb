SPECIFICATION FairSpec
CONSTANTS
  ByteMod = 2
  MaxLen = 3
  Talkers = {"client"}
  MaxPuts = 3
PROPERTIES
  Implements
  AllArrive
\* Nobody has to put a packet.
CHECK_DEADLOCK FALSE
