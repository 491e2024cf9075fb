\* The user need not start a client: the system may stop.
CHECK_DEADLOCK FALSE
SPECIFICATION Spec
CONSTANTS
  NumLines = 2
  Pulses = 5
  TwidleNum = 2
  CountMod = 8
  SynchWait = 10
  LineWait = 5
  MaxTries = 3
  MaxAborts = 1
INVARIANTS TypeOK ClientKnows ServerNotAlone LinesWork
PROPERTY FreshServerAnswers
