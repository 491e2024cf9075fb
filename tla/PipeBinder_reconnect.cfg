\* Without a server there is nothing to wait for, and the bounds stop the users.
CONSTANTS
  Prompt = TRUE
  Preempt = FALSE
  NumThreads = 8
  MaxLinks = 1
  MaxConns = 2
  MaxReqs = 1
  MaxKills = 0
SPECIFICATION Spec
PROPERTY Reconnects
CHECK_DEADLOCK FALSE
