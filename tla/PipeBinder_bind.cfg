\* Without a server there is nothing to wait for, and the bounds stop the users.
CONSTANTS
  Prompt = TRUE
  Preempt = FALSE
  NumThreads = 8
  MaxLinks = 2
  MaxConns = 3
  MaxReqs = 2
  MaxKills = 2
SPECIFICATION Spec
INVARIANTS TypeOK   Isolation NoneLost
CHECK_DEADLOCK FALSE
