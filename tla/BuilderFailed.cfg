SPECIFICATION Spec
CONSTANTS
  Messages = {m1, m2}
  ThreadOf <- Threads
  HandoffOf <- Handoffs
  PullRequests = {"PR83"}
  SeenLimit = 2
  MaxTurns = 1
  MaxRestarts = 0
  MaxRepairs = 1
  RequireTests = TRUE
  None = None
  m1 = m1
  m2 = m2
INVARIANT
  FailedTurnsPublishNothing
CHECK_DEADLOCK FALSE
