SPECIFICATION Spec
CONSTANTS
  Messages = {m1, m2}
  ThreadOf <- Threads
  HandoffOf <- Handoffs
  PullRequests = {"PR83"}
  SeenLimit = 2
  MaxTurns = 2
  MaxRestarts = 1
  MaxRepairs = 1
  RequireTests = TRUE
  None = None
  m1 = m1
  m2 = m2
INVARIANTS
  PublishedIsVerified
  PushesStayInTheirThread
  SuccessNamesWhatWasPushed
  WorktreesAreRemoved
CHECK_DEADLOCK FALSE
PROPERTIES
  TurnsEndUnlessStuck
  ImplementsTurnQueue
