SPECIFICATION FairSpec
CONSTANTS
  Asker = {h1, h2}
  Resetter = {n1}
  None = None
  MaxSessions = 3
  MaxAsks = 3
  MaxProcesses = 4
  MaxRuns = 2
  MaxLosses = 2
INVARIANTS FreshAfterNewChat TurnsDoNotOverlap
PROPERTIES AnswerIsContinued RequestsEnd GatewayIsKept
\* a server that was stopped stays down
CHECK_DEADLOCK FALSE
