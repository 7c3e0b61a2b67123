SPECIFICATION FairSpec
CONSTANTS
  Event = {e1}
  Cli = {}
  MinRecords = 1
  MaxRecords = 2
  MaxRuns = 2
  MaxCrashes = 1
INVARIANTS NothingLost OneStagedRun LearntIsArchived
PROPERTY RunSettles
