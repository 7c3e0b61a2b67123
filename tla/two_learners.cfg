SPECIFICATION Spec
CONSTANTS
  Event = {e1}
  Cli = {cli}
  MinRecords = 1
  MaxRecords = 1
  MaxRuns = 2
  MaxCrashes = 0
INVARIANT OneStagedRun
