SPECIFICATION Spec
CONSTANTS
  Changer = {c1, c2}
  Watcher = w1
  Weather <- Weathers
  Settable <- Scenarios
  Default <- Start
  None = None
  Backend = {"simulator", "open-meteo"}
  Delta = 2
  Attempts = 2
  MaxChanges = 2
  MaxPolls = 3
  MaxFaults = 2
INVARIANTS ChangesChain ReceivedOnce ConditionIsTold
\* a weather that nobody changes and nobody polls stays as it is
CHECK_DEADLOCK FALSE
