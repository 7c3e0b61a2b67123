SPECIFICATION Spec
CONSTANTS
  e1 = e1
  e2 = e2
  e3 = e3
  menu = menu
  generic = generic
  a1 = a1
  a2 = a2
  NoEvent = NoEvent
  Generic = generic
  TypePolicy <- AllGeneric
  Deployments <- OnlyGeneric
  Event = {e1, e2}
  Policy = {generic}
  Action = {}
  Operator = {}
  DirectEvents = {e2}
  MaxSequence = 4
  MaxProposals = 0
  MaxCrashes = 2
  MaxStops = 1
INVARIANTS TablesAgree InOrder
PROPERTIES AssessedOnce ImplementsLine
\* an idle server waits for requests that need not come
CHECK_DEADLOCK FALSE
