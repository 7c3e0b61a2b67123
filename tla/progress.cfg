SPECIFICATION FairSpec
CONSTANTS
  e1 = e1
  e2 = e2
  e3 = e3
  menu = menu
  generic = generic
  a1 = a1
  a2 = a2
  NoEvent = NoEvent
  Generic = generic
  TypePolicy <- AllGeneric
  Deployments <- OnlyGeneric
  Event = {e1}
  Policy = {generic}
  Action = {a1}
  Operator = {o1}
  DirectEvents = {}
  MaxSequence = 2
  MaxProposals = 3
  MaxCrashes = 1
  MaxStops = 1
PROPERTIES EventSettles StopReturns ApprovalAnswered
\* an idle server waits for requests that need not come
CHECK_DEADLOCK FALSE
