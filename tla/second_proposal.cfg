SPECIFICATION Spec
CONSTANTS
  e1 = e1
  e2 = e2
  e3 = e3
  menu = menu
  generic = generic
  a1 = a1
  a2 = a2
  NoEvent = NoEvent
  Generic = generic
  TypePolicy <- AllGeneric
  Deployments <- OnlyGeneric
  Event = {e1}
  Policy = {generic}
  Action = {a1, a2}
  Operator = {}
  DirectEvents = {}
  MaxSequence = 2
  MaxProposals = 2
  MaxCrashes = 1
  MaxStops = 0
INVARIANTS OneProposalPerEvent
\* an idle server waits for requests that need not come
CHECK_DEADLOCK FALSE
