SPECIFICATION Spec
CONSTANTS
  e1 = e1
  e2 = e2
  e3 = e3
  menu = menu
  generic = generic
  a1 = a1
  a2 = a2
  NoEvent = NoEvent
  Generic = generic
  TypePolicy <- Typed
  Deployments <- WithOrWithoutMenu
  Event = {e1, e2}
  Policy = {generic, menu}
  Action = {a1, a2}
  Operator = {o1, o2}
  DirectEvents = {}
  MaxSequence = 2
  MaxProposals = 2
  MaxCrashes = 1
  MaxStops = 0
SYMMETRY DecisionSymmetry
INVARIANTS TypeOK PendingAreDistinct PendingMatchesActive PendingIsRegistered CallsMatchStatus
PROPERTIES ImplementsLife
\* an idle server waits for requests that need not come
CHECK_DEADLOCK FALSE
