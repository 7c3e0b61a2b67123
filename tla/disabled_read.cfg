SPECIFICATION Spec
CONSTANTS
  takeAway = takeAway
  dineIn = dineIn
  signageServer = signageServer
  accuracy = accuracy
  signage = signage
  accuracyContext = accuracyContext
  remake = remake
  rework = rework
  promos = promos
  show = show
  orderAccuracy = orderAccuracy
  l1 = l1
  l2 = l2
  ServerOrder <- Servers
  ServerService <- Services
  Exposes <- Exposed
  ToolService <- ServiceOfTool
  Read = {accuracyContext, rework, promos}
  Context = {accuracyContext, rework, promos}
  DefaultTools <- Defaults
  DefaultSkill <- DefaultSkills
  LearnedSkill <- LearnedSkills
  Deployments <- ReadDisabled
INVARIANT RemovedReadTakesItsActions
