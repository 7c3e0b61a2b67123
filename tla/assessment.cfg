SPECIFICATION FairSpec
CONSTANTS
  menu = menu
  taught = taught
  kiosk = kiosk
  weather = weather
  change = change
  dim = dim
  Skill = {menu, taught}
  Read = {kiosk, weather}
  Action = {change, dim}
  Learned = {taught}
  ToolsOf <- Tools
  RequiredReads <- Required
  CheckedReads <- Checked
  RuleTool <- Rule
  RuleReads <- RuleFrom
  ReadArgument = {none, some}
  DefaultArgument = none
  NotRead = NotRead
  MaxRounds = 4
  MaxReads = 4
  MaxChanges = 1
  MaxAgings = 1
  MaxRefreshes = 1
INVARIANTS RestsOnWhatWasShown NoActionIsInformed ReplayAsksTheSame CalledOnlyIfWanted
PROPERTY EvaluationEnds
\* an evaluation ends
CHECK_DEADLOCK FALSE
