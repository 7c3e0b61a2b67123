SPECIFICATION Spec
CONSTANTS
  Fields <- FieldNames
  Numeric = {"load"}
  Context = {"mode"}
  Stamps = {"made_at"}
  NameLength <- Lengths
  Text <- Texts
  Tool = {"set_mode", "cancel", "get_mode", "get_menu"}
  ReadOnly = {"get_mode", "get_menu"}
  RequiredReads <- NeededReads
  Arguments <- Args
  ContextOf <- ReadWith
  OwnReads = {"get_mode"}
  Journals <- AllJournals
  Existing <- AllExisting
  Replies <- AllReplies
  Garbled = Garbled
  NoEvent = "none"
  MinSupport = 2
  MaxBody = 2
  Free = 4
INVARIANTS CountsAreTrue NoRuleIsRedundant RenderedIsValid NotRelearntIsKept ReplayGivesWhatWasTaught
PROPERTIES CoverageGrows
