CONSTANTS
  Dispatches = {"d1", "d2", "d3"}
  ChatEntries = 2
  MaxChatCrashes = 1
  Names = {"a", "b"}
  Files = {1, 2}
  Versions = {1, 2}
  SkillsOf <- Skills
  FileFor <- FileOf
  Reviews = {"r1", "r2", "r3"}
  Heads = {"h1", "h2"}
  Managed = {"r1", "r2"}
  MaxCheckoutCrashes = 1
SPECIFICATION Spec
INVARIANTS TypeOK PollKnows FiresOnce RunningIsKnown
PROPERTIES PromptIsAnswered EventuallyMerged DefinedTakesEffect ServedWhole FailureIsSeen Ends
CHECK_DEADLOCK FALSE
