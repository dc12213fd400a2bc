SPECIFICATION FairSpec
CONSTANTS
  AutoAttach = TRUE
  Commands <- MCCommands
  MaxCommands = 2
  MaxBreaks = 2
INVARIANT TypeOK
INVARIANT FlagsAgree
INVARIANT NotLeftAttached
INVARIANT PromptNeverHides
PROPERTY StopJoins
PROPERTY CommandsAreTaken
PROPERTY Recovers
CHECK_DEADLOCK FALSE
