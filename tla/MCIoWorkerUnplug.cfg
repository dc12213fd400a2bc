SPECIFICATION Spec
CONSTANTS
  AutoAttach = TRUE
  Commands <- MCCommands
  MaxCommands = 2
  MaxBreaks = 1
INVARIANT SurvivesUnplug
CHECK_DEADLOCK FALSE
