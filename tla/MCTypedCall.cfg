CONSTANTS
  PosFixints = 4
  FixCounts = 5
  FixLengths = 2
  NegFixints = 2
  W16 = 2
  W32 = 3
  W64 = 4
  Mantissa32 = 8
  Exponents32 = 4
  Mantissa64 = 32
  Exponents64 = 8
  SizeWidth = 4
  HostSize = 4
  DoubleIsFloat = FALSE
  IntWidths = {1, 2, 4}
  Capacities = {0, 2}
  kMaxDepth = 3
  MaxFrame = 20
  BufSize = 20
  kStrScratchSize = 6
  Typed <- MCTyped
  Raw <- MCRaw
  Results <- MCResults
  Calls <- MCCalls
  MsgIds <- MCMsgIds
  Events <- MCEvents
  Foreign <- MCForeign
  ForeignToHost <- MCForeignToHost
  BadArgs <- MCBadArgs
  UnknownMethod <- MCUnknownMethod
  TooLarge <- MCTooLarge
  HandlerError <- MCHandlerError
  LogName <- MCLogName
SPECIFICATION Spec
INVARIANTS ReadsWhatIsThere SkipTakesOneObject HandlerGetsTheArguments AnswerIsTheResult WholeMessages
PROPERTY RawHandlersStartClean
CHECK_DEADLOCK FALSE
