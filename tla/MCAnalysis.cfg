\* Files of up to three lines; two loops of up to three calls over one scripted
\* client; one such loop against the pilot's own server.
CONSTANTS
  None = None
  Blanks <- MCBlanks
  Surrogates <- MCSurrogates
  MaxRequests = 2
  MaxDepth = 6
  Lines <- MCLines
  MaxLines = 3
  Sessions <- MCSessions
  Replies <- MCReplies
  JsonTexts <- MCJsonTexts
  Files <- MCFiles
  MaxTurns = 2
  MaxLoops = 2
SPECIFICATION FairSpec
INVARIANTS
  ReportIsExact
  NothingCoerced
  ExitIsEarned
  ReportTellsHistory
  BridgeWithinFormat
  ToolCountsAddUp
  ServerStopped
PROPERTIES
  SessionEnds
CHECK_DEADLOCK FALSE
