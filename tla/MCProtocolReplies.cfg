CONSTANTS
  c1 = c1
  None = None
  MaxBlocks = 2
  MaxCount = 3
  RedundantDecsm = FALSE
  MaxReplies = 2
  Tokens <- MCTokens
  CommandLines <- MCCommandLines
  ExitCodes <- MCExitCodes

SPECIFICATION Spec

INVARIANT TypeOK
INVARIANT HelperReadsCurrentToken
PROPERTY ImplementsSessionQueries
