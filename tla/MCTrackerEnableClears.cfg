CONSTANTS
  t1 = t1
  t2 = t2
  c1 = c1
  c2 = c2
  None = None
  MaxBlocks = 2
  Tokens <- MCTokens
  CommandLines <- MCCommandLines
  ExitCodes <- MCExitCodes

SPECIFICATION Spec

PROPERTY EnableClearsHistory
