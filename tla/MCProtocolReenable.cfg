CONSTANTS
  c1 = c1
  None = None
  MaxBlocks = 2
  MaxCount = 3
  RedundantDecsm = TRUE
  Tokens <- MCTokens
  CommandLines <- MCCommandLines
  ExitCodes <- MCExitCodes

SPECIFICATION Spec

INVARIANT SessionIsolation
