CONSTANTS
  t1 = t1
  c1 = c1
  c2 = c2
  None = None
  MaxBlocks = 3
  MaxCommands = 6
  Tokens <- MCTokens
  CommandLines <- MCCommandLines
  ExitCodes <- MCExitCodes

SPECIFICATION Spec
INVARIANT TypeOK
INVARIANT ShellHistoryArchived
