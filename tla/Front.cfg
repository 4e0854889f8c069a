SPECIFICATION FrontSpec
CONSTANTS
  Chars <- MCChars
  Blank = " "
  Single = "'"
  Double <- MCDouble
  Backslash <- MCBackslash
  Specials <- MCSpecials
  Lines <- MCLines
  MaxLen = 4
  MaxTokens = 6
  Builtins <- MCBuiltins
  Dollar = "$"
  Query = "?"
  Letters <- MCLetters
  Digits = {"1"}
  Table <- MCTable
  Environ <- MCEnviron
  ShellPid <- MCPid
  LastStatus <- MCStatus
  Pipe <- MCPipe
  Amp <- MCAmp
  Out <- MCOut
  AppendOut <- MCAppendOut
  In <- MCIn
  AnyLen = 4
  OperatorLen = 6
  QuoteLen = 6
  DollarLen = 5
  PieceLen = 7
  EscapeLen = 0
INVARIANTS
  FrontTypeOK
  InBounds
  ParseInBounds
  CommandsHaveNames
  TokensMeanLine
  RefusedForQuotes
  OnlyBadLinesKill
  CommandsMeanTokens
  JobMeansLine
PROPERTIES
  LineEnds
CHECK_DEADLOCK FALSE
