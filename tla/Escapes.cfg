SPECIFICATION FrontSpec
CONSTANTS
  Chars <- MCChars
  Blank = " "
  Single = "'"
  Double <- MCDouble
  Backslash <- MCBackslash
  Specials <- MCSpecials
  Lines <- MCLines
  MaxLen = 4
  MaxTokens = 6
  Builtins <- MCBuiltins
  Dollar = "$"
  Query = "?"
  Letters <- MCLetters
  Digits = {"1"}
  Table <- MCTable
  Environ <- MCEnviron
  ShellPid <- MCPid
  LastStatus <- MCStatus
  Pipe <- MCPipe
  Amp <- MCAmp
  Out <- MCOut
  AppendOut <- MCAppendOut
  In <- MCIn
  AnyLen = 0
  OperatorLen = 0
  QuoteLen = 0
  DollarLen = 0
  PieceLen = 0
  EscapeLen = 4
INVARIANTS
  EscapesAreRead
CHECK_DEADLOCK FALSE
