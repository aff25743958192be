SPECIFICATION FairSpec
CONSTANTS
  Files <- SomeFiles
  Words <- SomeWords
  WrapAt = 100
  Options <- SomeOptions
  BuiltIn <- SomeBuiltIn
  MaxTypes = 2
  DefaultShell <- DefaultSh
  Installed <- SomeInstalled
  MaxCommands = 3
INVARIANT TypeOK
INVARIANT BlockWhole
PROPERTY ImplementsLines
PROPERTY ImplementsAny
PROPERTY Progress
PROPERTY Ends
CHECK_DEADLOCK FALSE
