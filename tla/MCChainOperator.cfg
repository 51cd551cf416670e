CONSTANTS
  N = 3
  f1 = f1  f2 = f2  p1 = p1  p2 = p2  g1 = g1  g2 = g2  s1 = s1  s2 = s2
  NoMeta = NoMeta
  File = {f2}
  FirstWord <- PlainNames
  Unparsable = {f2}
  Blank = {}
  PutOp = {p1}
  GetOp = {}
  Session <- OwnSession
  SlowSend = {}
  Crashable = {2, 3}
  MaxCrashes = 1
  OperatorCmds <- AllCommands
  FirstNext <- ConfiguredNext
  LateStart = {}
  TailFirst = TRUE
  Restartable = {2, 3}
  Hangable = {}
  ConfigFile <- ListedFile
  ConfigFiles <- ShuffledFiles
SPECIFICATION Spec
INVARIANT TypeOK
INVARIANT RolesMatchLinks
INVARIANT ConfigFormsChain
CHECK_DEADLOCK FALSE
