CONSTANTS
  N = 3
  f1 = f1  f2 = f2  p1 = p1  p2 = p2  g1 = g1  g2 = g2  s1 = s1  s2 = s2
  NoMeta = NoMeta
  File = {f1}
  FirstWord <- PlainNames
  Unparsable = {}
  Blank = {}
  PutOp = {p1}
  GetOp = {}
  Session <- OwnSession
  SlowSend = {}
  Crashable = {1}
  MaxCrashes = 1
  OperatorCmds <- Nobody
  FirstNext <- ConfiguredNext
  LateStart = {}
  TailFirst = TRUE
  Restartable = {}
  Hangable = {}
  ConfigFile <- ListedFile
  ConfigFiles <- ShuffledFiles
SPECIFICATION FairSpec
PROPERTY AckedStaysReadable
CHECK_DEADLOCK FALSE
