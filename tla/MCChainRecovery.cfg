CONSTANTS
  N = 3
  f1 = f1  f2 = f2  p1 = p1  p2 = p2  g1 = g1  g2 = g2  s1 = s1  s2 = s2
  NoMeta = NoMeta
  File = {f1, f2}
  FirstWord <- PlainNames
  Unparsable = {f2}
  Blank = {f2}
  PutOp = {p1}
  GetOp = {g1}
  Session <- OneSession
  SlowSend = {}
  Crashable = {2, 3}
  MaxCrashes = 1
  OperatorCmds <- SkipTheMiddle
  FirstNext <- ConfiguredNext
  LateStart = {}
  TailFirst = TRUE
  Restartable = {}
  Hangable = {}
  ConfigFile <- ListedFile
  ConfigFiles <- ShuffledFiles
SPECIFICATION FairSpec
INVARIANT TailHasAcked
PROPERTY AckedStaysReadable
PROPERTY CallsReturn
PROPERTY SkipRelinks
