CONSTANTS
  N = 3
  f1 = f1  f2 = f2  p1 = p1  p2 = p2  g1 = g1  g2 = g2  s1 = s1  s2 = s2
  NoMeta = NoMeta
  File = {f1}
  FirstWord <- PlainNames
  Unparsable = {}
  Blank = {}
  PutOp = {p1, p2}
  GetOp = {}
  Session <- OwnSession
  SlowSend = {1}
  Crashable = {2}
  MaxCrashes = 1
  OperatorCmds <- Nobody
  FirstNext <- ConfiguredNext
  LateStart = {1, 2}
  TailFirst = TRUE
  Restartable = {}
  Hangable = {}
  ConfigFile <- ListedFile
  ConfigFiles <- ShuffledFiles
SPECIFICATION Spec
SYMMETRY PutSymmetry
INVARIANT AckedPutReplicated
PROPERTY LiveNextKept
CHECK_DEADLOCK FALSE
