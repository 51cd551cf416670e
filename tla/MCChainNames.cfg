CONSTANTS
  N = 3
  f1 = f1  f2 = f2  p1 = p1  p2 = p2  g1 = g1  g2 = g2  s1 = s1  s2 = s2
  NoMeta = NoMeta
  File = {f1, f2}
  FirstWord <- SpacedNames
  Unparsable = {}
  Blank = {}
  PutOp = {p1}
  GetOp = {g1}
  Session <- OwnSession
  SlowSend = {}
  Crashable = {}
  MaxCrashes = 0
  OperatorCmds <- Nobody
  FirstNext <- ConfiguredNext
  LateStart = {}
  TailFirst = TRUE
  Restartable = {}
  Hangable = {}
  ConfigFile <- ListedFile
  ConfigFiles <- ShuffledFiles
SPECIFICATION Spec
INVARIANT RecordOfItsFile
