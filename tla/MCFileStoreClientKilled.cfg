CONSTANTS
  n1 = n1  n2 = n2  n3 = n3  u1 = u1  u2 = u2  d1 = d1
  b1 = b1  b2 = b2  c1 = c1  c2 = c2  my = my  photo = photo  home = home
  NoMeta = NoMeta  NoNode = NoNode
  StorageNode = {n1, n2, n3}
  Upload = {u1}
  Download = {d1}
  PathOf <- PlainPaths
  ContentOf <- OneChunk
  ChunkSize = 2
  Sha256 <- Symbolic
  StorageList <- MCStorageList
  RingHash <- MCRingHash
  DiskRoom <- Roomy
  Chunk <- MCChunk
  File <- MCFile
  FileOf <- CallName
  ChunksOf <- UploadChunks
  RecordOf <- UploadRecord
  Replicas <- ChunkReplicas
  MaxCrashes = 1
  MaxDown = 1
  Contents <- MCContents
  Names <- MCNames
  BlockLen = 64
  LengthLen = 8
  MaxHashed = 130
CHECK_DEADLOCK FALSE
SPECIFICATION Spec
INVARIANT UploadSurvivesNode
