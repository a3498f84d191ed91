SPECIFICATION PackerSpec
CONSTANTS
  WORKERS = 2
  JOB_QUEUE_SIZE = 1
  a = a
  b = b
  dir = dir
  sub = sub
  bcaInfo = bcaInfo
  Assets = {a, b}
  Directories = {dir, sub}
  Files = {a, b, bcaInfo}
  DirectoryOf <- MCDirectoryOf
  FileOrder <- MCFileOrder
  Texts <- MCTexts
  Attributes = {"DoNotCompress"}
  Versions = {1, 2}
  FirstVersion = 1
  CompressedFrame <- MCCompressedFrame
  RawFrame <- MCRawFrame
  PathHash <- MCPathHash
  Modes = {"debug", "release"}
  MaxBuilds = 2
  MaxCrashes = 1
  MaxRounds = 2
  ZSTD_INPUT_CHUNK_SIZE = 2
  MEMORY_ALLOCATION_GRANULARITY = 3
  HEADER_SIZE = 1
  TOC_ENTRY_SIZE = 1
INVARIANTS AssetsArePackedAsDescribed AssetIsRead
PROPERTIES BuildEnds
CHECK_DEADLOCK FALSE
