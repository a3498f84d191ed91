SPECIFICATION StreamingSpec
CONSTANTS
  Assets = {"song", "rock"}
  Groups = {"music", "level", "room"}
  PersistentGroups = {"room"}
  mAssetDependencies <- MCDependencies
  ChildGroups <- MCChildGroups
  DataRequests = {"one", "two", "mesh", "skin", "old"}
  Info <- MCInfo
  LoadLimit = 3
  UnloadLimit = 3
  JOB_COUNT_LIMIT = 1
  Audio = "song"
  FileBlocks = 4
  DESIRED_QUEUED_AUDIO_BUFFER_COUNT = 2
  ZSTD_BLOCK_ARRAY_SIZE = 3
  AUDIO_QUEUE_SIZE = 2
INVARIANTS UpdateIsComplete QueuedBuffersAreIntact
PROPERTIES StreamingGoesOn
