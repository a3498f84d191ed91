SPECIFICATION AllLevels
CONSTANTS
  Resources = {"tex", "buf"}
  States = {"COMMON", "RT", "SRV", "UAV", "COPY_DEST"}
  Decays = {"buf"}
  InitialState <- MCInitialState
  Bundles <- MCBundles
  MaxBundles = 3
  MaxDepth = 3
  MaxWaits = 1
  RENDER_JOB_BUNDLE_QUEUE_SIZE = 2
  PSOs = {"p", "q"}
  Versions = {1, 2}
  Size <- MCSize
  Systems <- MCSystems
  Capable = {"d", "e"}
  MaxChanges = 2
  MaxKills = 2
INVARIANTS FencesTellTheTruth TransitionsMatchTheGPU PSOsAreCurrent HeapsAreDividedUp UpdatesAreComplete
PROPERTIES EngineGoesOn SettingsComeBack
CHECK_DEADLOCK FALSE
