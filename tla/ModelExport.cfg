SPECIFICATION ExportSpec
CONSTANTS
  Workers = {w1, w2}
  Main = Main
  CommandLines <- MCCommandLines
  Scenes <- MCScenes
  MAX_FRAMES_IN_FLIGHT = 2
  FLT_MIN = 1
  FLT_MAX = 1000
  MaxFrames = 5
  MAX_BLOCKS_IN_BATCH = 4
  MAX_OUTPUT_TEXTURES_PER_PASS = 2
INVARIANTS CommandLineIsUnderstood ModelIsExported
PROPERTIES ExportEnds
CHECK_DEADLOCK FALSE
