SPECIFICATION BothLevels
CONSTANTS
  Main = main
  Threads = {main, worker}
  mesh = mesh
  vertices = vertices
  indices = indices
  Dependencies = {mesh, texture}
  Requests = {vertices, indices, texture}
  RequestsOf <- MCRequestsOf
  Priority <- MCPriority
  PRIORITY_COUNT = 2
  LOADING_THREADS = 2
  REQUEST_QUEUE_SIZE = 1
  Compressed = {vertices, texture}
  DIRECT_STORAGE_QUEUE_CAPACITY = 2
INVARIANTS AssetsAreLoaded OneLoader
PROPERTIES EveryRequestCompletes
