SPECIFICATION Spec
CONSTANTS
  Payloads <- MCPayloads
  TrailerData <- MCTrailerData
  MaxMessages = 2
  ChunkSizes = {0, 1, 4, 50}
INVARIANTS CutsDoNotMatter NothingIsRetained GarbledTrailersThrow
PROPERTY ChunkIsItsFrames
CHECK_DEADLOCK FALSE
