SPECIFICATION Spec
CONSTANTS
  ChunkSize = 8
  DATA_BLOCK_HEADER_SIZE = 3
  SizeMod = 32
  MinBlock = 5
  MaxBlock = 14
  Offsets = {2, 5}
  FileSizes = {10, 13, 16, 17, 24, 25, 30, 31, 32, 33, 34, 35, 36, 37, 38, 39, 40}
INVARIANT TypeOK
PROPERTIES DataInOrder PagesComplete
CHECK_DEADLOCK FALSE
