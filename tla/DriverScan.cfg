\* Headers of two bytes and a heap of sixteen: up to seven chunks at once, or
\* three drivers.
SPECIFICATION ScanSpec
CONSTANTS
  Header = 2
  Start = 1
  HeapSize = 16
  Sizes = {0, 1, 2, 3, 5}
  Devices = 2
  Functions = 2
  Lines = {11, 255}
  Offset = 32
  DriverSize = 3
  MaxBefore = 0
INVARIANTS
  Tiling
  ListInOrder
  NoAdjacentFree
  WholeWhenEmpty
  BlocksAreChunks
  CardsDriven
PROPERTIES
  ImplementsHeap
