SPECIFICATION Spec
CONSTANTS
  Total = 8
  PageSize = 2
  Word = 64
  Addrs = {0, 5}
  Sizes = {1, 3, 8, 10}
  Segments <- MCSegments
  MaxRegions = 3
INVARIANTS TypeOK RegionsInside ImageLoaded Tiled
