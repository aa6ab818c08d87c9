SPECIFICATION FairSpec
VIEW View
CONSTANTS
  Capacity = 2
  Point <- Corner3
  ZeroPoint <- Origin
  GenMod = 1000000
  Far = 10
  leaf_bucket_size = 1
  alpha <- Alpha
  tombstone_threshold <- Quarter
  CountMod = 4
  BucketMod = 65536
  sq_resolution = 2
  MaxNodes = 8
  INVALID = INVALID
  Batches <- SomeBatches
  Boxes <- SomeBoxes
  Balls <- SomeBalls
  Queries <- SomeQueries
  Ks = {1}
  Radii = {5}
  Chunk = 1
  Slices = 2
  MaxPending = 2
INVARIANTS DeletesPrevail SceneIsTree HighlightsCurrent
PROPERTIES ImplementsPublicViz Drains
