SPECIFICATION Spec
VIEW View
CONSTANTS
  Capacity = 3
  Point <- Wide5
  ZeroPoint <- Origin
  GenMod = 1000000
  Far = 100
  leaf_bucket_size = 1
  alpha <- Alpha
  tombstone_threshold <- Alpha
  CountMod = 1024
  BucketMod = 65536
  sq_resolution = 2
  Boxes <- LeftBox
  Balls <- TwoBalls
  MaxBatch = 1
  MaxTotal = 6
  INVALID = INVALID
  Queries <- SomeQueries
  Radii = {4, 5}
  Ks = {1, 2}
INVARIANTS TypeOK SearchesExact
PROPERTIES InsertLeavesNoViolator DeleteLeavesDeadViolators
