SPECIFICATION Spec
VIEW View
CONSTANTS
  Capacity = 3
  Point <- Row5
  ZeroPoint <- Origin
  GenMod = 1000000
  Far = 100
  leaf_bucket_size = 1
  alpha <- ThreeFifths
  tombstone_threshold <- Quarter
  CountMod = 1024
  BucketMod = 65536
  sq_resolution = 2
  Boxes <- SomeBoxes
  Balls <- SomeBalls
  MaxBatch = 2
  MaxTotal = 6
  INVALID = INVALID
  Queries <- SomeQueries
  Radii = {2, 30}
  Ks = {1, 2}
PROPERTY InsertLeavesNoViolator
