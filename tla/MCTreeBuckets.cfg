SPECIFICATION Spec
VIEW View
CONSTANTS
  Capacity = 3
  Point <- Square4
  ZeroPoint <- Origin
  GenMod = 1000000
  Far = 100
  leaf_bucket_size = 2
  alpha <- Alpha
  tombstone_threshold <- Quarter
  CountMod = 5
  BucketMod = 65536
  sq_resolution = 2
  Boxes <- HalfBox
  Balls <- TwoBalls
  MaxBatch = 2
  MaxTotal = 5
  INVALID = INVALID
  Queries <- SomeQueries
  Radii = {4}
  Ks = {1}
PROPERTY ImplementsPointSet
