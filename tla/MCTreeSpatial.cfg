SPECIFICATION Spec
VIEW View
CONSTANTS
  Capacity = 3
  Point <- Square5
  ZeroPoint <- Origin
  GenMod = 1000000
  Far = 100
  leaf_bucket_size = 1
  alpha <- Alpha
  tombstone_threshold <- Quarter
  CountMod = 1024
  BucketMod = 65536
  sq_resolution = 2
  Boxes <- TwoBoxes
  Balls <- TwoBalls
  MaxBatch = 1
  MaxTotal = 5
  INVALID = INVALID
  Queries <- SomeQueries
  Radii = {4}
  Ks = {1}
PROPERTY ImplementsTreeCalls
