SPECIFICATION Spec
VIEW View
CONSTANTS
  Capacity = 4
  Point <- Tie4
  ZeroPoint <- Origin
  GenMod = 1000000
  Far = 100
  leaf_bucket_size = 1
  alpha <- FourFifths
  tombstone_threshold <- Whole
  CountMod = 1024
  BucketMod = 65536
  sq_resolution = 2
  Boxes = {}
  Balls <- KeepAll
  MaxBatch = 1
  MaxTotal = 4
  INVALID = INVALID
  Queries <- SomeQueries
  Radii = {1, 2, 4, 30}
  Ks = {1, 2, 9}
INVARIANT TotalAtLeastLive
