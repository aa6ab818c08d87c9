SPECIFICATION Spec
VIEW View
CONSTANTS
  Capacity = 3
  Point <- Square4
  ZeroPoint <- Origin
  GenMod = 1000000
  Far = 100
  leaf_bucket_size = 1
  alpha <- Alpha
  tombstone_threshold <- Quarter
  CountMod = 1024
  BucketMod = 65536
  MayFail = FALSE
  sq_resolution = 2
  Boxes <- SomeBoxes
  Balls <- SomeBalls
  MaxBatch = 2
  MaxTotal = 6
  MaxRecords = 0
  NoTree = NoTree
PROPERTY ImplementsTree
