SPECIFICATION Spec
VIEW View
CONSTANTS
  Capacity = 2
  Point <- Corner3
  ZeroPoint <- Origin
  GenMod = 1000000
  Far = 100
  leaf_bucket_size = 1
  alpha <- Alpha
  tombstone_threshold <- Quarter
  CountMod = 8
  BucketMod = 65536
  MayFail = TRUE
  sq_resolution = 2
  Boxes <- TwoBoxes
  Balls <- OneBall
  MaxBatch = 1
  MaxTotal = 3
  MaxRecords = 1
  NoTree = NoTree
INVARIANTS NothingShared NoEntryTwice RecordsNameNodes
PROPERTIES FailuresStayLocal RebuildRestores
