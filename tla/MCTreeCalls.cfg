SPECIFICATION TrySpec
VIEW View
CONSTANTS
  Capacity = 2
  Point <- Five
  ZeroPoint <- Origin
  GenMod = 1000
  Far = 100
  leaf_bucket_size = 1
  sq_resolution = 2
  alpha <- Alpha
  BucketMod = 65536
  Boxes <- SomeBoxes
  Balls <- SomeBalls
  MaxBatch = 2
  MaxTotal = 4
INVARIANTS SpatialInv DeletesExact LivePointsApart NoStaleRecords EntriesMatchLive RoomToPush TotalsCover StaysBalanced
PROPERTIES ImplementsPointSet ImplementsStamps
