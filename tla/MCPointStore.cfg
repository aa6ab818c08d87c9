SPECIFICATION FairSpec
CONSTANTS
  Capacity = 3
  Point = {p, q}
  ZeroPoint = p
  GenMod = 3
INVARIANTS TypeOK RingInv
PROPERTIES ReuseRestamps ImplementsQueue NeverSetBack AgesOut
