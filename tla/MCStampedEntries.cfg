SPECIFICATION Spec
CONSTANTS
  Capacity = 2
  Point = {p}
  ZeroPoint = p
  GenMod = 5
INVARIANT Discipline
PROPERTY StaleStaysStale
