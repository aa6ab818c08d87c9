SPECIFICATION Spec
CONSTANTS
  Handle = {h1, h2, h3}
  Address = {a1, a2, a3}
  Point = {p, q}
  Config <- SomeConfigs
  Null = Null
  Absent = Absent
  Free = Free
INVARIANT OneOwner
PROPERTY ImplementsValues
