CONSTANTS
  Savers = {s1, s2}
  MaxVersion = 2
  MayFail = TRUE
  MayCrash = TRUE
  MayReconfigure = TRUE
  MayFlush = TRUE
  Absent = Absent
  Empty = Empty
  Torn = Torn
SPECIFICATION Spec
SYMMETRY Symmetry
INVARIANTS
  TypeOK
  StateReadable
  NoChangeForgotten
PROPERTIES
  Durable
