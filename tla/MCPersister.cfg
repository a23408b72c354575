CONSTANTS
  Savers = {s1, s2}
  MaxVersion = 2
  MayFail = FALSE
  MayCrash = TRUE
  MayReconfigure = TRUE
  MayFlush = TRUE
  Absent = Absent
  Empty = Empty
  Torn = Torn
SPECIFICATION FairSpec
PROPERTIES
  DiskCatchesUp
