SPECIFICATION Spec
CONSTANTS
  foreign1 = foreign1  foreign2 = foreign2  home1 = home1
  N = 2
  Foreign = {foreign1, foreign2}
  Home = {}
  Malformed = TRUE
  MaxBatch = 2
  MaxVersion = 2
  MaxPackets = 3
SYMMETRY ForeignSymmetry
INVARIANTS NothingLost MetadataKept SentIsValid NamesCarried
CHECK_DEADLOCK FALSE
