SPECIFICATION FairSpec
CONSTANTS
  Sessions = {s1}
  Characteristics = {}
  Immediate = {}
PROPERTY ShutdownCompletes
CHECK_DEADLOCK FALSE
