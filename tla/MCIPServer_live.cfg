SPECIFICATION FairSpec
CONSTANTS
  Sessions = {s1}
  Characteristics = {switch, bulb}
  Immediate = {switch}
PROPERTIES EventsAreSent ShutdownCompletesOtherwise
