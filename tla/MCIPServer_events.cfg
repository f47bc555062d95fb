SPECIFICATION Spec
CONSTANTS
  Sessions = {s1, s2}
  Characteristics = {switch, bulb}
  Immediate = {switch}
SYMMETRY Symmetry
INVARIANTS ChangesAreCounted EverySessionIsServed IdleIsClean
