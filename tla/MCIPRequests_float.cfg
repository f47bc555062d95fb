SPECIFICATION Spec
CONSTANTS
    Sessions = {"s1"}
    Characteristics = {"heat"}
    Attributes <- MCHeat
    Bits <- MCBits
    Initial <- MCHeatInitial
    ReadRequests <- MCReadRequests
    WriteRequests <- MCWriteRequests
    Pids = {0, 1}
    TTLs = {0, 2}
    MaxTime = 4
    TimeLimit = 5
    ScratchBytes = 12
    Errors = {"Busy"}
VIEW View
INVARIANT ValuesFulfilConstraints
