SPECIFICATION Spec
CONSTANTS
    Sessions = {"s1"}
    Characteristics = {"lock", "log", "name", "command", "button", "level", "heat"}
    Attributes <- MCAttributes
    Bits <- MCBits
    Initial <- MCInitial
    ReadRequests <- MCReadRequests
    WriteRequests <- MCWriteRequests
    Pids = {0, 1}
    TTLs = {0, 2}
    MaxTime = 4
    TimeLimit = 5
    ScratchBytes = 12
    Errors = {"Busy"}
VIEW View
INVARIANT ValuesNearConstraints
PROPERTIES SlicesAreDisjoint PreparedWritesGetThere AdminValuesStayPrivate
