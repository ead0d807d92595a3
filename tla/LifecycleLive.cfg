CONSTANTS
    Client = {c1, c2}
    Server = {s1}
    Pid = {p1}
    Port = {port}
    PortChoice <- ConfiguredPort
    None = None
    Foreign = Foreign
    Corrupt = Corrupt
    SlowHandlers = TRUE
SPECIFICATION LiveSpec
PROPERTIES
    CommandsEnd
    StoppingEnds
CHECK_DEADLOCK FALSE
