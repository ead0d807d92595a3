\* Two commands and two servers on one port; two pids, so one can be reused.
CONSTANTS
    Client = {c1, c2}
    Server = {s1, s2}
    Pid = {p1, p2}
    Port = {port}
    PortChoice <- ConfiguredPort
    None = None
    Foreign = Foreign
    Corrupt = Corrupt
    SlowHandlers = FALSE
SYMMETRY Symmetry
SPECIFICATION FewSpec
INVARIANTS
    SingleWriter
    FilesBelongToHolder
    StartsAreSerial
PROPERTIES
    ConfirmsTheHolder
    SignalsOnlyTheRecorded
    StopMeansGone
    FailedStartLeavesNoServer
CHECK_DEADLOCK FALSE
